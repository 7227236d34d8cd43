------------------------------- MODULE People -------------------------------
(***************************************************************************)
(* One user in Keycloak and in the table Person.  The row is written by    *)
(* the update of an administrator (UsersService.update, which changes      *)
(* Keycloak inside its transaction), by the webhook of Keycloak, by every  *)
(* request of the user whose token differs from the cached row             *)
(* (savePersonFromUserData), and by the sync at startup.  Webhooks may be  *)
(* late, out of order or lost, tokens are old until they expire, and the   *)
(* commit may fail after Keycloak has changed.                             *)
(*                                                                         *)
(* A user has a name, for all that tokens carry, and is enabled or not.    *)
(* Whoever writes the row waits for an open transaction that has written   *)
(* it.                                                                     *)
(***************************************************************************)
EXTENDS Naturals, FiniteSets

CONSTANTS
    Editors,      \* requests of administrators
    Logins,       \* requests of the user
    PersonNames, StartName,
    Edits,        \* bodies of update: [name, active], Absent where absent
    MaxChanges,   \* bound on the changes in Keycloak and on updates
    Absent

VARIABLES
    kc,        \* the user in Keycloak
    person,    \* the row of Person, or Absent
    personCache, \* the row in the memory cache, or Absent
    tokens,    \* the names in tokens that are still valid
    hooks,     \* webhooks that were sent and not handled
    sent,      \* the number of webhooks sent
    handled,   \* the greatest number of one that was handled (history)
    edit,      \* editor -> its progress
    login,     \* login -> its progress
    sync,      \* the sync's progress
    changes,   \* changes so far (bound)
    doubts     \* what happened that can set the row and Keycloak apart (history)

peopleVars == <<kc, person, personCache, tokens, hooks, sent, handled, edit, login, sync, changes, doubts>>

NoEdit == [pc |-> "idle", body |-> Absent, seen |-> Absent, current |-> FALSE]
NoLogin == [pc |-> "idle", row |-> Absent]
PersonRow(n, a) == [name |-> n, active |-> a]
PersonRows == [name : PersonNames, active : BOOLEAN]

ASSUME PeopleAssumption ==
    /\ StartName \in PersonNames /\ Absent \notin PersonRows
    /\ Edits \subseteq [name : {Absent} \cup PersonNames, active : {Absent} \cup BOOLEAN]

PeopleInit ==
    /\ kc \in [name : {StartName}, enabled : BOOLEAN]
    /\ person = Absent /\ personCache = Absent
    /\ tokens = {} /\ hooks = {} /\ sent = 0 /\ handled = 0
    /\ edit = [e \in Editors |-> NoEdit]
    /\ login = [l \in Logins |-> NoLogin]
    /\ sync = [pc |-> "due", name |-> Absent]
    /\ changes = 0
    /\ doubts = {}

OrElse(x, old) == IF x = Absent THEN old ELSE x
Unlocked == \A e \in Editors : edit[e].pc \notin {"keycloak", "commit"}
ChangeCounted == changes < MaxChanges /\ changes' = changes + 1

(* A change of Keycloak by its admin interface sends a webhook. *)
Notify(u) ==
    /\ kc' = u
    /\ sent' = sent + 1
    /\ hooks' = hooks \cup {[n |-> sent + 1, name |-> u.name, enabled |-> u.enabled]}

(* Updates that have read the row have seen Keycloak as it is no more. *)
Outdated == [e \in Editors |-> [edit[e] EXCEPT !.current = FALSE]]

-----------------------------------------------------------------------------
(* Keycloak and its webhook                                                *)

ChangeInKeycloak(u) ==
    /\ u # kc /\ ChangeCounted
    /\ Notify(u)
    /\ edit' = Outdated
    /\ UNCHANGED <<person, personCache, tokens, handled, login, sync, doubts>>

(* A change by the user sends another event, which the webhook ignores. *)
ChangeOwnProfile(n) ==
    /\ n # kc.name /\ kc.enabled /\ ChangeCounted
    /\ kc' = [kc EXCEPT !.name = n]
    /\ edit' = Outdated
    /\ UNCHANGED <<person, personCache, tokens, hooks, sent, handled, login, sync, doubts>>

(* handleUserEvent: what the event says is written, old or new. *)
HandleUserEvent(h) ==
    /\ Unlocked
    /\ person' = PersonRow(h.name, h.enabled)
    /\ hooks' = hooks \ {h}
    /\ handled' = IF h.n > handled THEN h.n ELSE handled
    /\ doubts' = IF h.n < handled THEN doubts \cup {"order"} ELSE doubts
    /\ UNCHANGED <<kc, personCache, tokens, sent, edit, login, sync, changes>>

LoseEvent(h) ==
    /\ hooks' = hooks \ {h}
    /\ doubts' = doubts \cup {"lost"}
    /\ UNCHANGED <<kc, person, personCache, tokens, sent, handled, edit, login, sync, changes>>

-----------------------------------------------------------------------------
(* UsersService.update                                                     *)

(* current: the row and Keycloak are the same when the row is read, and    *)
(* have not been changed since (history).                                  *)
ReadForUpdate(e, b) ==
    /\ edit[e].pc = "idle" /\ person # Absent /\ ChangeCounted
    /\ edit' = [edit EXCEPT ![e] = [pc |-> "write", body |-> b, seen |-> person,
                                    current |-> person = PersonRow(kc.name, kc.enabled)]]
    /\ UNCHANGED <<kc, person, personCache, tokens, hooks, sent, handled, login, sync, doubts>>

WriteInTransaction(e) ==
    /\ edit[e].pc = "write" /\ Unlocked
    /\ edit' = [edit EXCEPT ![e].pc = "keycloak"]
    /\ UNCHANGED <<kc, person, personCache, tokens, hooks, sent, handled, login, sync, changes, doubts>>

(* Faulty variant: enabled is sent as TRUE unless it is given. *)
SentEnabling(e) == [name |-> OrElse(edit[e].body.name, edit[e].seen.name),
                    enabled |-> OrElse(edit[e].body.active, TRUE)]

(* The fields that are not given are sent as they were read. *)
SentToKeycloak(e) == [name |-> OrElse(edit[e].body.name, edit[e].seen.name),
                      enabled |-> OrElse(edit[e].body.active, edit[e].seen.active)]

UpdateKeycloak(e) ==
    /\ edit[e].pc = "keycloak"
    /\ Notify(SentToKeycloak(e))
    /\ edit' = [Outdated EXCEPT ![e].pc = "commit"]
    /\ UNCHANGED <<person, personCache, tokens, handled, login, sync, changes, doubts>>

UpdateKeycloakFails(e) ==
    /\ edit[e].pc = "keycloak"
    /\ edit' = [edit EXCEPT ![e] = NoEdit]
    /\ UNCHANGED <<kc, person, personCache, tokens, hooks, sent, handled, login, sync, changes, doubts>>

(* The fields that are given are committed, or the transaction was open    *)
(* for too long and is rolled back.                                        *)
CommitUpdate(e) ==
    /\ edit[e].pc = "commit"
    /\ person' = PersonRow(OrElse(edit[e].body.name, person.name),
                         OrElse(edit[e].body.active, person.active))
    /\ edit' = [edit EXCEPT ![e] = NoEdit]
    /\ UNCHANGED <<kc, personCache, tokens, hooks, sent, handled, login, sync, changes, doubts>>

CommitFails(e) ==
    /\ edit[e].pc = "commit"
    /\ edit' = [edit EXCEPT ![e] = NoEdit]
    /\ UNCHANGED <<kc, person, personCache, tokens, hooks, sent, handled, login, sync, changes, doubts>>

-----------------------------------------------------------------------------
(* Requests of the user                                                    *)

GetToken ==
    /\ kc.enabled
    /\ tokens' = tokens \cup {kc.name}
    /\ UNCHANGED <<kc, person, personCache, hooks, sent, handled, edit, login, sync, changes, doubts>>

ExpireToken(t) ==
    /\ tokens' = tokens \ {t}
    /\ UNCHANGED <<kc, person, personCache, hooks, sent, handled, edit, login, sync, changes, doubts>>

ExpirePerson ==
    /\ personCache # Absent
    /\ personCache' = Absent
    /\ UNCHANGED <<kc, person, tokens, hooks, sent, handled, edit, login, sync, changes, doubts>>

(* Faulty variant: the row is created and never updated. *)
SavePersonCreateOnly(l, t) ==
    /\ login[l].pc = "idle" /\ personCache = Absent /\ Unlocked
    /\ person' = IF person = Absent THEN PersonRow(t, TRUE) ELSE person
    /\ login' = [login EXCEPT ![l] = [pc |-> "cache", row |-> person']]
    /\ UNCHANGED <<kc, personCache, tokens, hooks, sent, handled, edit, sync, changes, doubts>>

(* savePersonFromUserData: an upsert when nothing is cached and an update  *)
(* when the cached row differs; then the row is put into the cache.  A row *)
(* that is created is active.                                              *)
SavePersonFromUserData(l, t) ==
    /\ login[l].pc = "idle" /\ Unlocked
    /\ personCache # Absent => personCache.name # t
    /\ person' = PersonRow(t, IF person = Absent THEN TRUE ELSE person.active)
    /\ login' = [login EXCEPT ![l] = [pc |-> "cache", row |-> person']]
    /\ UNCHANGED <<kc, personCache, tokens, hooks, sent, handled, edit, sync, changes, doubts>>

CachePerson(l) ==
    /\ login[l].pc = "cache"
    /\ personCache' = login[l].row
    /\ login' = [login EXCEPT ![l] = NoLogin]
    /\ UNCHANGED <<kc, person, tokens, hooks, sent, handled, edit, sync, changes, doubts>>

-----------------------------------------------------------------------------
(* KeycloakAccessSyncService, for a user with client, site and role        *)

SyncPage ==
    /\ sync.pc = "due"
    /\ sync' = [pc |-> "upsert", name |-> kc.name]
    /\ UNCHANGED <<kc, person, personCache, tokens, hooks, sent, handled, edit, login, changes, doubts>>

SyncUpsert ==
    /\ sync.pc = "upsert" /\ Unlocked
    /\ person' = PersonRow(sync.name, IF person = Absent THEN TRUE ELSE person.active)
    /\ sync' = [pc |-> "done", name |-> Absent]
    /\ doubts' = IF person = Absent THEN doubts \cup {"created"} ELSE doubts
    /\ UNCHANGED <<kc, personCache, tokens, hooks, sent, handled, edit, login, changes>>

EditStep(e) == \/ WriteInTransaction(e) \/ UpdateKeycloak(e) \/ UpdateKeycloakFails(e)
               \/ CommitUpdate(e) \/ CommitFails(e)
SyncStep == SyncPage \/ SyncUpsert

PeopleNext ==
    \/ \E n \in PersonNames, b \in BOOLEAN : ChangeInKeycloak([name |-> n, enabled |-> b])
    \/ \E n \in PersonNames : ChangeOwnProfile(n)
    \/ \E h \in hooks : HandleUserEvent(h) \/ LoseEvent(h)
    \/ \E e \in Editors : EditStep(e) \/ \E b \in Edits : ReadForUpdate(e, b)
    \/ GetToken \/ \E t \in tokens : ExpireToken(t)
    \/ ExpirePerson
    \/ \E l \in Logins : CachePerson(l) \/ \E t \in tokens : SavePersonFromUserData(l, t)
    \/ SyncStep

(* Requests, the sync and webhooks go on; tokens and cached rows expire;   *)
(* the user comes back with a token that was just issued.                  *)
PeopleFairness ==
    /\ \A e \in Editors : WF_peopleVars(EditStep(e))
    /\ WF_peopleVars(SyncStep)
    /\ WF_peopleVars(\E h \in hooks : HandleUserEvent(h) \/ LoseEvent(h))
    /\ \A t \in PersonNames : WF_peopleVars(t \in tokens /\ t # kc.name /\ ExpireToken(t))
    /\ WF_peopleVars(ExpirePerson)
    /\ \A l \in Logins : WF_peopleVars(CachePerson(l))
    /\ \A t \in PersonNames :
          SF_peopleVars(/\ t \in tokens /\ t = kc.name
                        /\ \E l \in Logins : SavePersonFromUserData(l, t))
    /\ WF_peopleVars(GetToken)

PeopleSpec == PeopleInit /\ [][PeopleNext]_peopleVars

-----------------------------------------------------------------------------
(* Properties                                                              *)

(* The row has the name that Keycloak has. *)
NameSettled == kc.enabled => person # Absent /\ person.name = kc.name

(* When nothing is on its way the row is active exactly when the user is   *)
(* enabled, unless a webhook was lost or handled after a later one, or the *)
(* row was first written without that knowledge: an update whose commit    *)
(* fails after Keycloak changed is repaired by the webhook it caused.      *)
ActiveAgrees ==
    (hooks = {} /\ (\A e \in Editors : edit[e].pc \in {"idle", "write"}) /\ person # Absent /\ doubts = {})
       => person.active = kc.enabled

(* An update sends the whole user to Keycloak and yet changes only what    *)
(* was asked for, unless the row it read was not what Keycloak had, or is  *)
(* no more.                                                                *)
UpdateChangesWhatWasAsked ==
    [][\A e \in Editors :
         (edit[e].pc = "keycloak" /\ edit'[e].pc = "commit" /\ edit[e].current) =>
            /\ edit[e].body.name = Absent => kc'.name = kc.name
            /\ edit[e].body.active = Absent => kc'.enabled = kc.enabled]_peopleVars

(* The two copies of a user under updates that fail half way and webhooks: *)
(* they agree on who is active, and an update changes what was asked for   *)
(* (UsersService.update, the webhook controller).                          *)
PersonSound == []ActiveAgrees /\ UpdateChangesWhatWasAsked
=============================================================================
