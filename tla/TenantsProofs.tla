--------------------------- MODULE TenantsProofs ----------------------------
(* Proofs about clients and their data, for any clients, sites, people,    *)
(* servers, keys, calls and requests: the settings of all clients and the  *)
(* mails about requests for products; access rows under copies of demo     *)
(* clients and cascades; the jobs on demo clients; the history of          *)
(* compliance; the alerts of an inspection.                                *)
EXTENDS Clients, Compliance, ProductRequests, AlertRules, FiniteSetTheorems, WellFoundedInduction, TLAPS
-----------------------------------------------------------------------------
(* Settings and requests *)

Blocks == {NoBlock} \cup UNION {[D -> Int] : D \in SUBSET (SettingKeys \cup EarlierKeys)}
CallStates == {"find", "create", "fill", "save", "store", "answer"}
Calls == [pc : CallStates, server : Servers, data : Blocks, lacked : SUBSET SettingKeys, since : Nat,
          late : BOOLEAN]

SettingsTyped ==
    /\ block \in Blocks
    /\ copies \in [Servers -> Blocks]
    /\ lookup \in [SettingCalls -> {NoLookup} \cup Calls]
    /\ saves \in Nat /\ writes \in Nat
    /\ worker \in [Orders -> SettingCalls \cup {NoOrder}]

(* What a call at a server that no write has passed by is about to store   *)
(* is the row.                                                             *)
StoresTheRow == \A c \in SettingCalls : (In(c, "store") /\ lookup[c].server \notin behind) => lookup[c].data = block

(* A call's data is the row as long as nothing has been written since, and *)
(* what fills a block is what it lacked.                                   *)
CallsHonest ==
    \A c \in SettingCalls :
       /\ lookup[c].pc # "idle" => lookup[c].since <= writes
       /\ In(c, "store") => (lookup[c].since = writes => lookup[c].data = block)
       /\ In(c, "answer") => (~lookup[c].late /\ lookup[c].since = writes => lookup[c].data = block)
       /\ In(c, "fill") => lookup[c].lacked # {}

SettingsInv == SettingsTyped /\ CopiesExplained /\ StoresTheRow /\ CallsHonest /\ AddressAsSaved

(* A call is idle, or a record of its server and its data. *)
LEMMA CallTyped ==
    ASSUME SettingsTyped, NEW c \in SettingCalls
    PROVE  /\ lookup[c].pc \in CallStates => lookup[c] \in Calls
           /\ lookup[c] \notin Calls => lookup[c] = NoLookup /\ lookup[c].pc = "idle"
           /\ lookup[c] \in Calls => lookup[c].pc # "idle"
BY DEF SettingsTyped, NoLookup, CallStates, Calls

(* A call with other fields. *)
LEMMA CallWith ==
    ASSUME NEW q \in Calls, NEW pc \in CallStates, NEW d \in Blocks, NEW n \in Nat, NEW L \in SUBSET SettingKeys
    PROVE  /\ [q EXCEPT !.pc = pc] \in Calls
           /\ [q EXCEPT !.pc = pc, !.since = n] \in Calls
           /\ [q EXCEPT !.pc = pc, !.data = d, !.since = n] \in Calls
           /\ [q EXCEPT !.pc = pc, !.data = d, !.since = n, !.lacked = L] \in Calls
BY DEF Calls

(* The defaults laid over a block. *)
LEMMA DefaultsBlock ==
    ASSUME NEW b \in Blocks, b # NoBlock
    PROVE  WithDefaults(b) \in Blocks /\ Defaults \in Blocks
<1>1. PICK D \in SUBSET (SettingKeys \cup EarlierKeys) : b \in [D -> Int]
  BY DEF Blocks
<1>2. Defaults \in [SettingKeys -> Int]
  BY DEF Defaults
<1>3. WithDefaults(b) \in [SettingKeys \cup D -> Int]
  BY <1>1, <1>2 DEF WithDefaults
<1> QED
  BY <1>2, <1>3 DEF Blocks

(* Steps that keep settings and calls. *)
LEMMA OrdersApart ==
    ASSUME SettingsInv, UNCHANGED settingsVars, mails' = mails, worker' \in [Orders -> SettingCalls \cup {NoOrder}]
    PROVE  SettingsInv'
BY DEF SettingsInv, settingsVars, SettingsTyped, CopiesExplained, StoresTheRow, CallsHonest, AddressAsSaved, In, Storing

(* A step of a call that writes nothing: it goes idle, or on with data     *)
(* that is honest.                                                         *)
LEMMA CallReads ==
    ASSUME SettingsInv, NEW c \in SettingCalls, NEW q \in {NoLookup} \cup Calls, ~In(c, "store"),
           lookup' = [lookup EXCEPT ![c] = q],
           q.pc # "idle" => q.since <= writes,
           q.pc \in {"store", "answer"} => (~q.late => q.data = block),
           q.pc = "store" => q.data = block,
           q.pc = "fill" => q.lacked # {},
           UNCHANGED <<block, copies, writes, behind>>, saves' \in Nat,
           worker' \in [Orders -> SettingCalls \cup {NoOrder}], AddressAsSaved'
    PROVE  SettingsInv'
<1>1. \A d \in SettingCalls : lookup'[d] = IF d = c THEN q ELSE lookup[d]
  BY DEF SettingsInv, SettingsTyped
<1>2. SettingsTyped'
  BY DEF SettingsInv, SettingsTyped
<1>3. \A s \in Servers : Storing(s) \subseteq Storing(s)'
  BY <1>1 DEF Storing, In
<1>4. CopiesExplained'
  BY <1>3 DEF SettingsInv, CopiesExplained
<1>5. StoresTheRow'
  BY <1>1 DEF SettingsInv, StoresTheRow, In
<1>6. CallsHonest'
  BY <1>1 DEF SettingsInv, CallsHonest, In
<1> QED
  BY <1>2, <1>4, <1>5, <1>6 DEF SettingsInv

(* A call writes the row: what others have read is known to be old. *)
LEMMA CallWrites ==
    ASSUME SettingsInv, NEW c \in SettingCalls, lookup[c] \in Calls, ~In(c, "store"), NEW q \in Calls,
           lookup' = [lookup EXCEPT ![c] = q], PassedBy(c), block' = q.data,
           q.pc = "store", q.server = lookup[c].server, q.since = writes',
           UNCHANGED <<copies, saves, worker, mails>>
    PROVE  SettingsInv'
<1>1. \A d \in SettingCalls : lookup'[d] = IF d = c THEN q ELSE lookup[d]
  BY DEF SettingsInv, SettingsTyped
<1>2. writes \in Nat /\ writes' = writes + 1
  BY DEF SettingsInv, SettingsTyped, PassedBy
<1>3. SettingsTyped'
  BY <1>2 DEF SettingsInv, SettingsTyped, Calls
<1>4. \A s \in Servers \ behind' : s = q.server /\ c \in Storing(s)'
  BY <1>1 DEF PassedBy, Storing, In
<1>5. CopiesExplained'
  BY <1>4 DEF CopiesExplained
<1>6. StoresTheRow'
  <2> SUFFICES ASSUME NEW d \in SettingCalls, d # c, In(d, "store"), lookup[d].server \notin behind' PROVE FALSE
    BY <1>1 DEF StoresTheRow, In
  <2> QED
    BY DEF PassedBy
<1>7. CallsHonest'
  <2> SUFFICES ASSUME NEW d \in SettingCalls, d # c, lookup[d].pc # "idle"
               PROVE  /\ lookup[d].since <= writes' /\ lookup[d].since # writes'
                      /\ In(d, "fill") => lookup[d].lacked # {}
    BY <1>1, <1>2 DEF CallsHonest, In
  <2>1. lookup[d] \in Calls
    BY CallTyped DEF SettingsInv
  <2>2. lookup[d].since \in Nat /\ lookup[d].since <= writes
    BY <2>1 DEF SettingsInv, CallsHonest, Calls
  <2>3. In(d, "fill") => lookup[d].lacked # {}
    BY DEF SettingsInv, CallsHonest
  <2> QED
    BY <1>2, <2>2, <2>3
<1>8. AddressAsSaved'
  BY DEF SettingsInv, AddressAsSaved
<1> QED
  BY <1>3, <1>5, <1>6, <1>7, <1>8 DEF SettingsInv

(* A call stores its data in its server's copy. *)
LEMMA CallStores ==
    ASSUME SettingsInv, NEW c \in SettingCalls, StoreCopy(c), UNCHANGED <<worker, mails>>
    PROVE  SettingsInv'
<1>1. PICK q \in Calls : lookup[c] = q /\ q.pc = "store"
  BY CallTyped DEF SettingsInv, StoreCopy, In, CallStates
<1>2. PICK p \in Calls : p = [q EXCEPT !.pc = "answer"]
  <2>1. [q EXCEPT !.pc = "answer"] \in Calls
    BY DEF CallStates, Calls
  <2> QED
    BY <2>1
<1>3. p.pc = "answer" /\ p.server = q.server /\ p.data = q.data /\ p.since = q.since /\ p.late = q.late
      /\ q.server \in Servers /\ q.data \in Blocks
  BY <1>2 DEF Calls
<1>4. \A d \in SettingCalls : lookup'[d] = IF d = c THEN p ELSE lookup[d]
  BY <1>1, <1>2 DEF StoreCopy, Move, SettingsInv, SettingsTyped
<1>5. /\ copies' = [copies EXCEPT ![q.server] = q.data] /\ UNCHANGED <<block, saves, writes>>
      /\ behind' = IF q.data = block /\ Storing(q.server) = {c} THEN behind \ {q.server} ELSE behind
  BY <1>1 DEF StoreCopy
<1>6. SettingsTyped'
  <2>1. lookup' = [lookup EXCEPT ![c] = p]
    BY <1>1, <1>2 DEF StoreCopy, Move
  <2> QED
    BY <1>3, <1>5, <2>1 DEF SettingsInv, SettingsTyped
<1>7. \A s \in Servers : Storing(s)' = Storing(s) \ {c}
  BY <1>3, <1>4 DEF Storing, In
<1>8. c \in Storing(q.server) /\ \A s \in Servers : c \in Storing(s) => s = q.server
  BY <1>1, <1>3 DEF Storing, In
<1>9. CopiesExplained'
  <2> SUFFICES ASSUME NEW s \in Servers, s \notin behind', Storing(s)' = {} PROVE copies'[s] \in {NoBlock, block}
    BY <1>5 DEF CopiesExplained
  <2>1. CASE s = q.server
    <3>1. q.data = block
      BY <1>1, <1>5, <2>1 DEF SettingsInv, StoresTheRow, In
    <3> QED
      BY <1>5, <2>1, <3>1 DEF SettingsInv, SettingsTyped
  <2>2. CASE s # q.server
    <3>1. s \notin behind /\ Storing(s) = {}
      BY <1>5, <1>7, <1>8, <2>2
    <3> QED
      BY <1>5, <2>2, <3>1 DEF SettingsInv, CopiesExplained, SettingsTyped
  <2> QED
    BY <2>1, <2>2
<1>10. StoresTheRow'
  <2> SUFFICES ASSUME NEW d \in SettingCalls, d # c, In(d, "store"), lookup[d].server \notin behind'
               PROVE  lookup[d].data = block
    BY <1>3, <1>4, <1>5 DEF StoresTheRow, In
  <2>1. lookup[d] \in Calls
    BY CallTyped DEF SettingsInv, In, CallStates
  <2>2. d \in Storing(lookup[d].server)
    BY DEF Storing
  <2>3. lookup[d].server \notin behind
    BY <1>5, <2>2
  <2> QED
    BY <2>3 DEF SettingsInv, StoresTheRow
<1>11. CallsHonest'
  <2>1. q.since <= writes /\ (q.since = writes => q.data = block)
    BY <1>1 DEF SettingsInv, CallsHonest, In
  <2> QED
    BY <1>3, <1>4, <1>5, <2>1 DEF SettingsInv, CallsHonest, In
<1>12. AddressAsSaved'
  BY DEF SettingsInv, AddressAsSaved
<1> QED
  BY <1>6, <1>9, <1>10, <1>11, <1>12 DEF SettingsInv

(* A server starts again, without a copy and without calls. *)
LEMMA ServerRestarts ==
    ASSUME SettingsInv, NEW s \in Servers, Restarted(s)
    PROVE  SettingsInv'
<1>1. \A d \in SettingCalls : lookup'[d] = IF ~In(d, "idle") /\ lookup[d].server = s THEN NoLookup ELSE lookup[d]
  BY DEF Restarted, RestartServer
<1>2. NoLookup.pc = "idle"
  BY DEF NoLookup
<1>3. UNCHANGED <<block, saves, writes, mails>> /\ copies' = [copies EXCEPT ![s] = NoBlock] /\ behind' = behind \ {s}
  BY DEF Restarted, RestartServer
<1>4. SettingsTyped'
  <2>1. lookup' \in [SettingCalls -> {NoLookup} \cup Calls]
    BY DEF Restarted, RestartServer, SettingsInv, SettingsTyped
  <2>2. worker' \in [Orders -> SettingCalls \cup {NoOrder}]
    BY DEF Restarted, SettingsInv, SettingsTyped
  <2>3. NoBlock \in Blocks
    BY DEF Blocks
  <2> QED
    BY <1>3, <2>1, <2>2, <2>3 DEF SettingsInv, SettingsTyped
<1>5. \A t \in Servers : t # s => Storing(t)' = Storing(t)
  BY <1>1, <1>2 DEF Storing, In
<1>6. CopiesExplained'
  <2> SUFFICES ASSUME NEW t \in Servers, t \notin behind', Storing(t)' = {} PROVE copies'[t] \in {NoBlock, block}
    BY <1>3 DEF CopiesExplained
  <2>1. CASE t = s
    BY <1>3, <2>1 DEF SettingsInv, SettingsTyped
  <2>2. CASE t # s
    BY <1>3, <1>5, <2>2 DEF SettingsInv, SettingsTyped, CopiesExplained
  <2> QED
    BY <2>1, <2>2
<1>7. \A d \in SettingCalls : lookup'[d].pc # "idle" => lookup'[d] = lookup[d] /\ lookup[d].server # s
  BY <1>1, <1>2 DEF In
<1>8. StoresTheRow'
  BY <1>3, <1>7 DEF SettingsInv, StoresTheRow, In
<1>9. CallsHonest'
  BY <1>3, <1>7 DEF SettingsInv, CallsHonest, In
<1>10. AddressAsSaved'
  BY <1>3 DEF SettingsInv, AddressAsSaved
<1> QED
  BY <1>4, <1>6, <1>8, <1>9, <1>10 DEF SettingsInv

(* The steps of a settings call, for the settings page or a job. *)
LEMMA LookupSteps ==
    ASSUME SettingsInv, NEW c \in SettingCalls, UNCHANGED mails,
           worker' \in [Orders -> SettingCalls \cup {NoOrder}],
           \/ \E s \in Servers : GetGlobalSettings(c, s) \/ UpdateGlobalSettings(c, s)
           \/ FindBlock(c)
           \/ /\ Move(c, NoLookup) /\ UNCHANGED <<block, copies, saves, writes, behind>>
              /\ lookup[c].pc \in {"find", "create", "fill", "save", "answer"}
    PROVE  SettingsInv'
<1>0. /\ AddressAsSaved' /\ saves \in Nat /\ writes \in Nat /\ block \in Blocks /\ copies \in [Servers -> Blocks]
      /\ NoBlock \in Blocks
  BY DEF SettingsInv, SettingsTyped, AddressAsSaved, Blocks
<1>1. ASSUME NEW s \in Servers, GetGlobalSettings(c, s) PROVE SettingsInv'
  <2>1. CASE copies[s] # NoBlock /\ ~ShouldUpdateDefaultValues(copies[s])
    <3> DEFINE q == Call("answer", s, copies[s], s \in behind \/ Storing(s) # {})
    <3>1. q \in Calls
      BY <1>0 DEF Call, Calls, CallStates
    <3>2. q.pc = "answer" /\ q.since = writes /\ q.data = copies[s] /\ (~q.late => s \notin behind /\ Storing(s) = {})
      BY DEF Call
    <3>3. ~q.late => q.data = block
      BY <2>1, <3>2 DEF SettingsInv, CopiesExplained
    <3>4. lookup' = [lookup EXCEPT ![c] = q] /\ UNCHANGED <<block, copies, saves, writes, behind>> /\ ~In(c, "store")
      BY <1>1, <2>1 DEF GetGlobalSettings, Move, In
    <3> HIDE DEF q
    <3>5. q.since <= writes
      BY <1>0, <3>2
    <3> QED
      BY <1>0, <3>1, <3>2, <3>3, <3>4, <3>5, CallReads
  <2>2. CASE ~(copies[s] # NoBlock /\ ~ShouldUpdateDefaultValues(copies[s]))
    <3> DEFINE q == Call("find", s, NoBlock, FALSE)
    <3>1. q \in Calls
      BY <1>0 DEF Call, Calls, CallStates
    <3>2. q.pc = "find" /\ q.since <= writes
      BY <1>0 DEF Call
    <3>3. lookup' = [lookup EXCEPT ![c] = q] /\ UNCHANGED <<block, copies, saves, writes, behind>> /\ ~In(c, "store")
      BY <1>1, <2>2 DEF GetGlobalSettings, Move, In
    <3> HIDE DEF q
    <3> QED
      BY <1>0, <3>1, <3>2, <3>3, CallReads
  <2> QED
    BY <2>1, <2>2
<1>2. ASSUME NEW s \in Servers, UpdateGlobalSettings(c, s) PROVE SettingsInv'
  <2> DEFINE q == Call("save", s, [k \in SettingKeys |-> saves'], FALSE)
  <2>1. saves' \in Nat /\ lookup' = [lookup EXCEPT ![c] = q] /\ UNCHANGED <<block, copies, writes, behind>> /\ ~In(c, "store")
    BY <1>0, <1>2 DEF UpdateGlobalSettings, Move, In
  <2>2. [k \in SettingKeys |-> saves'] \in Blocks
    <3>1. [k \in SettingKeys |-> saves'] \in [SettingKeys -> Int]
      BY <2>1
    <3> QED
      BY <3>1 DEF Blocks
  <2>3. q \in Calls
    BY <1>0, <2>2 DEF Call, Calls, CallStates
  <2>4. q.pc = "save" /\ q.since <= writes
    BY <1>0 DEF Call
  <2> HIDE DEF q
  <2> QED
    BY <1>0, <2>1, <2>3, <2>4, CallReads
<1>3. CASE FindBlock(c)
  <2>1. lookup[c] \in Calls /\ ~In(c, "store") /\ lookup[c].pc = "find"
    BY <1>3, CallTyped DEF SettingsInv, FindBlock, In, CallStates
  <2>2. PICK o \in Calls : o = lookup[c]
    BY <2>1
  <2>3. o.since <= writes
    BY <2>1, <2>2 DEF SettingsInv, CallsHonest
  <2>4. UNCHANGED <<block, copies, saves, writes, behind>>
    BY <1>3 DEF FindBlock
  <2>5. CASE block = NoBlock
    <3> DEFINE q == [o EXCEPT !.pc = "create"]
    <3>1. lookup' = [lookup EXCEPT ![c] = q]
      BY <1>3, <2>2, <2>5 DEF FindBlock, Move
    <3>2. q \in Calls /\ q.pc = "create" /\ q.since = o.since
      BY DEF Calls, CallStates
    <3> HIDE DEF q
    <3> QED
      BY <1>0, <2>1, <2>3, <2>4, <3>1, <3>2, CallReads
  <2>6. CASE block # NoBlock /\ ShouldUpdateDefaultValues(block)
    <3> DEFINE L == SettingKeys \ DOMAIN block
               d == WithDefaults(block)
               q == [o EXCEPT !.pc = "fill", !.data = d, !.since = writes, !.lacked = L]
    <3>1. lookup' = [lookup EXCEPT ![c] = q]
      BY <1>3, <2>2, <2>6 DEF FindBlock, Move
    <3>2. d \in Blocks /\ L \in SUBSET SettingKeys /\ L # {}
      BY <1>0, <2>6, DefaultsBlock DEF ShouldUpdateDefaultValues
    <3> HIDE DEF d, L
    <3>3. q \in Calls /\ q.pc = "fill" /\ q.since = writes /\ q.lacked = L
      BY <1>0, <3>2 DEF Calls, CallStates
    <3> HIDE DEF q
    <3>4. q.since <= writes
      BY <1>0, <3>3
    <3> QED
      BY <1>0, <2>1, <2>4, <3>1, <3>2, <3>3, <3>4, CallReads
  <2>7. CASE block # NoBlock /\ ~ShouldUpdateDefaultValues(block)
    <3> DEFINE q == [o EXCEPT !.pc = "store", !.data = block, !.since = writes]
    <3>1. lookup' = [lookup EXCEPT ![c] = q]
      BY <1>3, <2>2, <2>7 DEF FindBlock, Move
    <3>2. q \in Calls /\ q.pc = "store" /\ q.since = writes /\ q.data = block
      BY <1>0 DEF Calls, CallStates
    <3> HIDE DEF q
    <3>3. q.since <= writes
      BY <1>0, <3>2
    <3> QED
      BY <1>0, <2>1, <2>4, <3>1, <3>2, <3>3, CallReads
  <2> QED
    BY <2>5, <2>6, <2>7
<1>4. CASE /\ Move(c, NoLookup) /\ UNCHANGED <<block, copies, saves, writes, behind>>
           /\ lookup[c].pc \in {"find", "create", "fill", "save", "answer"}
  <2>1. NoLookup.pc = "idle" /\ ~In(c, "store") /\ lookup' = [lookup EXCEPT ![c] = NoLookup]
    BY <1>4 DEF NoLookup, In, Move
  <2> QED
    BY <1>0, <1>4, <2>1, CallReads
<1> QED
  BY <1>1, <1>2, <1>3, <1>4

(* The writes of the row. *)
LEMMA WriteSteps ==
    ASSUME SettingsInv, NEW c \in SettingCalls, UNCHANGED <<mails, worker>>,
           CreateBlock(c) \/ FillBlock(c) \/ Save(c)
    PROVE  SettingsInv'
<1>1. lookup[c] \in Calls /\ lookup[c].pc \in {"create", "fill", "save"} /\ ~In(c, "store")
  BY CallTyped DEF SettingsInv, CreateBlock, FillBlock, Save, In, CallStates
<1>2. PICK o \in Calls : o = lookup[c]
  BY <1>1
<1>3. CASE block' = block /\ Move(c, NoLookup) /\ UNCHANGED <<copies, saves, writes, behind>>
  <2>1. worker' \in [Orders -> SettingCalls \cup {NoOrder}]
    BY DEF SettingsInv, SettingsTyped
  <2> QED
    BY <1>1, <1>3, <2>1, LookupSteps
<1>4. CASE PassedBy(c) /\ UNCHANGED <<copies, saves>>
           /\ \E d \in Blocks : block' = d /\ Move(c, [o EXCEPT !.pc = "store", !.data = d, !.since = writes'])
  <2>1. PICK d \in Blocks : block' = d /\ Move(c, [o EXCEPT !.pc = "store", !.data = d, !.since = writes'])
    BY <1>4
  <2>2. writes' \in Nat
    BY <1>4 DEF PassedBy, SettingsInv, SettingsTyped
  <2> DEFINE q == [o EXCEPT !.pc = "store", !.data = d, !.since = writes']
  <2>3. q \in Calls /\ q.pc = "store" /\ q.data = d /\ q.since = writes' /\ q.server = lookup[c].server
    BY <1>2, <2>2 DEF Calls, CallStates
  <2>4. lookup' = [lookup EXCEPT ![c] = q]
    BY <2>1 DEF Move
  <2> HIDE DEF q
  <2> QED
    BY <1>1, <1>4, <2>1, <2>3, <2>4, CallWrites
<1>5. o.data \in Blocks /\ Defaults \in Blocks /\ [o EXCEPT !.pc = "store", !.since = writes']
         = [o EXCEPT !.pc = "store", !.data = o.data, !.since = writes']
  <2>1. Defaults \in [SettingKeys -> Int]
    BY DEF Defaults
  <2> QED
    BY <2>1 DEF Blocks, Calls
<1>6. CASE CreateBlock(c)
  BY <1>2, <1>3, <1>4, <1>5, <1>6 DEF CreateBlock
<1>7. CASE FillBlock(c)
  BY <1>2, <1>4, <1>5, <1>7 DEF FillBlock
<1>8. CASE Save(c)
  BY <1>2, <1>3, <1>4, <1>5, <1>8 DEF Save
<1> QED
  BY <1>6, <1>7, <1>8

(* The answer of a call goes into a mail. *)
LEMMA MailStep ==
    ASSUME SettingsInv, NEW o \in Orders, QueueMail(o)
    PROVE  SettingsInv'
<1>1. PICK c \in SettingCalls : worker[o] = c
  BY DEF SettingsInv, SettingsTyped, QueueMail
<1>2. PICK q \in Calls : lookup[c] = q /\ q.pc = "answer"
  BY <1>1, CallTyped DEF SettingsInv, QueueMail, In, CallStates
<1>3. q.since <= writes /\ (~q.late /\ q.since = writes => q.data = block) /\ q.since \in Nat /\ writes \in Nat
  BY <1>2 DEF SettingsInv, CallsHonest, In, Calls, SettingsTyped
<1>4. q.data[ToKey] = block[ToKey] \/ (q.late \/ writes > q.since)
  BY <1>3
<1> DEFINE e == q.late \/ writes > q.since
           x == [order |-> o, to |-> q.data[ToKey], row |-> block[ToKey], excused |-> e]
<1>5. mails' = mails \cup {x} /\ (q.data[ToKey] = block[ToKey] \/ e)
  BY <1>1, <1>2, <1>4 DEF QueueMail
<1> HIDE DEF e
<1>6. x.to = q.data[ToKey] /\ x.row = block[ToKey] /\ x.excused = e
  OBVIOUS
<1> HIDE DEF x
<1>7. AddressAsSaved'
  BY <1>5, <1>6 DEF SettingsInv, AddressAsSaved
<1>8. worker' \in [Orders -> SettingCalls \cup {NoOrder}] /\ saves' \in Nat
  BY DEF SettingsInv, SettingsTyped, QueueMail
<1>9. NoLookup.pc = "idle" /\ ~In(c, "store") /\ lookup' = [lookup EXCEPT ![c] = NoLookup]
      /\ UNCHANGED <<block, copies, writes, behind>>
  BY <1>1, <1>2 DEF NoLookup, In, QueueMail, Move
<1> QED
  BY <1>7, <1>8, <1>9, CallReads

(* A step of a settings call, for anyone. *)
LEMMA SettingsSteps ==
    ASSUME SettingsInv, NEW c \in SettingCalls, SettingsStep(c)
    PROVE  SettingsInv'
<1>1. UNCHANGED <<mails, worker>> /\ worker' \in [Orders -> SettingCalls \cup {NoOrder}]
  BY DEF SettingsStep, requestVars, SettingsInv, SettingsTyped
<1>2. CASE \/ \E s \in Servers : GetGlobalSettings(c, s) \/ UpdateGlobalSettings(c, s)
           \/ FindBlock(c)
  BY <1>1, <1>2, LookupSteps
<1>3. CASE LookupFails(c)
  <2>1. /\ Move(c, NoLookup) /\ UNCHANGED <<block, copies, saves, writes, behind>>
        /\ lookup[c].pc \in {"find", "create", "fill", "save", "answer"}
    BY <1>3 DEF LookupFails
  <2> QED
    BY <1>1, <2>1, LookupSteps
<1>4. CASE In(c, "answer") /\ Move(c, NoLookup) /\ UNCHANGED <<block, copies, saves, writes, behind>>
  BY <1>1, <1>4, LookupSteps DEF In
<1>5. CASE CreateBlock(c) \/ FillBlock(c) \/ Save(c)
  BY <1>1, <1>5, WriteSteps
<1>6. CASE StoreCopy(c)
  BY <1>1, <1>6, CallStores
<1> QED
  BY <1>2, <1>3, <1>4, <1>5, <1>6 DEF SettingsStep

(* The jobs that mail requests, and the requests. *)
LEMMA RequestSteps ==
    ASSUME SettingsInv, NEW o \in Orders,
           \/ CreateRequest(o) \/ QueueNewProductRequestEmail(o) \/ QueueFails(o)
           \/ RemoveRequest(o) \/ Cancel(o) \/ JobFindsNothing(o) \/ AttemptFails(o)
           \/ \E S \in SUBSET Orders, new \in NewStatuses : UpdateStatuses(S, new)
           \/ \E c \in SettingCalls, s \in Servers : TakeJob(o, c, s)
    PROVE  SettingsInv'
<1>0. worker \in [Orders -> SettingCalls \cup {NoOrder}]
  BY DEF SettingsInv, SettingsTyped
<1>1. CASE \/ CreateRequest(o) \/ QueueNewProductRequestEmail(o) \/ QueueFails(o)
           \/ RemoveRequest(o) \/ Cancel(o) \/ \E S \in SUBSET Orders, new \in NewStatuses : UpdateStatuses(S, new)
  <2>1. UNCHANGED settingsVars /\ mails' = mails /\ worker' = worker
    BY <1>1 DEF CreateRequest, QueueNewProductRequestEmail, QueueFails, RemoveRequest, Cancel, UpdateStatuses
  <2> QED
    BY <1>0, <2>1, OrdersApart
<1>2. CASE JobFindsNothing(o)
  BY <1>0, <1>2, OrdersApart DEF JobFindsNothing, Attempted
<1>3. CASE AttemptFails(o)
  <2>1. PICK c \in SettingCalls : worker[o] = c
    BY <1>0, <1>3 DEF AttemptFails
  <2> QED
    BY <1>0, <1>3, <2>1, LookupSteps DEF AttemptFails, Attempted
<1>4. ASSUME NEW c \in SettingCalls, NEW s \in Servers, TakeJob(o, c, s) PROVE SettingsInv'
  BY <1>0, <1>4, LookupSteps DEF TakeJob
<1> QED
  BY <1>1, <1>2, <1>3, <1>4

(* The row of the settings, the copies of the servers and the calls that   *)
(* read and write them, under any interleaving (SettingsService).          *)
THEOREM SettingsInvariant == OrdersSpec => []SettingsInv
<1>1. SettingsInit /\ RequestsInit => SettingsInv
  <2> SUFFICES ASSUME SettingsInit, RequestsInit PROVE SettingsInv
    OBVIOUS
  <2>1. block \in Blocks /\ NoBlock \in Blocks
    <3>1. [k \in EarlierKeys |-> -1] \in [EarlierKeys -> Int] /\ [k \in SettingKeys |-> -1] \in [SettingKeys -> Int]
      OBVIOUS
    <3> QED
      BY <3>1 DEF SettingsInit, Blocks
  <2>2. \A c \in SettingCalls : lookup[c].pc = "idle"
    BY DEF SettingsInit, NoLookup
  <2>3. SettingsTyped
    BY <2>1 DEF SettingsInit, RequestsInit, SettingsTyped
  <2> QED
    BY <2>2, <2>3 DEF SettingsInit, RequestsInit, SettingsInv, CopiesExplained, StoresTheRow, CallsHonest,
                      AddressAsSaved, In
<1>2. SettingsInv /\ [OrderSteps]_orderVars => SettingsInv'
  <2> SUFFICES ASSUME SettingsInv, [OrderSteps]_orderVars PROVE SettingsInv'
    OBVIOUS
  <2>1. CASE UNCHANGED orderVars
    BY <2>1, OrdersApart DEF orderVars, requestVars, SettingsInv, SettingsTyped
  <2>2. CASE OrderSteps
    <3>1. ASSUME NEW S \in SUBSET Orders, NEW new \in NewStatuses, UpdateStatuses(S, new) PROVE SettingsInv'
      BY <3>1, OrdersApart DEF UpdateStatuses, SettingsInv, SettingsTyped
    <3> QED
      BY <2>2, <3>1, RequestSteps, MailStep, ServerRestarts, SettingsSteps DEF OrderSteps
  <2> QED
    BY <2>1, <2>2
<1> QED
  BY <1>1, <1>2, PTL DEF OrdersSpec

(* A block with every key is replaced by a save, or by a call that had     *)
(* read it when a key was missing.                                         *)
LEMMA ReplacedStep ==
    ASSUME SettingsInv, [OrderSteps]_orderVars, block # NoBlock, block' # block
    PROVE  \E c \in SettingCalls :
             \/ In(c, "save") /\ block' = lookup[c].data
             \/ In(c, "fill") /\ lookup[c].lacked # {}
<1>1. CASE \E c \in SettingCalls : SettingsStep(c)
  <2>1. PICK c \in SettingCalls : SettingsStep(c)
    BY <1>1
  <2>2. FillBlock(c) \/ Save(c)
    BY <2>1 DEF SettingsStep, GetGlobalSettings, UpdateGlobalSettings, FindBlock, CreateBlock, StoreCopy, LookupFails
  <2>3. CASE FillBlock(c)
    BY <2>3 DEF FillBlock, SettingsInv, CallsHonest
  <2>4. CASE Save(c)
    BY <2>4 DEF Save
  <2> QED
    BY <2>2, <2>3, <2>4
<1>2. CASE ~\E c \in SettingCalls : SettingsStep(c)
  <2>1. UNCHANGED block
    BY <1>2 DEF OrderSteps, orderVars, settingsVars, CreateRequest, QueueNewProductRequestEmail, QueueFails,
                RemoveRequest, Cancel, TakeJob, GetGlobalSettings, JobFindsNothing, QueueMail, AttemptFails,
                UpdateStatuses, Restarted, RestartServer
  <2> QED
    BY <2>1
<1> QED
  BY <1>1, <1>2

(* What is saved is what is read, by each server and by the job that mails *)
(* a request, but for copies a write has passed by and calls that overlap  *)
(* (settings.service.ts, notifications.service.ts).                        *)
THEOREM SettingsStayInReach == OrdersSpec => SettingsReach
<1>1. SettingsInv => CopiesExplained /\ AddressAsSaved
  BY DEF SettingsInv
<1>2. SettingsInv /\ [OrderSteps]_orderVars =>
         [block # NoBlock /\ block' # block /\ DOMAIN block = SettingKeys =>
            \E c \in SettingCalls :
              \/ In(c, "save") /\ block' = lookup[c].data
              \/ In(c, "fill") /\ lookup[c].lacked # {}]_settingsVars
  BY ReplacedStep
<1> QED
  BY <1>1, <1>2, SettingsInvariant, PTL DEF OrdersSpec, SettingsReach, LostToDefaultsOnly
-----------------------------------------------------------------------------
(* Access rows *)

(* A number that a request has used for its rows: those of copies that are *)
(* still to be committed are not among them.                               *)
Used(n) == n \in Nat /\ n < nextId /\ \A j \in Jobs : job[j].op = "duplicate" => job[j].id # n

IdsUsed ==
    /\ \A s \in DOMAIN site : Used(s[1])
    /\ \A c \in DOMAIN client : Used(c[1])
    /\ \A r \in access : Len(r.person) = 1 \/ Used(r.person[1])

(* A copy under way has an id of its own, a client that was there, and all *)
(* of its sites but those that were created since.                         *)
CopiesUnderWay ==
    \A j \in Jobs : job[j].op = "duplicate" =>
       /\ job[j].id \in Nat /\ job[j].id < nextId
       /\ \A k \in Jobs : (k # j /\ job[k].op = "duplicate") => job[k].id # job[j].id
       /\ Used(job[j].client[1])
       /\ \A s \in DOMAIN site : site[s].client = job[j].client => s \in DOMAIN job[j].sites \cup late

RowsTyped == nextId \in Nat /\ \A r \in access : AccessRow(r) /\ r.site \in DOMAIN site
JobsTyped == DOMAIN job = Jobs /\ \A j \in Jobs : DOMAIN job[j] = DOMAIN Idle

OnePrimary == \A q, r \in access : (q.person = r.person /\ q.primary /\ r.primary) => q = r
PrimaryKept == \A r \in access : (\E q \in access : q.person = r.person /\ q.primary) \/ r.person \in excused

RowsInv == RowsTyped /\ RowsStayInside /\ OnePrimary /\ PrimaryKept
ClientsInv == JobsTyped /\ IdsUsed /\ CopiesUnderWay /\ RowsInv

(* The copies under way after a step are among those before it. *)
JobsShrink == \A j \in Jobs : job'[j].op = "duplicate" => /\ job[j].op = "duplicate" /\ job'[j].id = job[j].id
                                                          /\ job'[j].client = job[j].client
                                                          /\ job'[j].sites = job[j].sites

(* Numbers stay used. *)
LEMMA UsedStays ==
    ASSUME RowsTyped, JobsShrink, nextId' \in Nat, nextId' >= nextId, NEW n, Used(n)
    PROVE  Used(n)'
BY DEF Used, JobsShrink, RowsTyped

(* Steps of jobs and days that write no clients, sites or access rows. *)
LEMMA ElsewhereKept ==
    ASSUME ClientsInv, JobsTyped', JobsShrink, nextId' \in Nat, nextId' >= nextId,
           UNCHANGED <<site, access, late, excused>>, DOMAIN client' = DOMAIN client
    PROVE  ClientsInv'
<1>1. \A n : Used(n) => Used(n)'
  BY UsedStays DEF ClientsInv, RowsInv
<1>2. IdsUsed'
  BY <1>1 DEF ClientsInv, IdsUsed
<1>3. CopiesUnderWay'
  <2> SUFFICES ASSUME NEW j \in Jobs, job'[j].op = "duplicate"
               PROVE  /\ job'[j].id \in Nat /\ job'[j].id < nextId'
                      /\ \A k \in Jobs : (k # j /\ job'[k].op = "duplicate") => job'[k].id # job'[j].id
                      /\ Used(job[j].client[1])'
                      /\ \A s \in DOMAIN site : site[s].client = job[j].client => s \in DOMAIN job[j].sites \cup late
                      /\ job'[j].client = job[j].client /\ job'[j].sites = job[j].sites
    BY DEF CopiesUnderWay
  <2>1. job[j].op = "duplicate" /\ job'[j].id = job[j].id /\ job'[j].client = job[j].client /\ job'[j].sites = job[j].sites
    BY DEF JobsShrink
  <2>2. job[j].id \in Nat /\ job[j].id < nextId /\ nextId \in Nat
    BY <2>1 DEF ClientsInv, CopiesUnderWay, RowsInv, RowsTyped
  <2>3. \A k \in Jobs : (k # j /\ job'[k].op = "duplicate") => job'[k].id # job'[j].id
    BY <2>1 DEF ClientsInv, CopiesUnderWay, JobsShrink
  <2> QED
    BY <1>1, <2>1, <2>2, <2>3 DEF ClientsInv, CopiesUnderWay
<1>4. RowsInv'
  BY DEF ClientsInv, RowsInv, RowsTyped, AccessRow, RowsStayInside, OnePrimary, PrimaryKept
<1> QED
  BY <1>2, <1>3, <1>4 DEF ClientsInv

(* The record of a job. *)
LEMMA IdleRecord ==
    /\ Idle.op = "idle"
    /\ \A q : DOMAIN EndOf(q) = DOMAIN Idle /\ EndOf(q).op \in {"idle", "cron"}
    /\ {"op", "pc", "id", "client", "sites", "assets", "todo", "raced"} = DOMAIN Idle
BY DEF Idle, EndOf

(* A job goes on. *)
LEMMA JobGoesOn ==
    ASSUME ClientsInv, NEW j \in Jobs, NEW q, job' = [job EXCEPT ![j] = q], DOMAIN q = DOMAIN Idle,
           \/ q.op # "duplicate"
           \/ q.op = job[j].op /\ q.id = job[j].id /\ q.client = job[j].client /\ q.sites = job[j].sites
    PROVE  JobsTyped' /\ JobsShrink
BY DEF ClientsInv, JobsTyped, JobsShrink

(* A job that does not copy starts. *)
LEMMA OtherStarts ==
    ASSUME ClientsInv, NEW j \in Jobs, NEW op, op # "duplicate", NEW c, NEW q, DOMAIN q = DOMAIN Idle, Start(j, op, c, q)
    PROVE  ClientsInv'
<1> DEFINE p == [q EXCEPT !.op = op, !.client = c, !.id = nextId]
<1>1. DOMAIN p = DOMAIN Idle /\ p.op = op
  BY IdleRecord
<1>2. job' = [job EXCEPT ![j] = p] /\ UNCHANGED <<client, site, access, late, excused>>
  BY DEF Start, Continue, tables, history
<1>3. nextId \in Nat /\ nextId' = nextId + 1
  BY DEF Start, Request, ClientsInv, RowsInv, RowsTyped
<1> HIDE DEF p
<1>4. JobsTyped' /\ JobsShrink
  BY <1>1, <1>2, JobGoesOn
<1> QED
  BY <1>2, <1>3, <1>4, ElsewhereKept

(* A job reads. *)
LEMMA JobReads ==
    ASSUME ClientsInv, NEW j \in Jobs, NEW q, Read(j, q), DOMAIN q = DOMAIN Idle,
           \/ q.op # "duplicate"
           \/ q.op = job[j].op /\ q.id = job[j].id /\ q.client = job[j].client /\ q.sites = job[j].sites
    PROVE  ClientsInv'
<1>1. job' = [job EXCEPT ![j] = q] /\ UNCHANGED <<client, site, access, late, excused, nextId>>
  BY DEF Read, Continue, tables, history
<1>2. nextId \in Nat
  BY DEF ClientsInv, RowsInv, RowsTyped
<1>3. JobsTyped' /\ JobsShrink
  BY <1>1, JobGoesOn
<1> QED
  BY <1>1, <1>2, <1>3, ElsewhereKept

(* A job has written inspections. *)
LEMMA JobEnds ==
    ASSUME ClientsInv, NEW j \in Jobs, Done(j), UNCHANGED <<client, site, access, late, excused, nextId>>
    PROVE  ClientsInv'
<1>1. \A k \in Jobs : job'[k] = IF k = j THEN EndOf(job[j]) ELSE [job[k] EXCEPT !.raced = job[k].op # "idle"]
  BY DEF Done
<1>2. DOMAIN job' = Jobs
  BY DEF Done
<1>3. \A k \in Jobs : k # j => /\ DOMAIN job'[k] = DOMAIN Idle /\ job'[k].op = job[k].op /\ job'[k].id = job[k].id
                               /\ job'[k].client = job[k].client /\ job'[k].sites = job[k].sites
  <2>1. \A k \in Jobs : DOMAIN job[k] = DOMAIN Idle
    BY DEF ClientsInv, JobsTyped
  <2>2. \A k \in Jobs : k # j => job'[k] = [job[k] EXCEPT !.raced = job[k].op # "idle"]
    BY <1>1
  <2> SUFFICES ASSUME NEW k \in Jobs, k # j
               PROVE  /\ DOMAIN job'[k] = DOMAIN Idle /\ job'[k].op = job[k].op /\ job'[k].id = job[k].id
                      /\ job'[k].client = job[k].client /\ job'[k].sites = job[k].sites
    OBVIOUS
  <2>3. PICK p : p = job[k]
    OBVIOUS
  <2>4. /\ DOMAIN [p EXCEPT !.raced = p.op # "idle"] = DOMAIN p
        /\ \A f \in DOMAIN p : f # "raced" => [p EXCEPT !.raced = p.op # "idle"][f] = p[f]
    OBVIOUS
  <2>5. {"op", "id", "client", "sites"} \subseteq DOMAIN p
    BY <2>1, <2>3, IdleRecord
  <2> QED
    BY <2>1, <2>2, <2>3, <2>4, <2>5
<1>4. DOMAIN job'[j] = DOMAIN Idle /\ job'[j].op # "duplicate"
  BY <1>1, IdleRecord
<1>5. JobsTyped' /\ JobsShrink
  BY <1>2, <1>3, <1>4 DEF JobsTyped, JobsShrink
<1>6. nextId \in Nat
  BY DEF ClientsInv, RowsInv, RowsTyped
<1> QED
  BY <1>5, <1>6, ElsewhereKept

(* The steps that write no clients, sites or access rows. *)
LEMMA OtherSteps ==
    ASSUME ClientsInv,
           \/ NextDay \/ UNCHANGED clientVars
           \/ \E c \in DOMAIN client : Update(c) \/ \E j \in Jobs : Clear(j, c) \/ Generate(j, c) \/ Renew(j, c)
           \/ \E j \in Jobs : \/ DuplicateAssets(j) \/ ClearDelete(j) \/ GenerateWrite(j)
                              \/ Cron(j) \/ RenewRead(j) \/ RenewWrite(j) \/ JobFails(j)
                              \/ \E c \in job[j].todo : RenewNext(j, c)
    PROVE  ClientsInv'
<1>0. nextId \in Nat /\ \A j \in Jobs : DOMAIN job[j] = DOMAIN Idle
  BY DEF ClientsInv, RowsInv, RowsTyped, JobsTyped
<1>1. CASE NextDay \/ UNCHANGED clientVars \/ \E c \in DOMAIN client : Update(c)
  <2>1. UNCHANGED <<site, access, late, excused, job>> /\ DOMAIN client' = DOMAIN client /\ nextId' \in Nat /\ nextId' >= nextId
    BY <1>0, <1>1 DEF NextDay, clientVars, Update, tables, history, Request
  <2>2. JobsTyped' /\ JobsShrink
    BY <2>1 DEF ClientsInv, JobsTyped, JobsShrink
  <2> QED
    BY <2>1, <2>2, ElsewhereKept
<1>2. ASSUME NEW j \in Jobs, NEW c, Clear(j, c) \/ Generate(j, c) \/ Renew(j, c) PROVE ClientsInv'
  <2>1. PICK op, q : op # "duplicate" /\ DOMAIN q = DOMAIN Idle /\ Start(j, op, c, q)
    <3>1. CASE Clear(j, c)
      <4> DEFINE q == [Idle EXCEPT !.pc = "delete"]
      <4>1. DOMAIN q = DOMAIN Idle /\ Start(j, "clear", c, q)
        BY <3>1 DEF Clear
      <4> HIDE DEF q
      <4> QED
        BY <4>1
    <3>2. CASE Generate(j, c)
      <4> DEFINE q == [Idle EXCEPT !.pc = "write", !.assets = Sub(asset, AssetsOf(c))]
      <4>1. DOMAIN q = DOMAIN Idle /\ Start(j, "generate", c, q)
        BY <3>2 DEF Generate
      <4> HIDE DEF q
      <4> QED
        BY <4>1
    <3>3. CASE Renew(j, c)
      <4> DEFINE q == [Idle EXCEPT !.pc = "assets"]
      <4>1. DOMAIN q = DOMAIN Idle /\ Start(j, "renew", c, q)
        BY <3>3 DEF Renew
      <4> HIDE DEF q
      <4> QED
        BY <4>1
    <3> QED
      BY <1>2, <3>1, <3>2, <3>3
  <2> QED
    BY <2>1, OtherStarts
<1>3. ASSUME NEW j \in Jobs, Cron(j) PROVE ClientsInv'
  <2> DEFINE q == [Idle EXCEPT !.todo = {c \in DOMAIN client : client[c].demo}]
  <2>1. DOMAIN q = DOMAIN Idle /\ Start(j, "cron", NoClient, q)
    BY <1>3 DEF Cron
  <2> HIDE DEF q
  <2> QED
    BY <2>1, OtherStarts
<1>4. ASSUME NEW j \in Jobs, JobFails(j) PROVE ClientsInv'
  <2>1. Read(j, EndOf(job[j]))
    BY <1>4 DEF JobFails, Read
  <2> QED
    BY <2>1, IdleRecord, JobReads
<1>5. ASSUME NEW j \in Jobs, DuplicateAssets(j) PROVE ClientsInv'
  <2> DEFINE A == Sub(asset, AssetsOf(job[j].client))
             q == [job[j] EXCEPT !.pc = "members", !.assets = A]
  <2>1. Read(j, q)
    BY <1>5 DEF DuplicateAssets
  <2>2. DOMAIN q = DOMAIN Idle /\ q.op = job[j].op /\ q.id = job[j].id /\ q.client = job[j].client /\ q.sites = job[j].sites
    <3> HIDE DEF A
    <3> QED
      BY <1>0, IdleRecord
  <2> HIDE DEF q
  <2> QED
    BY <2>1, <2>2, JobReads
<1>6. ASSUME NEW j \in Jobs, RenewRead(j) PROVE ClientsInv'
  <2> DEFINE A == Sub(asset, AssetsToRenew(job[j].client))
             q == [job[j] EXCEPT !.pc = "write", !.raced = FALSE, !.assets = A]
  <2>1. Read(j, q) /\ job[j].op = "renew"
    BY <1>6 DEF RenewRead
  <2>2. DOMAIN q = DOMAIN Idle /\ q.op = job[j].op
    <3> HIDE DEF A
    <3> QED
      BY <1>0, IdleRecord
  <2> HIDE DEF q
  <2> QED
    BY <2>1, <2>2, JobReads
<1>7. ASSUME NEW j \in Jobs, NEW c \in job[j].todo, RenewNext(j, c) PROVE ClientsInv'
  <2> DEFINE q == [job[j] EXCEPT !.op = "renew", !.pc = "assets", !.client = c, !.todo = job[j].todo \ {c}]
             p == EndOf([job[j] EXCEPT !.todo = job[j].todo \ {c}])
  <2>1. Read(j, q) \/ Read(j, p)
    BY <1>7 DEF RenewNext
  <2>2. DOMAIN q = DOMAIN Idle /\ q.op = "renew"
    BY <1>0, IdleRecord
  <2>3. DOMAIN p = DOMAIN Idle /\ p.op # "duplicate"
    BY IdleRecord
  <2> HIDE DEF q, p
  <2> QED
    BY <2>1, <2>2, <2>3, JobReads
<1>8. ASSUME NEW j \in Jobs, ClearDelete(j) \/ GenerateWrite(j) \/ RenewWrite(j) PROVE ClientsInv'
  <2>1. Done(j) /\ UNCHANGED <<client, site, access, late, excused, nextId>>
    BY <1>8 DEF ClearDelete, GenerateWrite, RenewWrite, history
  <2> QED
    BY <2>1, JobEnds
<1> QED
  BY <1>1, <1>2, <1>3, <1>4, <1>5, <1>6, <1>7, <1>8

(* Sites are added under ids that were free; those of a client that is     *)
(* being copied are remembered.                                            *)
LEMMA SitesAdded ==
    ASSUME ClientsInv, JobsShrink, NEW new, site' = Also(site, new),
           late \subseteq late', nextId' \in Nat, nextId' >= nextId,
           \A s \in DOMAIN new : s \notin DOMAIN site /\ Used(s[1])',
           \A s \in DOMAIN new, j \in Jobs :
              (job'[j].op = "duplicate" /\ new[s].client = job[j].client) => s \in late'
    PROVE  /\ CopiesUnderWay' /\ \A s \in DOMAIN site' : Used(s[1])'
           /\ \A s \in DOMAIN site : s \in DOMAIN site' /\ site'[s] = site[s]
           /\ \A n : Used(n) => Used(n)'
<1>1. \A n : Used(n) => Used(n)'
  BY UsedStays DEF ClientsInv, RowsInv
<1>2. \A s \in DOMAIN site' : s \in DOMAIN site \/ s \in DOMAIN new
  BY DEF Also
<1>3. \A s \in DOMAIN site : s \in DOMAIN site' /\ site'[s] = site[s]
  BY DEF Also
<1>4. \A s \in DOMAIN new : site'[s] = new[s]
  BY DEF Also
<1>5. \A s \in DOMAIN site' : Used(s[1])'
  BY <1>1, <1>2 DEF ClientsInv, IdsUsed
<1>6. CopiesUnderWay'
  <2> SUFFICES ASSUME NEW j \in Jobs, job'[j].op = "duplicate"
               PROVE  /\ job'[j].id \in Nat /\ job'[j].id < nextId'
                      /\ \A k \in Jobs : (k # j /\ job'[k].op = "duplicate") => job'[k].id # job'[j].id
                      /\ Used(job[j].client[1])'
                      /\ \A s \in DOMAIN site' : site'[s].client = job[j].client => s \in DOMAIN job[j].sites \cup late'
                      /\ job'[j].client = job[j].client /\ job'[j].sites = job[j].sites
    BY DEF CopiesUnderWay
  <2>1. job[j].op = "duplicate" /\ job'[j].id = job[j].id /\ job'[j].client = job[j].client /\ job'[j].sites = job[j].sites
    BY DEF JobsShrink
  <2>2. job[j].id \in Nat /\ job[j].id < nextId /\ nextId \in Nat
    BY <2>1 DEF ClientsInv, CopiesUnderWay, RowsInv, RowsTyped
  <2>3. \A k \in Jobs : (k # j /\ job'[k].op = "duplicate") => job'[k].id # job'[j].id
    BY <2>1 DEF ClientsInv, CopiesUnderWay, JobsShrink
  <2>4. \A s \in DOMAIN site : site[s].client = job[j].client => s \in DOMAIN job[j].sites \cup late
    BY <2>1 DEF ClientsInv, CopiesUnderWay
  <2>5. \A s \in DOMAIN site' : site'[s].client = job[j].client => s \in DOMAIN job[j].sites \cup late'
    BY <1>2, <1>3, <1>4, <2>4
  <2> QED
    BY <1>1, <2>1, <2>2, <2>3, <2>5 DEF ClientsInv, CopiesUnderWay
<1> QED
  BY <1>1, <1>3, <1>5, <1>6

(* The rows stay in order when sites are added and no row is. *)
LEMMA RowsKept ==
    ASSUME ClientsInv, \A s \in DOMAIN site : s \in DOMAIN site' /\ site'[s] = site[s],
           late \subseteq late', excused \subseteq excused', nextId' \in Nat, access' = access
    PROVE  RowsInv'
<1>1. \A r \in access : r.site \in DOMAIN site /\ site'[r.site] = site[r.site] /\ r.site \in DOMAIN site'
  BY DEF ClientsInv, RowsInv, RowsTyped
<1>2. RowsTyped'
  BY <1>1 DEF ClientsInv, RowsInv, RowsTyped
<1>3. RowsStayInside'
  BY <1>1 DEF ClientsInv, RowsInv, RowsStayInside
<1>4. OnePrimary' /\ PrimaryKept'
  BY DEF ClientsInv, RowsInv, OnePrimary, PrimaryKept
<1> QED
  BY <1>2, <1>3, <1>4 DEF RowsInv

(* A client, or a site, is created. *)
LEMMA CreateSteps ==
    ASSUME ClientsInv,
           \/ \E d \in BOOLEAN : Create(d)
           \/ \E c \in DOMAIN client : \E p \in SitesOf(c) \cup {NoClient} : CreateSite(c, p)
    PROVE  ClientsInv'
<1>0. nextId \in Nat
  BY DEF ClientsInv, RowsInv, RowsTyped
<1>1. nextId' = nextId + 1 /\ UNCHANGED <<job, access, excused>> /\ late \subseteq late'
  BY DEF Create, CreateSite, Request
<1>2. JobsTyped' /\ JobsShrink
  BY <1>1 DEF ClientsInv, JobsTyped, JobsShrink
<1> PICK n \in Nat : n = nextId
  BY <1>0
<1>3. Used(n)' /\ ~Used(n)
  <2>1. \A j \in Jobs : job[j].op = "duplicate" => job[j].id \in Nat /\ job[j].id < n
    BY DEF ClientsInv, CopiesUnderWay
  <2> QED
    BY <1>1, <2>1 DEF Used
<1>4. NewId[1] = n
  BY DEF NewId
<1>5. NewId \notin DOMAIN site /\ NewId \notin DOMAIN client
  BY <1>3, <1>4 DEF ClientsInv, IdsUsed
<1>6. PICK v : /\ site' = Also(site, [s \in {NewId} |-> v])
               /\ (\E j \in Jobs : job[j].op = "duplicate" /\ v.client = job[j].client) => NewId \in late'
  <2>1. ASSUME NEW d \in BOOLEAN, Create(d)
        PROVE  \E v : /\ site' = Also(site, [s \in {NewId} |-> v])
                      /\ (\E j \in Jobs : job[j].op = "duplicate" /\ v.client = job[j].client) => NewId \in late'
    <3> DEFINE v == [client |-> NewId, parent |-> NoClient]
    <3>1. site' = Also(site, [s \in {NewId} |-> v]) /\ v.client = NewId
      BY <2>1 DEF Create
    <3>2. \A j \in Jobs : job[j].op = "duplicate" => job[j].client # NewId
      BY <1>3, <1>4 DEF ClientsInv, CopiesUnderWay
    <3> HIDE DEF v
    <3> QED
      BY <3>1, <3>2
  <2>2. ASSUME NEW c, NEW p, CreateSite(c, p)
        PROVE  \E v : /\ site' = Also(site, [s \in {NewId} |-> v])
                      /\ (\E j \in Jobs : job[j].op = "duplicate" /\ v.client = job[j].client) => NewId \in late'
    <3> DEFINE v == [client |-> c, parent |-> p]
    <3>1. site' = Also(site, [s \in {NewId} |-> v]) /\ ((\E j \in Jobs : job[j].op = "duplicate") => NewId \in late')
      BY <2>2 DEF CreateSite
    <3> HIDE DEF v
    <3> QED
      BY <3>1
  <2> QED
    BY <2>1, <2>2
<1> DEFINE new == [s \in {NewId} |-> v]
<1>7. DOMAIN new = {NewId} /\ new[NewId] = v
  OBVIOUS
<1>8. site' = Also(site, new)
  BY <1>6
<1>9. /\ CopiesUnderWay' /\ \A s \in DOMAIN site' : Used(s[1])'
      /\ \A s \in DOMAIN site : s \in DOMAIN site' /\ site'[s] = site[s]
      /\ \A k : Used(k) => Used(k)'
  <2> HIDE DEF new
  <2>1. \A s \in DOMAIN new : s \notin DOMAIN site /\ Used(s[1])'
    BY <1>3, <1>4, <1>5, <1>7
  <2>2. \A s \in DOMAIN new, j \in Jobs :
           (job'[j].op = "duplicate" /\ new[s].client = job[j].client) => s \in late'
    BY <1>1, <1>6, <1>7
  <2> QED
    BY <1>0, <1>1, <1>2, <1>8, <2>1, <2>2, SitesAdded
<1>10. \A c \in DOMAIN client' : c \in DOMAIN client \/ c = NewId
  BY DEF Create, CreateSite, Also
<1>11. IdsUsed'
  <2>1. \A c \in DOMAIN client' : Used(c[1])'
    BY <1>3, <1>4, <1>9, <1>10 DEF ClientsInv, IdsUsed
  <2>2. \A r \in access : Len(r.person) = 1 \/ Used(r.person[1])'
    BY <1>9 DEF ClientsInv, IdsUsed
  <2> QED
    BY <1>1, <1>9, <2>1, <2>2 DEF IdsUsed
<1>12. RowsInv'
  BY <1>0, <1>1, <1>9, RowsKept
<1> QED
  BY <1>2, <1>9, <1>11, <1>12 DEF ClientsInv

(* A client or a site is removed, with the rows that lead into it. *)
LEMMA CascadeSteps ==
    ASSUME ClientsInv, NEW C, NEW S, Cascade(C, S)
    PROVE  ClientsInv'
<1> DEFINE gone == {r \in access : r.site \in S \/ r.client \in C}
<1>0. nextId \in Nat
  BY DEF ClientsInv, RowsInv, RowsTyped
<1>1. /\ nextId' = nextId + 1 /\ UNCHANGED <<job, late>> /\ access' = access \ gone
      /\ excused' = excused \cup {r.person : r \in {q \in gone : q.primary}}
  BY DEF Cascade, Request
<1>2. JobsTyped' /\ JobsShrink
  BY <1>1 DEF ClientsInv, JobsTyped, JobsShrink
<1>3. \A n : Used(n) => Used(n)'
  BY <1>0, <1>1, <1>2, UsedStays DEF ClientsInv, RowsInv
<1>4. /\ \A s \in DOMAIN site' : s \in DOMAIN site /\ site'[s] = site[s]
      /\ \A s \in DOMAIN site : s \notin S => s \in DOMAIN site'
      /\ \A c \in DOMAIN client' : c \in DOMAIN client
  BY DEF Cascade, Sub
<1>5. IdsUsed'
  BY <1>1, <1>3, <1>4 DEF ClientsInv, IdsUsed
<1>6. CopiesUnderWay'
  <2>1. \A j \in Jobs : (job[j].op = "duplicate" /\ job[j].id \in Nat /\ job[j].id < nextId) => job[j].id < nextId'
    BY <1>0, <1>1
  <2> QED
    BY <1>1, <1>3, <1>4, <2>1 DEF ClientsInv, CopiesUnderWay
<1>7. \A r \in access' : r \in access /\ r.site \in DOMAIN site' /\ site'[r.site] = site[r.site]
  BY <1>1, <1>4 DEF ClientsInv, RowsInv, RowsTyped
<1>8. RowsTyped' /\ RowsStayInside'
  BY <1>0, <1>1, <1>7 DEF ClientsInv, RowsInv, RowsTyped, RowsStayInside
<1>9. OnePrimary' /\ PrimaryKept'
  BY <1>1 DEF ClientsInv, RowsInv, OnePrimary, PrimaryKept
<1> QED
  BY <1>2, <1>5, <1>6, <1>8, <1>9 DEF ClientsInv, RowsInv

(* A person who has access gets a row at another site, or a new one. *)
LEMMA MemberSteps ==
    ASSUME ClientsInv, NEW r \in access, NEW s \in DOMAIN site, AddMember(r.person, s)
    PROVE  ClientsInv'
<1> DEFINE b == \A q \in access : q.person # r.person
           x == [person |-> r.person, client |-> site[s].client, site |-> s, primary |-> b, inspector |-> TRUE]
<1>0. nextId \in Nat
  BY DEF ClientsInv, RowsInv, RowsTyped
<1>1. /\ nextId' = nextId + 1 /\ UNCHANGED <<job, late, site, client, excused>> /\ access' = access \cup {x}
  BY DEF AddMember, Request, history
<1>2. b = FALSE
  OBVIOUS
<1>3. x.person = r.person /\ x.client = site[s].client /\ x.site = s /\ x.primary = FALSE /\ AccessRow(x)
  BY <1>2 DEF AccessRow
<1> HIDE DEF x, b
<1>4. JobsTyped' /\ JobsShrink
  BY <1>1 DEF ClientsInv, JobsTyped, JobsShrink
<1>5. \A n : Used(n) => Used(n)'
  BY <1>0, <1>1, <1>4, UsedStays DEF ClientsInv, RowsInv
<1>6. IdsUsed'
  BY <1>1, <1>3, <1>5 DEF ClientsInv, IdsUsed
<1>7. CopiesUnderWay'
  <2>1. \A j \in Jobs : (job[j].op = "duplicate" /\ job[j].id \in Nat /\ job[j].id < nextId) => job[j].id < nextId'
    BY <1>0, <1>1
  <2> QED
    BY <1>1, <1>5, <2>1 DEF ClientsInv, CopiesUnderWay
<1>8. RowsTyped' /\ RowsStayInside'
  BY <1>0, <1>1, <1>3 DEF ClientsInv, RowsInv, RowsTyped, RowsStayInside
<1>9. OnePrimary' /\ PrimaryKept'
  BY <1>1, <1>3 DEF ClientsInv, RowsInv, OnePrimary, PrimaryKept
<1> QED
  BY <1>4, <1>6, <1>7, <1>8, <1>9 DEF ClientsInv, RowsInv

(* A copy begins: it gets a number of its own, and reads the sites. *)
LEMMA CopyBegins ==
    ASSUME ClientsInv, NEW j \in Jobs, NEW c \in DOMAIN client, Duplicate(j, c)
    PROVE  ClientsInv'
<1> DEFINE S == Sub(site, SitesOf(c))
           q == [[Idle EXCEPT !.pc = "assets", !.sites = S] EXCEPT !.op = "duplicate", !.client = c, !.id = nextId]
<1>0. nextId \in Nat
  BY DEF ClientsInv, RowsInv, RowsTyped
<1>1. /\ nextId' = nextId + 1 /\ UNCHANGED <<late, site, client, access, excused>>
      /\ job[j].op = "idle" /\ job' = [job EXCEPT ![j] = q]
  BY DEF Duplicate, Start, Continue, Request, tables, history
<1>2. DOMAIN S = SitesOf(c)
  BY DEF Sub, SitesOf
<1> HIDE DEF S
<1>3. DOMAIN q = DOMAIN Idle /\ q.op = "duplicate" /\ q.client = c /\ q.id = nextId /\ q.sites = S
  BY IdleRecord
<1> HIDE DEF q
<1>4. \A k \in Jobs : job'[k] = IF k = j THEN q ELSE job[k]
  BY <1>1 DEF ClientsInv, JobsTyped
<1>5. JobsTyped'
  BY <1>1, <1>3 DEF ClientsInv, JobsTyped
<1>6. \A n : Used(n) => Used(n)'
  BY <1>0, <1>1, <1>3, <1>4 DEF Used
<1>7. IdsUsed'
  BY <1>1, <1>6 DEF ClientsInv, IdsUsed
<1>8. \A k \in Jobs : job[k].op = "duplicate" => job[k].id \in Nat /\ job[k].id < nextId' /\ job[k].id # nextId
  BY <1>0, <1>1 DEF ClientsInv, CopiesUnderWay
<1>9. Used(c[1])' /\ \A s \in DOMAIN site : site[s].client = c => s \in DOMAIN S
  BY <1>2, <1>6 DEF ClientsInv, IdsUsed, SitesOf
<1>10. CopiesUnderWay'
  <2> SUFFICES ASSUME NEW k \in Jobs, job'[k].op = "duplicate"
               PROVE  /\ job'[k].id \in Nat /\ job'[k].id < nextId'
                      /\ \A i \in Jobs : (i # k /\ job'[i].op = "duplicate") => job'[i].id # job'[k].id
                      /\ Used(job[k].client[1])'
                      /\ \A s \in DOMAIN site' : site'[s].client = job'[k].client => s \in DOMAIN job'[k].sites \cup late'
    BY DEF CopiesUnderWay
  <2>1. CASE k = j
    <3>1. job'[k] = q /\ job'[k].id = nextId /\ job'[k].client = c /\ job'[k].sites = S
      BY <1>3, <1>4, <2>1
    <3>2. \A i \in Jobs : (i # k /\ job'[i].op = "duplicate") => job'[i].id # job'[k].id
      BY <1>4, <1>8, <2>1, <3>1
    <3>3. Used(job[k].client[1])'
      BY <1>9, <3>1
    <3> QED
      BY <1>0, <1>1, <1>9, <3>1, <3>2, <3>3
  <2>2. CASE k # j
    <3>1. job'[k] = job[k] /\ job[k].op = "duplicate"
      BY <1>4, <2>2
    <3>2. \A i \in Jobs : (i # k /\ job'[i].op = "duplicate") => job'[i].id # job'[k].id
      <4> SUFFICES ASSUME NEW i \in Jobs, i # k, job'[i].op = "duplicate" PROVE job'[i].id # job[k].id
        BY <3>1
      <4>1. CASE i = j
        BY <1>3, <1>4, <1>8, <3>1, <4>1
      <4>2. CASE i # j
        <5>1. job'[i] = job[i]
          BY <1>4, <4>2
        <5> QED
          BY <3>1, <5>1 DEF ClientsInv, CopiesUnderWay
      <4> QED
        BY <4>1, <4>2
    <3>3. Used(job[k].client[1])'
      <4>1. Used(job[k].client[1])
        BY <3>1 DEF ClientsInv, CopiesUnderWay
      <4>2. PICK n : n = job[k].client[1]
        OBVIOUS
      <4>3. Used(n)'
        BY <1>6, <4>1, <4>2
      <4> QED
        BY <3>1, <4>2, <4>3
    <3>4. \A s \in DOMAIN site : site[s].client = job[k].client => s \in DOMAIN job[k].sites \cup late
      BY <3>1 DEF ClientsInv, CopiesUnderWay
    <3> QED
      BY <1>1, <1>8, <3>1, <3>2, <3>3, <3>4
  <2> QED
    BY <2>1, <2>2
<1>11. RowsInv'
  BY <1>0, <1>1, RowsKept
<1> QED
  BY <1>5, <1>7, <1>10, <1>11 DEF ClientsInv

(* A row x that is the copy n of a row r, when the sites S are copied. *)
CopyOfRow(x, r, n, S) ==
    /\ x = [r EXCEPT !.person = <<n, r.person>>, !.client = <<n>>,
                     !.site = IF r.site \in DOMAIN S THEN <<n, r.site>> ELSE r.site]
    /\ x.person = <<n, r.person>> /\ x.primary = r.primary
    /\ x.site = IF r.site \in DOMAIN S THEN <<n, r.site>> ELSE r.site

(* A copied row belongs to the copy, to its person and, if the site was     *)
(* copied, to its site; it is primary if the original is.                  *)
LEMMA RowCopied ==
    ASSUME NEW n, NEW S, NEW R, \A r \in R : AccessRow(r), NEW x \in CopyRows(n, S, R)
    PROVE  /\ AccessRow(x) /\ x.client = <<n>>
           /\ \E r \in R : CopyOfRow(x, r, n, S)
<1>1. PICK r \in R : x = [r EXCEPT !.person = <<n, r.person>>, !.client = <<n>>,
                                   !.site = IF r.site \in DOMAIN S THEN <<n, r.site>> ELSE r.site]
  BY DEF CopyRows
<1> DEFINE t == IF r.site \in DOMAIN S THEN <<n, r.site>> ELSE r.site
           p == <<n, r.person>>
           c == <<n>>
           rp == r.person  rc == r.client  rs == r.site  rm == r.primary  ri == r.inspector
<1>2. x = [r EXCEPT !.person = p, !.client = c, !.site = t]
  BY <1>1
<1>3. r = [person |-> rp, client |-> rc, site |-> rs, primary |-> rm, inspector |-> ri] /\ rm \in BOOLEAN
  BY DEF AccessRow
<1> HIDE DEF t, p, c, rp, rc, rs, rm, ri
<1>4. x = [person |-> p, client |-> c, site |-> t, primary |-> rm, inspector |-> ri]
  BY <1>2, <1>3
<1>5. AccessRow(x) /\ x.person = p /\ x.client = c /\ x.site = t /\ x.primary = rm
  BY <1>3, <1>4 DEF AccessRow
<1> QED
  BY <1>1, <1>5 DEF t, p, c, rm, CopyOfRow

(* A copy is committed: its sites and rows come under its own id. *)
LEMMA CopyEnds ==
    ASSUME ClientsInv, NEW j \in Jobs, DuplicateCommit(j)
    PROVE  ClientsInv'
<1> PICK n : n = job[j].id
  OBVIOUS
<1> PICK S : S = job[j].sites
  OBVIOUS
<1> DEFINE R == {r \in access : r.client = job[j].client}
           copied == CopyRows(n, S, R)
           new == CopySites(n, S)
<1>1. /\ job[j].op = "duplicate" /\ job' = [job EXCEPT ![j] = Idle]
      /\ UNCHANGED <<nextId, late>> /\ site' = Also(site, new) /\ access' = access \cup copied
      /\ \A r \in copied : r.site \in DOMAIN site'
      /\ excused' = excused \cup {r.person : r \in {q \in copied : \A o \in copied : o.person = q.person => ~o.primary}}
      /\ client' = Also(client, [d \in {<<n>>} |-> [demo |-> TRUE]])
  BY DEF DuplicateCommit, Continue
<1>2. \A r \in access : AccessRow(r) /\ r.site \in DOMAIN site
  BY DEF ClientsInv, RowsInv, RowsTyped
<1>3. JobsTyped' /\ JobsShrink
  BY <1>1, IdleRecord, JobGoesOn
<1>4. n \in Nat /\ nextId \in Nat /\ n < nextId /\ ~Used(n)
  BY <1>1 DEF ClientsInv, RowsInv, RowsTyped, CopiesUnderWay, Used
<1>5. \A k \in Jobs : job'[k].op = "duplicate" => k # j /\ job'[k] = job[k]
  BY <1>1, IdleRecord DEF ClientsInv, JobsTyped
<1>6. Used(n)'
  <2>1. \A k \in Jobs : job'[k].op = "duplicate" => job'[k].id # n
    BY <1>1, <1>5 DEF ClientsInv, CopiesUnderWay
  <2> QED
    BY <1>1, <1>4, <2>1 DEF Used
<1>7. /\ \A t \in DOMAIN new : \E s \in DOMAIN S : t = <<n, s>> /\ t[1] = n
      /\ \A t \in DOMAIN new : new[t].client = <<n>>
      /\ \A s \in DOMAIN S : <<n, s>> \in DOMAIN new
  BY DEF CopySites
<1>8. \A t \in DOMAIN new : t \notin DOMAIN site
  BY <1>4, <1>7 DEF ClientsInv, IdsUsed
<1>9. \A k \in Jobs : job[k].op = "duplicate" => job[k].client # <<n>>
  <2>1. \A k \in Jobs : job[k].op = "duplicate" => Used(job[k].client[1])
    BY DEF ClientsInv, CopiesUnderWay
  <2>2. <<n>>[1] = n
    OBVIOUS
  <2> QED
    BY <1>4, <2>1, <2>2
<1> HIDE DEF new
<1>10. /\ CopiesUnderWay' /\ \A s \in DOMAIN site' : Used(s[1])'
       /\ \A s \in DOMAIN site : s \in DOMAIN site' /\ site'[s] = site[s]
       /\ \A m : Used(m) => Used(m)'
  <2>1. \A s \in DOMAIN new : s \notin DOMAIN site /\ Used(s[1])'
    BY <1>6, <1>7, <1>8
  <2>2. \A s \in DOMAIN new, k \in Jobs : (job'[k].op = "duplicate" /\ new[s].client = job[k].client) => s \in late'
    BY <1>5, <1>7, <1>9
  <2> QED
    BY <1>1, <1>3, <1>4, <2>1, <2>2, SitesAdded
<1>11. \A x \in copied : /\ AccessRow(x) /\ x.client = <<n>>
                         /\ \E r \in R : CopyOfRow(x, r, n, S)
  <2>1. \A r \in R : AccessRow(r)
    BY <1>2
  <2> HIDE DEF R
  <2> QED
    BY <2>1, RowCopied
<1> HIDE DEF copied
<1>12. \A x \in copied, q \in access : q.person # x.person
  <2> SUFFICES ASSUME NEW x \in copied, NEW q \in access, q.person = x.person PROVE FALSE
    OBVIOUS
  <2>1. PICK p : x.person = <<n, p>>
    BY <1>11 DEF CopyOfRow
  <2>2. Len(x.person) = 2 /\ x.person[1] = n
    BY <2>1
  <2> QED
    BY <1>4, <2>2 DEF ClientsInv, IdsUsed
<1>13. IdsUsed'
  <2>1. \A c \in DOMAIN client' : Used(c[1])'
    <3>1. \A c \in DOMAIN client' : c \in DOMAIN client \/ c = <<n>>
      BY <1>1 DEF Also
    <3> QED
      BY <1>6, <1>10, <3>1 DEF ClientsInv, IdsUsed
  <2>2. \A r \in access : Len(r.person) = 1 \/ Used(r.person[1])'
    BY <1>10 DEF ClientsInv, IdsUsed
  <2>3. \A x \in copied : Used(x.person[1])'
    <3> SUFFICES ASSUME NEW x \in copied PROVE Used(x.person[1])'
      OBVIOUS
    <3>1. PICK p : x.person = <<n, p>>
      BY <1>11 DEF CopyOfRow
    <3>2. x.person[1] = n
      BY <3>1
    <3> QED
      BY <1>6, <3>2
  <2> QED
    BY <1>1, <1>10, <2>1, <2>2, <2>3 DEF IdsUsed
<1>14. RowsTyped'
  BY <1>1, <1>2, <1>4, <1>10, <1>11 DEF RowsTyped
<1>15. RowsStayInside'
  <2>1. \A r \in access : site'[r.site].client # r.client => r.site \in late
    BY <1>2, <1>10 DEF ClientsInv, RowsInv, RowsStayInside
  <2>2. ASSUME NEW x \in copied, site'[x.site].client # x.client PROVE x.site \in late
    <3>1. PICK r \in R : x.site = IF r.site \in DOMAIN S THEN <<n, r.site>> ELSE r.site
      BY <1>11 DEF CopyOfRow
    <3>2. x.client = <<n>>
      BY <1>11
    <3>3. r.site \notin DOMAIN S
      <4> SUFFICES ASSUME r.site \in DOMAIN S PROVE FALSE
        OBVIOUS
      <4>1. x.site = <<n, r.site>> /\ x.site \in DOMAIN new
        BY <1>7, <3>1
      <4>2. site'[x.site] = new[x.site]
        BY <1>1, <4>1 DEF Also
      <4> QED
        BY <1>7, <2>2, <3>2, <4>1, <4>2
    <3>4. x.site = r.site /\ r \in access /\ r.client = job[j].client
      BY <3>1, <3>3
    <3>5. CASE site[r.site].client = r.client
      <4>1. r.site \in DOMAIN S \cup late
        BY <1>1, <1>2, <3>4, <3>5 DEF ClientsInv, CopiesUnderWay
      <4> QED
        BY <3>3, <3>4, <4>1
    <3>6. CASE site[r.site].client # r.client
      BY <3>4, <3>6 DEF ClientsInv, RowsInv, RowsStayInside
    <3> QED
      BY <3>5, <3>6
  <2> QED
    BY <1>1, <2>1, <2>2 DEF RowsStayInside
<1>16. OnePrimary'
  <2> SUFFICES ASSUME NEW x \in access', NEW y \in access', x.person = y.person, x.primary, y.primary PROVE x = y
    BY DEF OnePrimary
  <2>1. CASE x \in access /\ y \in access
    BY <2>1 DEF ClientsInv, RowsInv, OnePrimary
  <2>2. CASE x \in copied /\ y \in copied
    <3>1. PICK q \in R : CopyOfRow(x, q, n, S)
      BY <1>11, <2>2
    <3>2. PICK r \in R : CopyOfRow(y, r, n, S)
      BY <1>11, <2>2
    <3>3. q.person = r.person
      <4>1. \A a, b : <<n, a>> = <<n, b>> => a = b
        OBVIOUS
      <4> QED
        BY <3>1, <3>2, <4>1 DEF CopyOfRow
    <3>4. q = r
      BY <3>1, <3>2, <3>3 DEF CopyOfRow, ClientsInv, RowsInv, OnePrimary
    <3> QED
      BY <3>1, <3>2, <3>4 DEF CopyOfRow
  <2> QED
    BY <1>1, <1>12, <2>1, <2>2
<1>17. PrimaryKept'
  <2>1. \A r \in access : (\E q \in access' : q.person = r.person /\ q.primary) \/ r.person \in excused'
    BY <1>1 DEF ClientsInv, RowsInv, PrimaryKept
  <2>2. \A r \in copied : (\E q \in access' : q.person = r.person /\ q.primary) \/ r.person \in excused'
    BY <1>1
  <2> QED
    BY <1>1, <2>1, <2>2 DEF PrimaryKept
<1> QED
  BY <1>3, <1>10, <1>13, <1>14, <1>15, <1>16, <1>17 DEF ClientsInv, RowsInv

(* Clients, sites, access rows and the jobs that copy them, under any      *)
(* interleaving of requests, cron jobs and failures (ClientsService,       *)
(* SitesService, MembersService).                                          *)
THEOREM ClientsInvariant == ClientsSpec => []ClientsInv
<1>1. ClientsInit => ClientsInv
  <2> SUFFICES ASSUME ClientsInit PROVE ClientsInv
    OBVIOUS
  <2>1. JobsTyped /\ \A j \in Jobs : job[j].op # "duplicate"
    BY IdleRecord DEF ClientsInit, JobsTyped
  <2>2. IdsUsed /\ CopiesUnderWay
    <3>1. \A m : (m \in Nat /\ m < FirstId) => Used(m)
      BY <2>1 DEF ClientsInit, Used
    <3> QED
      BY <2>1, <3>1, ClientsAssumption DEF ClientsInit, IdsUsed, CopiesUnderWay
  <2>3. RowsTyped /\ RowsStayInside
    BY ClientsAssumption DEF ClientsInit, RowsTyped, RowsStayInside
  <2>4. OnePrimary /\ PrimaryKept
    BY ClientsAssumption DEF ClientsInit, OnePrimary, PrimaryKept
  <2> QED
    BY <2>1, <2>2, <2>3, <2>4 DEF ClientsInv, RowsInv
<1>2. ClientsInv /\ [ClientSteps]_clientVars => ClientsInv'
  <2> SUFFICES ASSUME ClientsInv, [ClientSteps]_clientVars PROVE ClientsInv'
    OBVIOUS
  <2>1. CASE UNCHANGED clientVars
    BY <2>1, OtherSteps
  <2>2. CASE ClientSteps
    BY <2>2, OtherSteps, CreateSteps, CascadeSteps, MemberSteps, CopyBegins, CopyEnds
    DEF ClientSteps, Remove, RemoveSite
  <2> QED
    BY <2>1, <2>2
<1> QED
  BY <1>1, <1>2, PTL DEF ClientsSpec

(* Each access row leads into its own client and each person has one       *)
(* primary row, but for the excused cases: sites created while a copy was  *)
(* made, primary rows that a cascade took or that are elsewhere            *)
(* (duplicateDemo, SitesService.remove, ClientsService.remove).            *)
THEOREM AccessRowsStaySound == ClientsSpec => []AccessRowsSound
<1>1. ClientsInv => AccessRowsSound
  <2> SUFFICES ASSUME ClientsInv, NEW r \in access,
                      NEW P, P = {q \in access : q.person = r.person /\ q.primary}
               PROVE  Cardinality(P) <= 1 /\ (P = {} => r.person \in excused)
    BY DEF AccessRowsSound, PrimaryLostByCascadeOnly, ClientsInv, RowsInv
  <2>1. P = {} => r.person \in excused
    BY DEF ClientsInv, RowsInv, PrimaryKept
  <2>2. P = {} \/ \E q : P = {q}
    BY DEF ClientsInv, RowsInv, OnePrimary
  <2>3. Cardinality(P) = 0 \/ Cardinality(P) = 1
    BY <2>2, FS_EmptySet, FS_Singleton
  <2>4. Cardinality(P) <= 1
    BY <2>3
  <2> QED
    BY <2>1, <2>4
<1> QED
  BY <1>1, ClientsInvariant, PTL
-----------------------------------------------------------------------------
(* Jobs on demo clients *)

(* The tables of clients, sites, assets and inspections refer to rows that *)
(* are there, and every client in demo mode is remembered.                 *)
DataSound ==
    /\ day \in Int
    /\ \A c \in DOMAIN client : client[c].demo => c \in everDemo
    /\ \A s \in DOMAIN site : site[s].client \in DOMAIN client
    /\ IsFiniteSet(DOMAIN asset)
    /\ \A a \in DOMAIN asset : Used(a[1]) /\ AssetRow(asset[a]) /\ asset[a].site \in DOMAIN site
    /\ \A i \in inspection : i.asset \in DOMAIN asset /\ i.at \in Int

(* What a job has read: a client that is, or was, in demo mode, assets     *)
(* that are its own while they exist, and, unless another job wrote since, *)
(* when they were created and that they are not compliant.                 *)
JobSound(q) ==
    /\ q.op \in {"clear", "generate", "renew"} => q.client \in everDemo
    /\ (q.op = "duplicate" /\ q.pc = "members") => IsFiniteSet(DOMAIN q.assets)
    /\ q.op = "generate" => q.pc = "write"
    /\ (q.op \in {"generate", "renew"} /\ q.pc = "write") =>
          \A a \in DOMAIN q.assets : Used(a[1]) /\ (a \in DOMAIN asset => ClientOf(a) = q.client)
    /\ q.op = "generate" =>
          \A a \in DOMAIN q.assets :
             /\ q.assets[a].created \in Int
             /\ (~q.raced /\ a \in DOMAIN asset) => asset[a].created = q.assets[a].created
    /\ (q.op = "renew" /\ q.pc = "write" /\ ~q.raced) => \A a \in DOMAIN q.assets : ~Compliant(a)

DemoInv == DataSound /\ \A j \in Jobs : JobSound(job[j])

(* Assets that were there before a step are still of their client. *)
AssetsStay ==
    \A a \in DOMAIN asset' : Used(a[1]) =>
       a \in DOMAIN asset /\ site'[asset'[a].site].client = site[asset[a].site].client

(* And nothing that a job had read was written. *)
NothingWritten ==
    /\ \A a \in DOMAIN asset' : Used(a[1]) => asset'[a].created = asset[a].created
    /\ inspection' \subseteq inspection /\ day' \in Int /\ day' >= day

(* Numbers stay used when copies begin with a new one. *)
LEMMA NumbersStay ==
    ASSUME nextId \in Nat, nextId' \in Nat, nextId' >= nextId,
           \A j \in Jobs : job'[j].op = "duplicate" =>
              (job[j].op = "duplicate" /\ job'[j].id = job[j].id) \/ job'[j].id = nextId
    PROVE  \A n : Used(n) => Used(n)'
BY DEF Used

(* A job has read what is so while nothing it has read is written; when    *)
(* another job writes, it is marked.                                       *)
LEMMA JobStays ==
    ASSUME NEW q, JobSound(q), DataSound, everDemo \subseteq everDemo', \A n : Used(n) => Used(n)',
           AssetsStay, q.raced \/ NothingWritten
    PROVE  JobSound(q)'
<1>1. (q.op \in {"generate", "renew"} /\ q.pc = "write") =>
         \A a \in DOMAIN q.assets : Used(a[1])' /\ (a \in DOMAIN asset' => ClientOf(a)' = q.client)
  BY DEF JobSound, AssetsStay, ClientOf
<1>2. q.op = "generate" => q.pc = "write" /\ \A a \in DOMAIN q.assets :
          /\ q.assets[a].created \in Int
          /\ (~q.raced /\ a \in DOMAIN asset') => asset'[a].created = q.assets[a].created
  BY DEF JobSound, AssetsStay, NothingWritten
<1>3. ASSUME q.op = "renew", q.pc = "write", ~q.raced, NEW a \in DOMAIN q.assets PROVE ~Compliant(a)'
  <2> SUFFICES ASSUME NEW i \in inspection, i.asset = a, i.at + Cycle >= day' PROVE FALSE
    BY <1>3 DEF Compliant, NothingWritten
  <2>1. i.at \in Int /\ Cycle \in Int /\ day \in Int /\ day' \in Int /\ day' >= day
    BY <1>3, ClientsAssumption DEF DataSound, NothingWritten
  <2>2. i.at + Cycle >= day
    BY <2>1
  <2> QED
    BY <1>3, <2>2 DEF JobSound, Compliant
<1> QED
  BY <1>1, <1>2, <1>3 DEF JobSound

(* A job goes on, and nothing is written. *)
LEMMA DemoReads ==
    ASSUME ClientsInv, DemoInv, NEW j \in Jobs, NEW q, job' = [job EXCEPT ![j] = q], JobSound(q),
           UNCHANGED <<client, site, asset, inspection, everDemo, day>>,
           nextId' \in Nat, nextId' >= nextId,
           q.op = "duplicate" => ((job[j].op = "duplicate" /\ q.id = job[j].id) \/ q.id = nextId)
    PROVE  DemoInv'
<1>1. \A k \in Jobs : job'[k] = IF k = j THEN q ELSE job[k]
  BY DEF ClientsInv, JobsTyped
<1>2. \A n : Used(n) => Used(n)'
  <2>1. nextId \in Nat
    BY DEF ClientsInv, RowsInv, RowsTyped
  <2> QED
    BY <1>1, <2>1, NumbersStay
<1>3. AssetsStay /\ NothingWritten
  BY DEF AssetsStay, NothingWritten, DemoInv, DataSound
<1>4. DataSound'
  BY <1>2 DEF DemoInv, DataSound
<1>5. ASSUME NEW k \in Jobs PROVE JobSound(job[k])'
  <2>1. PICK p : p = job'[k] /\ JobSound(p)
    BY <1>1 DEF DemoInv
  <2>2. JobSound(p)'
    BY <1>2, <1>3, <2>1, JobStays DEF DemoInv
  <2> QED
    BY <2>1, <2>2
<1> QED
  BY <1>4, <1>5 DEF DemoInv

(* Clients, sites or rows are written or a day passes; jobs at most end.   *)
LEMMA DemoWorld ==
    ASSUME ClientsInv, DemoInv, \A k \in Jobs : job'[k] = job[k] \/ job'[k].op \in {"idle", "cron"},
           nextId' \in Nat, nextId' >= nextId, DataSound', everDemo \subseteq everDemo',
           AssetsStay, NothingWritten
    PROVE  DemoInv'
<1>1. \A n : Used(n) => Used(n)'
  <2>1. nextId \in Nat
    BY DEF ClientsInv, RowsInv, RowsTyped
  <2> QED
    BY <2>1, NumbersStay
<1>2. ASSUME NEW k \in Jobs PROVE JobSound(job[k])'
  <2>1. CASE job'[k] = job[k]
    <3>1. PICK p : p = job[k] /\ JobSound(p)
      BY DEF DemoInv
    <3>2. JobSound(p)'
      BY <1>1, <3>1, JobStays DEF DemoInv
    <3> QED
      BY <2>1, <3>1, <3>2
  <2>2. CASE job'[k].op \in {"idle", "cron"}
    BY <2>2 DEF JobSound
  <2> QED
    BY <2>1, <2>2
<1> QED
  BY <1>2 DEF DemoInv

(* A job has written inspections, and the others are told.                 *)
LEMMA DemoWrites ==
    ASSUME ClientsInv, DemoInv, NEW j \in Jobs, Done(j), UNCHANGED <<everDemo, nextId>>,
           DataSound', AssetsStay
    PROVE  DemoInv'
<1>1. \A k \in Jobs : job'[k] = IF k = j THEN EndOf(job[j]) ELSE [job[k] EXCEPT !.raced = job[k].op # "idle"]
  BY DEF Done
<1>2. \A k \in Jobs : k # j =>
         /\ job'[k].op = job[k].op /\ job'[k].pc = job[k].pc /\ job'[k].id = job[k].id
         /\ job'[k].client = job[k].client /\ job'[k].assets = job[k].assets
         /\ job[k].op # "idle" => job'[k].raced
  <2> SUFFICES ASSUME NEW k \in Jobs, k # j
               PROVE  /\ job'[k].op = job[k].op /\ job'[k].pc = job[k].pc /\ job'[k].id = job[k].id
                      /\ job'[k].client = job[k].client /\ job'[k].assets = job[k].assets
                      /\ job[k].op # "idle" => job'[k].raced
    OBVIOUS
  <2> DEFINE b == job[k].op # "idle"
  <2>1. job'[k] = [job[k] EXCEPT !.raced = b] /\ (job[k].op # "idle" => b = TRUE)
    BY <1>1
  <2> HIDE DEF b
  <2> QED
    BY <2>1, IdleRecord DEF ClientsInv, JobsTyped
<1>3. \A n : Used(n) => Used(n)'
  <2>1. nextId \in Nat
    BY DEF ClientsInv, RowsInv, RowsTyped
  <2>2. job'[j].op # "duplicate"
    BY <1>1, IdleRecord
  <2> QED
    BY <1>2, <2>1, <2>2, NumbersStay
<1>4. ASSUME NEW k \in Jobs PROVE JobSound(job[k])'
  <2>1. CASE job'[k].op \in {"idle", "cron"}
    BY <2>1 DEF JobSound
  <2>2. CASE job'[k].op \notin {"idle", "cron"}
    <3>1. k # j /\ job'[k].raced
      BY <1>1, <1>2, <2>2, IdleRecord
    <3>2. PICK p : p = job'[k]
      OBVIOUS
    <3>3. JobSound(p)
      BY <1>2, <3>1, <3>2 DEF DemoInv, JobSound
    <3>4. JobSound(p)'
      BY <1>3, <3>1, <3>2, <3>3, JobStays DEF DemoInv
    <3> QED
      BY <3>2, <3>4
  <2> QED
    BY <2>1, <2>2
<1> QED
  BY <1>4 DEF DemoInv

(* A job starts. *)
LEMMA DemoStarts ==
    ASSUME ClientsInv, DemoInv, NEW j \in Jobs, NEW op, NEW c, NEW q, DOMAIN q = DOMAIN Idle, Start(j, op, c, q),
           \A p : (p.op = op /\ p.client = c /\ p.pc = q.pc /\ p.assets = q.assets /\ p.raced = q.raced) => JobSound(p)
    PROVE  DemoInv'
<1> DEFINE p == [q EXCEPT !.op = op, !.client = c, !.id = nextId]
<1>1. p.op = op /\ p.client = c /\ p.pc = q.pc /\ p.assets = q.assets /\ p.raced = q.raced /\ p.id = nextId
  BY IdleRecord
<1>2. job' = [job EXCEPT ![j] = p] /\ UNCHANGED <<client, site, asset, inspection, everDemo, day>>
  BY DEF Start, Continue, tables, history
<1>3. nextId \in Nat /\ nextId' = nextId + 1
  BY DEF Start, Request, ClientsInv, RowsInv, RowsTyped
<1> HIDE DEF p
<1>4. JobSound(p)
  BY <1>1
<1>5. nextId' \in Nat /\ nextId' >= nextId
  BY <1>3
<1>6. PICK r : r = p
  OBVIOUS
<1> QED
  BY <1>1, <1>2, <1>4, <1>5, <1>6, DemoReads

(* A client or a site is created, a client is edited, a person becomes a   *)
(* member, a day passes.                                                   *)
LEMMA DemoEdits ==
    ASSUME ClientsInv, DemoInv,
           \/ \E d \in BOOLEAN : Create(d)
           \/ \E c \in DOMAIN client :
                 Update(c) \/ \E p \in SitesOf(c) \cup {NoClient} : CreateSite(c, p)
           \/ \E s \in DOMAIN site, r \in access : AddMember(r.person, s)
           \/ NextDay
    PROVE  DemoInv'
<1>1. /\ nextId \in Nat /\ nextId' \in Nat /\ nextId' >= nextId
      /\ job' = job /\ UNCHANGED <<asset, inspection>> /\ everDemo \subseteq everDemo'
      /\ day' = day \/ day' = day + 1
  <2>1. nextId \in Nat
    BY DEF ClientsInv, RowsInv, RowsTyped
  <2> DEFINE Goal == /\ nextId' \in Nat /\ nextId' >= nextId
                     /\ job' = job /\ UNCHANGED <<asset, inspection>> /\ everDemo \subseteq everDemo'
                     /\ day' = day \/ day' = day + 1
  <2>2. ASSUME NEW d \in BOOLEAN, Create(d) PROVE Goal
    BY <2>1, <2>2 DEF Create, Request
  <2>3. ASSUME NEW c \in DOMAIN client, Update(c) PROVE Goal
    BY <2>1, <2>3 DEF Update, Request
  <2>4. ASSUME NEW c \in DOMAIN client, NEW p, CreateSite(c, p) PROVE Goal
    BY <2>1, <2>4 DEF CreateSite, Request
  <2>5. ASSUME NEW s, NEW r, AddMember(r.person, s) PROVE Goal
    BY <2>1, <2>5 DEF AddMember, Request, history
  <2>6. NextDay => Goal
    BY <2>1 DEF NextDay, tables, history
  <2> HIDE DEF Goal
  <2>7. Goal
    BY <2>2, <2>3, <2>4, <2>5, <2>6
  <2> QED
    BY <2>1, <2>7 DEF Goal
<1>2. \A n : Used(n) => Used(n)'
  BY <1>1, NumbersStay
<1>3. /\ DOMAIN client \subseteq DOMAIN client' /\ DOMAIN site \subseteq DOMAIN site'
      /\ \A s \in DOMAIN site : site'[s] = site[s]
      /\ \A s \in DOMAIN site' : site'[s].client \in DOMAIN client'
  <2> DEFINE Goal == /\ DOMAIN client \subseteq DOMAIN client' /\ DOMAIN site \subseteq DOMAIN site'
                     /\ \A s \in DOMAIN site : site'[s] = site[s]
                     /\ \A s \in DOMAIN site' : site'[s].client \in DOMAIN client'
  <2>1. NewId \notin DOMAIN site
    <3>1. ~Used(NewId[1])
      BY <1>1 DEF Used, NewId
    <3> QED
      BY <3>1 DEF ClientsInv, IdsUsed
  <2>2. \A s \in DOMAIN site : site[s].client \in DOMAIN client
    BY DEF DemoInv, DataSound
  <2>3. ASSUME NEW d \in BOOLEAN, Create(d) PROVE Goal
    BY <2>1, <2>2, <2>3 DEF Create, Also
  <2>4. ASSUME NEW c \in DOMAIN client, Update(c) PROVE Goal
    BY <2>2, <2>4 DEF Update
  <2>5. ASSUME NEW c \in DOMAIN client, NEW p, CreateSite(c, p) PROVE Goal
    BY <2>1, <2>2, <2>5 DEF CreateSite, Also
  <2>6. ASSUME UNCHANGED <<client, site>> PROVE Goal
    BY <2>2, <2>6
  <2>7. ASSUME NEW x, NEW s, AddMember(x, s) PROVE UNCHANGED <<client, site>>
    BY <2>7 DEF AddMember
  <2>8. NextDay => UNCHANGED <<client, site>>
    BY DEF NextDay, tables
  <2> HIDE DEF Goal
  <2>9. Goal
    BY <2>3, <2>4, <2>5, <2>6, <2>7, <2>8
  <2> QED
    BY <2>9 DEF Goal
<1>4. \A c \in DOMAIN client' : client'[c].demo => c \in everDemo'
  <2>1. \A c \in DOMAIN client : client[c].demo => c \in everDemo
    BY DEF DemoInv, DataSound
  <2>2. ASSUME NEW d \in BOOLEAN, Create(d), NEW c \in DOMAIN client', client'[c].demo PROVE c \in everDemo'
    BY <2>1, <2>2 DEF Create, Also
  <2>3. ASSUME NEW c \in DOMAIN client, Update(c), NEW x \in DOMAIN client', client'[x].demo PROVE x \in everDemo'
    BY <2>1, <2>3 DEF Update
  <2>4. CASE UNCHANGED <<client, everDemo>>
    BY <2>1, <2>4
  <2> QED
    BY <2>2, <2>3, <2>4 DEF CreateSite, AddMember, NextDay, tables, history
<1>5. day \in Int /\ day' \in Int /\ day' >= day
  BY <1>1 DEF DemoInv, DataSound
<1>6. DataSound'
  BY <1>1, <1>2, <1>3, <1>4, <1>5 DEF DemoInv, DataSound, AssetRow
<1>7. AssetsStay
  BY <1>1, <1>3 DEF AssetsStay, DemoInv, DataSound
<1>8. NothingWritten
  BY <1>1, <1>5 DEF NothingWritten
<1> QED
  BY <1>1, <1>6, <1>7, <1>8, DemoWorld

(* A client or a site is removed with its assets. *)
LEMMA DemoCascades ==
    ASSUME ClientsInv, DemoInv, NEW C, NEW S, Cascade(C, S),
           \A s \in DOMAIN site : site[s].client \in C => s \in S
    PROVE  DemoInv'
<1>1. /\ nextId \in Nat /\ nextId' \in Nat /\ nextId' >= nextId
      /\ UNCHANGED <<job, day, inspection, everDemo>>
  BY DEF ClientsInv, RowsInv, RowsTyped, Cascade, Request
<1>2. \A n : Used(n) => Used(n)'
  BY <1>1, NumbersStay
<1>3. /\ \A x : x \in DOMAIN client' <=> x \in DOMAIN client /\ x \notin C
      /\ \A x \in DOMAIN client' : client'[x] = client[x]
  BY DEF Cascade, Sub
<1>4. /\ \A x : x \in DOMAIN site' <=> x \in DOMAIN site /\ x \notin S
      /\ \A x \in DOMAIN site' : site'[x] = site[x]
  BY DEF Cascade, Sub
<1>5. /\ \A x : x \in DOMAIN asset' <=> x \in DOMAIN asset /\ asset[x].site \notin S
      /\ \A x \in DOMAIN asset' : asset'[x] = asset[x]
  BY DEF Cascade, Sub
<1>6. DataSound'
  <2>1. \A i \in inspection : asset[i.asset].site \notin S
    BY DEF Cascade
  <2>2. IsFiniteSet(DOMAIN asset')
    BY <1>5, FS_Subset DEF DemoInv, DataSound
  <2>3. \A s \in DOMAIN site' : site'[s].client \in DOMAIN client'
    BY <1>3, <1>4 DEF DemoInv, DataSound
  <2>4. \A a \in DOMAIN asset' : Used(a[1])' /\ AssetRow(asset[a])' /\ asset'[a].site \in DOMAIN site'
    <3> SUFFICES ASSUME NEW a \in DOMAIN asset'
                 PROVE  Used(a[1])' /\ AssetRow(asset[a])' /\ asset'[a].site \in DOMAIN site'
      OBVIOUS
    <3>1. Used(a[1]) /\ AssetRow(asset[a]) /\ asset[a].site \in DOMAIN site
      BY <1>5 DEF DemoInv, DataSound
    <3> QED
      BY <1>2, <1>4, <1>5, <3>1 DEF AssetRow
  <2>5. \A c \in DOMAIN client' : client'[c].demo => c \in everDemo'
    BY <1>1, <1>3 DEF DemoInv, DataSound
  <2>6. \A i \in inspection' : i.asset \in DOMAIN asset' /\ i.at \in Int
    BY <1>1, <1>5, <2>1 DEF DemoInv, DataSound
  <2>7. day' \in Int
    BY <1>1 DEF DemoInv, DataSound
  <2> QED
    BY <2>2, <2>3, <2>4, <2>5, <2>6, <2>7 DEF DataSound
<1>7. AssetsStay
  BY <1>4, <1>5, <1>6 DEF AssetsStay, DataSound
<1>8. NothingWritten
  <2>1. day \in Int /\ day' = day
    BY <1>1 DEF DemoInv, DataSound
  <2> QED
    BY <1>1, <1>5, <2>1 DEF NothingWritten
<1> QED
  BY <1>1, <1>6, <1>7, <1>8, DemoWorld

(* A request starts a job. *)
LEMMA DemoRequests ==
    ASSUME ClientsInv, DemoInv, NEW j \in Jobs, NEW c \in DOMAIN client,
           Duplicate(j, c) \/ Clear(j, c) \/ Generate(j, c) \/ Renew(j, c) \/ Cron(j)
    PROVE  DemoInv'
<1>1. ASSUME Duplicate(j, c) PROVE DemoInv'
  <2> DEFINE S == Sub(site, SitesOf(c))
             q == [Idle EXCEPT !.pc = "assets", !.sites = S]
  <2>1. Start(j, "duplicate", c, q)
    BY <1>1 DEF Duplicate
  <2> HIDE DEF S
  <2>2. DOMAIN q = DOMAIN Idle /\ q.pc = "assets"
    BY IdleRecord
  <2> HIDE DEF q
  <2> QED
    BY <2>1, <2>2, DemoStarts DEF JobSound
<1>2. ASSUME Clear(j, c) PROVE DemoInv'
  <2> DEFINE q == [Idle EXCEPT !.pc = "delete"]
  <2>1. Start(j, "clear", c, q) /\ c \in everDemo
    BY <1>2 DEF Clear, DemoInv, DataSound
  <2>2. DOMAIN q = DOMAIN Idle
    BY IdleRecord
  <2> HIDE DEF q
  <2> QED
    BY <2>1, <2>2, DemoStarts DEF JobSound
<1>3. ASSUME Generate(j, c) PROVE DemoInv'
  <2> DEFINE A == Sub(asset, AssetsOf(c))
             q == [Idle EXCEPT !.pc = "write", !.assets = A]
  <2>1. Start(j, "generate", c, q) /\ c \in everDemo
    BY <1>3 DEF Generate, DemoInv, DataSound
  <2>2. \A a \in DOMAIN A : /\ Used(a[1]) /\ ClientOf(a) = c
                            /\ A[a].created \in Int /\ asset[a].created = A[a].created
    BY DEF Sub, AssetsOf, DemoInv, DataSound, AssetRow
  <2> HIDE DEF A
  <2>3. DOMAIN q = DOMAIN Idle /\ q.pc = "write" /\ q.assets = A
    BY IdleRecord
  <2> HIDE DEF q
  <2>4. \A p : (p.op = "generate" /\ p.client = c /\ p.pc = q.pc /\ p.assets = q.assets /\ p.raced = q.raced)
                => JobSound(p)
    BY <2>1, <2>2, <2>3 DEF JobSound
  <2> QED
    BY <2>1, <2>3, <2>4, DemoStarts
<1>4. ASSUME Renew(j, c) PROVE DemoInv'
  <2> DEFINE q == [Idle EXCEPT !.pc = "assets"]
  <2>1. Start(j, "renew", c, q) /\ c \in everDemo
    BY <1>4 DEF Renew, DemoInv, DataSound
  <2>2. DOMAIN q = DOMAIN Idle /\ q.pc = "assets"
    BY IdleRecord
  <2> HIDE DEF q
  <2> QED
    BY <2>1, <2>2, DemoStarts DEF JobSound
<1>5. ASSUME Cron(j) PROVE DemoInv'
  <2> DEFINE demo == {x \in DOMAIN client : client[x].demo}
             q == [Idle EXCEPT !.todo = demo]
  <2>1. Start(j, "cron", NoClient, q)
    BY <1>5 DEF Cron
  <2> HIDE DEF demo
  <2>2. DOMAIN q = DOMAIN Idle
    BY IdleRecord
  <2> HIDE DEF q
  <2> QED
    BY <2>1, <2>2, DemoStarts DEF JobSound
<1> QED
  BY <1>1, <1>2, <1>3, <1>4, <1>5

(* A job reads, goes on to the next client, or fails. *)
LEMMA DemoGoesOn ==
    ASSUME ClientsInv, DemoInv, NEW j \in Jobs, NEW q, Continue(j, q), UNCHANGED <<tables, history, day, nextId>>,
           JobSound(q), q.op = "duplicate" => job[j].op = "duplicate" /\ q.id = job[j].id
    PROVE  DemoInv'
<1>1. job' = [job EXCEPT ![j] = q] /\ UNCHANGED <<client, site, asset, inspection, everDemo, day>>
  BY DEF Continue, tables, history
<1>2. nextId' \in Nat /\ nextId' >= nextId
  BY DEF ClientsInv, RowsInv, RowsTyped
<1> QED
  BY <1>1, <1>2, DemoReads

(* Looking up the assets, or going on to the next client, keeps the        *)
(* invariant; a failed job is marked and reads no more.                    *)
LEMMA DemoProgress ==
    ASSUME ClientsInv, DemoInv, NEW j \in Jobs,
           \/ DuplicateAssets(j) \/ RenewRead(j) \/ JobFails(j) \/ \E c \in job[j].todo : RenewNext(j, c)
    PROVE  DemoInv'
<1>0. JobSound(job[j]) /\ DOMAIN job[j] = DOMAIN Idle
  BY DEF DemoInv, ClientsInv, JobsTyped
<1>1. ASSUME DuplicateAssets(j) PROVE DemoInv'
  <2> DEFINE A == Sub(asset, AssetsOf(job[j].client))
             q == [job[j] EXCEPT !.pc = "members", !.assets = A]
  <2>1. Continue(j, q) /\ UNCHANGED <<tables, history, day, nextId>> /\ job[j].op = "duplicate"
    BY <1>1 DEF DuplicateAssets, Read
  <2>2. IsFiniteSet(DOMAIN A)
    <3>1. DOMAIN A \subseteq DOMAIN asset
      BY DEF Sub
    <3> QED
      BY <3>1, FS_Subset DEF DemoInv, DataSound
  <2> HIDE DEF A
  <2>3. q.op = "duplicate" /\ q.id = job[j].id /\ q.assets = A
    BY <1>0, <2>1, IdleRecord
  <2> HIDE DEF q
  <2>4. JobSound(q)
    BY <2>2, <2>3 DEF JobSound
  <2> QED
    BY <2>1, <2>3, <2>4, DemoGoesOn
<1>2. ASSUME RenewRead(j) PROVE DemoInv'
  <2> DEFINE A == Sub(asset, AssetsToRenew(job[j].client))
             q == [job[j] EXCEPT !.pc = "write", !.raced = FALSE, !.assets = A]
  <2>1. Continue(j, q) /\ UNCHANGED <<tables, history, day, nextId>> /\ job[j].op = "renew"
    BY <1>2 DEF RenewRead, Read
  <2>2. \A a \in DOMAIN A : Used(a[1]) /\ ClientOf(a) = job[j].client /\ ~Compliant(a)
    BY DEF Sub, AssetsToRenew, AssetsOf, DemoInv, DataSound
  <2> HIDE DEF A
  <2>3. q.op = "renew" /\ q.client = job[j].client /\ q.assets = A
    BY <1>0, <2>1, IdleRecord
  <2> HIDE DEF q
  <2>4. job[j].client \in everDemo
    BY <1>0, <2>1 DEF JobSound
  <2>5. JobSound(q)
    BY <2>2, <2>3, <2>4 DEF JobSound
  <2> QED
    BY <2>1, <2>3, <2>5, DemoGoesOn
<1>3. ASSUME JobFails(j) PROVE DemoInv'
  <2>1. PICK q : q = EndOf(job[j])
    OBVIOUS
  <2>2. Continue(j, q) /\ UNCHANGED <<tables, history, day, nextId>> /\ q.op \in {"idle", "cron"}
    BY <1>3, <2>1, IdleRecord DEF JobFails
  <2> QED
    BY <2>2, DemoGoesOn DEF JobSound
<1>4. ASSUME NEW c \in job[j].todo, RenewNext(j, c) PROVE DemoInv'
  <2> DEFINE rest == job[j].todo \ {c}
             p == [job[j] EXCEPT !.todo = rest]
             q == [job[j] EXCEPT !.op = "renew", !.pc = "assets", !.client = c, !.todo = rest]
  <2>1. CASE c \in DOMAIN client /\ client[c].demo
    <3>1. Continue(j, q) /\ UNCHANGED <<tables, history, day, nextId>> /\ c \in everDemo
      BY <1>4, <2>1 DEF RenewNext, Read, DemoInv, DataSound
    <3> HIDE DEF rest
    <3>2. q.op = "renew" /\ q.pc = "assets" /\ q.client = c
      BY <1>0, IdleRecord
    <3> HIDE DEF q
    <3>3. JobSound(q)
      BY <3>1, <3>2 DEF JobSound
    <3> QED
      BY <3>1, <3>2, <3>3, DemoGoesOn
  <2>2. CASE ~(c \in DOMAIN client /\ client[c].demo)
    <3>1. PICK e : e = EndOf(p)
      OBVIOUS
    <3>2. Continue(j, e) /\ UNCHANGED <<tables, history, day, nextId>> /\ e.op \in {"idle", "cron"}
      BY <1>4, <2>2, <3>1, IdleRecord DEF RenewNext, Read
    <3> QED
      BY <3>2, DemoGoesOn DEF JobSound
  <2> QED
    BY <2>1, <2>2
<1> QED
  BY <1>1, <1>2, <1>3, <1>4

(* As many copies as originals. *)
LEMMA CopiesCount ==
    ASSUME NEW n, NEW X, IsFiniteSet(X), NEW Y, \A y : y \in Y <=> \E x \in X : y = <<n, x>>
    PROVE  IsFiniteSet(Y) /\ Cardinality(Y) = Cardinality(X)
<1> DEFINE f == [x \in X |-> <<n, x>>]
<1>1. f \in [X -> Y] /\ \A x \in X : f[x] = <<n, x>>
  OBVIOUS
<1>2. \A a, b \in X : f[a] = f[b] => a = b
  <2> SUFFICES ASSUME NEW a \in X, NEW b \in X, <<n, a>> = <<n, b>> PROVE a = b
    BY <1>1
  <2> QED
    OBVIOUS
<1> HIDE DEF f
<1>3. \A y \in Y : \E x \in X : f[x] = y
  BY <1>1
<1>4. f \in Bijection(X, Y)
  BY <1>1, <1>2, <1>3 DEF Bijection, Injection, Surjection, IsInjective
<1>5. ExistsBijection(X, Y)
  BY <1>4 DEF ExistsBijection
<1> QED
  BY <1>5, FS_Bijection

(* What is committed with a copy n of the sites S and the assets A. *)
CopyWritten(n, S, A) ==
    /\ \A x : x \in DOMAIN client' <=> x \in DOMAIN client \/ x = <<n>>
    /\ \A x \in DOMAIN client : client'[x] = client[x]
    /\ \A x : x \in DOMAIN site' <=> x \in DOMAIN site \/ \E s \in DOMAIN S : x = <<n, s>>
    /\ \A x \in DOMAIN site : x[1] # n /\ site'[x] = site[x] /\ site[x].client # <<n>>
    /\ \A s \in DOMAIN S :
          site'[<<n, s>>] = [client |-> <<n>>,
                             parent |-> IF S[s].parent \in DOMAIN S THEN <<n, S[s].parent>> ELSE NoClient]
    /\ DOMAIN asset' = DOMAIN asset \cup {<<n, x>> : x \in {a \in DOMAIN A : A[a].site \in DOMAIN S}}
    /\ \A x \in DOMAIN asset : x[1] # n /\ asset'[x] = asset[x]
    /\ \A a \in DOMAIN A : A[a].site \in DOMAIN S =>
          asset'[<<n, a>>] = [site |-> <<n, A[a].site>>, tagged |-> A[a].tagged, setup |-> FALSE, created |-> day]

(* The commit of a copy writes, under a number no row has, the sites and   *)
(* the assets that were read, and leaves the other rows alone.             *)
LEMMA CopyWrites ==
    ASSUME ClientsInv, DemoInv, NEW j \in Jobs, DuplicateCommit(j)
    PROVE  ~Used(job[j].id) /\ CopyWritten(job[j].id, job[j].sites, job[j].assets)
<1> PICK n : n = job[j].id
  OBVIOUS
<1> PICK S : S = job[j].sites
  OBVIOUS
<1> PICK A : A = job[j].assets
  OBVIOUS
<1> DEFINE sites == CopySites(n, S)
           assets == CopyAssets(n, S, A)
<1>1. /\ client' = Also(client, [d \in {<<n>>} |-> [demo |-> TRUE]])
      /\ site' = Also(site, sites) /\ asset' = Also(asset, assets) /\ job[j].op = "duplicate"
  BY DEF DuplicateCommit
<1>2. ~Used(n)
  BY <1>1 DEF Used
<1>3. /\ \A x \in DOMAIN client : x # <<n>>
      /\ \A x \in DOMAIN site : x[1] # n /\ site[x].client # <<n>>
      /\ \A x \in DOMAIN asset : x[1] # n
  <2>1. \A x \in DOMAIN client : x[1] # n
    BY <1>2 DEF ClientsInv, IdsUsed
  <2>2. <<n>>[1] = n
    OBVIOUS
  <2>3. <<n>> \notin DOMAIN client
    BY <2>1, <2>2
  <2> QED
    BY <1>2, <2>3 DEF ClientsInv, IdsUsed, DemoInv, DataSound
<1>4. /\ \A x : x \in DOMAIN sites <=> \E s \in DOMAIN S : x = <<n, s>>
      /\ \A s \in DOMAIN S :
            sites[<<n, s>>] = [client |-> <<n>>,
                               parent |-> IF S[s].parent \in DOMAIN S THEN <<n, S[s].parent>> ELSE NoClient]
  <2>1. DOMAIN sites = {<<n, s>> : s \in DOMAIN S}
    BY DEF CopySites
  <2>2. ASSUME NEW s \in DOMAIN S
        PROVE  sites[<<n, s>>] = [client |-> <<n>>,
                                  parent |-> IF S[s].parent \in DOMAIN S THEN <<n, S[s].parent>> ELSE NoClient]
    BY DEF CopySites
  <2> QED
    BY <2>1, <2>2
<1>5. /\ DOMAIN assets = {<<n, x>> : x \in {a \in DOMAIN A : A[a].site \in DOMAIN S}}
      /\ \A a \in DOMAIN A : A[a].site \in DOMAIN S =>
            assets[<<n, a>>] = [site |-> <<n, A[a].site>>, tagged |-> A[a].tagged, setup |-> FALSE, created |-> day]
  <2>1. DOMAIN assets = {<<n, x>> : x \in {a \in DOMAIN A : A[a].site \in DOMAIN S}}
    BY DEF CopyAssets
  <2>2. ASSUME NEW a \in DOMAIN A, A[a].site \in DOMAIN S
        PROVE  assets[<<n, a>>] = [site |-> <<n, A[a].site>>, tagged |-> A[a].tagged, setup |-> FALSE, created |-> day]
    BY <2>2 DEF CopyAssets
  <2> QED
    BY <2>1, <2>2
<1> HIDE DEF sites, assets
<1>6. /\ \A x : x \in DOMAIN client' <=> x \in DOMAIN client \/ x = <<n>>
      /\ \A x \in DOMAIN client : client'[x] = client[x]
  BY <1>1, <1>3 DEF Also
<1>7. /\ \A x : x \in DOMAIN site' <=> x \in DOMAIN site \/ x \in DOMAIN sites
      /\ \A x \in DOMAIN site : x \notin DOMAIN sites => site'[x] = site[x]
      /\ \A x \in DOMAIN sites : site'[x] = sites[x]
  BY <1>1 DEF Also
<1>8. /\ DOMAIN asset' = DOMAIN asset \cup DOMAIN assets
      /\ \A x \in DOMAIN asset : x \notin DOMAIN assets => asset'[x] = asset[x]
      /\ \A x \in DOMAIN assets : asset'[x] = assets[x]
  BY <1>1 DEF Also
<1>9. (\A x \in DOMAIN sites : x[1] = n) /\ (\A x \in DOMAIN assets : x[1] = n)
  BY <1>4, <1>5
<1>10. \A x \in DOMAIN site : x \notin DOMAIN sites
  BY <1>3, <1>9
<1>11. \A x \in DOMAIN asset : x \notin DOMAIN assets
  BY <1>3, <1>9
<1>12. \A s \in DOMAIN S : site'[<<n, s>>] = sites[<<n, s>>]
  BY <1>4, <1>7
<1>13. \A a \in DOMAIN A : A[a].site \in DOMAIN S => asset'[<<n, a>>] = assets[<<n, a>>]
  BY <1>5, <1>8
<1> QED
  BY <1>2, <1>3, <1>4, <1>5, <1>6, <1>7, <1>8, <1>10, <1>11, <1>12, <1>13 DEF CopyWritten

(* A copy is committed: it takes no other row along. *)
LEMMA DemoCopied ==
    ASSUME ClientsInv, DemoInv, NEW j \in Jobs, DuplicateCommit(j)
    PROVE  DemoInv'
<1> PICK n : n = job[j].id
  OBVIOUS
<1> PICK S : S = job[j].sites
  OBVIOUS
<1> PICK A : A = job[j].assets
  OBVIOUS
<1>1. /\ job[j].op = "duplicate" /\ job[j].pc = "members" /\ job' = [job EXCEPT ![j] = Idle]
      /\ everDemo' = everDemo \cup {<<n>>} /\ UNCHANGED <<inspection, day, nextId>>
      /\ client' = Also(client, [d \in {<<n>>} |-> [demo |-> TRUE]])
  BY DEF DuplicateCommit, Continue
<1>2. ~Used(n) /\ CopyWritten(n, S, A)
  BY CopyWrites
<1>3. \A k \in Jobs : job'[k] = IF k = j THEN Idle ELSE job[k]
  BY <1>1 DEF ClientsInv, JobsTyped
<1>4. nextId \in Nat /\ nextId' >= nextId /\ n \in Nat /\ n < nextId
  BY <1>1 DEF ClientsInv, RowsInv, RowsTyped, CopiesUnderWay
<1>5. \A m : Used(m) => Used(m)'
  BY <1>1, <1>3, <1>4, IdleRecord, NumbersStay
<1>6. Used(n)'
  <2>1. \A k \in Jobs : job'[k].op = "duplicate" => job'[k].id # n
    BY <1>1, <1>3, IdleRecord DEF ClientsInv, CopiesUnderWay
  <2> QED
    BY <1>1, <1>4, <2>1 DEF Used
<1> DEFINE X == {a \in DOMAIN A : A[a].site \in DOMAIN S}
           Y == {<<n, x>> : x \in X}
<1>7. \A b \in DOMAIN asset' : b \in DOMAIN asset \/ \E a \in X : b = <<n, a>> /\ b[1] = n
  BY <1>2 DEF CopyWritten
<1>8. DataSound'
  <2>1. IsFiniteSet(DOMAIN asset')
    <3>1. IsFiniteSet(DOMAIN A)
      BY <1>1 DEF DemoInv, JobSound
    <3>2. IsFiniteSet(X)
      BY <3>1, FS_Subset
    <3> HIDE DEF X
    <3>3. IsFiniteSet(Y)
      BY <3>2, CopiesCount
    <3>4. DOMAIN asset' = DOMAIN asset \cup Y
      BY <1>2 DEF CopyWritten, X
    <3> HIDE DEF Y
    <3>5. IsFiniteSet(DOMAIN asset)
      BY DEF DemoInv, DataSound
    <3> QED
      BY <3>3, <3>4, <3>5, FS_Union
  <2>2. \A x \in DOMAIN client' : client'[x].demo => x \in everDemo'
    BY <1>1, <1>2 DEF CopyWritten, DemoInv, DataSound
  <2>3. \A x \in DOMAIN site' : site'[x].client \in DOMAIN client'
    <3>1. \A x \in DOMAIN site : site'[x].client \in DOMAIN client'
      BY <1>2 DEF CopyWritten, DemoInv, DataSound
    <3>2. ASSUME NEW s \in DOMAIN S PROVE site'[<<n, s>>].client = <<n>>
      <4> DEFINE p == IF S[s].parent \in DOMAIN S THEN <<n, S[s].parent>> ELSE NoClient
      <4>1. site'[<<n, s>>] = [client |-> <<n>>, parent |-> p]
        BY <1>2 DEF CopyWritten
      <4> HIDE DEF p
      <4> QED
        BY <4>1
    <3>3. \A x \in DOMAIN site' : x \in DOMAIN site \/ \E s \in DOMAIN S : x = <<n, s>>
      BY <1>2 DEF CopyWritten
    <3>4. <<n>> \in DOMAIN client'
      BY <1>2 DEF CopyWritten
    <3> QED
      BY <3>1, <3>2, <3>3, <3>4
  <2>4. \A b \in DOMAIN asset' : Used(b[1])' /\ AssetRow(asset[b])' /\ asset'[b].site \in DOMAIN site'
    <3> SUFFICES ASSUME NEW b \in DOMAIN asset'
                 PROVE  Used(b[1])' /\ AssetRow(asset'[b]) /\ asset'[b].site \in DOMAIN site'
      BY DEF AssetRow
    <3>1. CASE b \in DOMAIN asset
      BY <1>2, <1>5, <3>1 DEF CopyWritten, DemoInv, DataSound
    <3>2. CASE \E a \in X : b = <<n, a>> /\ b[1] = n
      <4>1. PICK a \in X : b = <<n, a>> /\ b[1] = n
        BY <3>2
      <4>2. asset'[b] = [site |-> <<n, A[a].site>>, tagged |-> A[a].tagged, setup |-> FALSE, created |-> day]
        BY <1>2, <4>1 DEF CopyWritten
      <4>3. AssetRow(asset'[b]) /\ asset'[b].site = <<n, A[a].site>>
        BY <4>2 DEF AssetRow, DemoInv, DataSound
      <4> QED
        BY <1>2, <1>6, <4>1, <4>3 DEF CopyWritten
    <3> QED
      BY <1>7, <3>1, <3>2
  <2>5. \A i \in inspection' : i.asset \in DOMAIN asset' /\ i.at \in Int
    BY <1>1, <1>2 DEF CopyWritten, DemoInv, DataSound
  <2>6. day' \in Int
    BY <1>1 DEF DemoInv, DataSound
  <2> QED
    BY <2>1, <2>2, <2>3, <2>4, <2>5, <2>6 DEF DataSound
<1>9. \A b \in DOMAIN asset' : Used(b[1]) => b \in DOMAIN asset /\ asset'[b] = asset[b]
  BY <1>2, <1>7 DEF CopyWritten
<1>10. AssetsStay
  BY <1>2, <1>9 DEF CopyWritten, AssetsStay, DemoInv, DataSound
<1>11. NothingWritten
  <2>1. day \in Int /\ day' = day
    BY <1>1 DEF DemoInv, DataSound
  <2> QED
    BY <1>1, <1>9, <2>1 DEF NothingWritten
<1>12. everDemo \subseteq everDemo' /\ \A k \in Jobs : job'[k] = job[k] \/ job'[k].op \in {"idle", "cron"}
  BY <1>1, <1>3, IdleRecord
<1> QED
  BY <1>1, <1>4, <1>8, <1>10, <1>11, <1>12, DemoWorld

(* The date that onCheckAssetCreatedOn leaves after two inspections is not *)
(* after the one before, nor after either inspection.                      *)
LEMMA MovedDates ==
    ASSUME NEW c \in Int, NEW a, NEW some, NEW before \in Int, NEW now \in Int,
           NEW d, d = MovedBack(IF a \in some THEN MovedBack(c, before) ELSE c, now)
    PROVE  d \in Int /\ d <= c /\ d <= now /\ (a \in some => d <= before)
BY DEF MovedBack

(* What a generation has written: the inspections of some days for assets   *)
(* of the job, and dates of creation before them.                          *)
Generated(A, c) ==
    /\ DOMAIN asset' = DOMAIN asset /\ DOMAIN A \subseteq DOMAIN asset
    /\ \A a \in DOMAIN asset : asset'[a].site = asset[a].site /\ AssetRow(asset'[a])
    /\ \A i \in inspection \ inspection' : ClientOf(i.asset) = c
    /\ \A i \in inspection' \ inspection : i.asset \in DOMAIN A /\ i.at \in Int
    /\ \A a \in DOMAIN A : asset[a].created = A[a].created => asset'[a].created <= A[a].created
    /\ \A i \in inspection' : (i.asset \in DOMAIN A /\ asset[i.asset].created = A[i.asset].created) =>
          i \in inspection \/ asset'[i.asset].created <= i.at

(* Generating writes inspections of the assets it has read, none before    *)
(* the creation that it moves back, and deletes those of its client only.  *)
LEMMA GenerateWrites ==
    ASSUME ClientsInv, DemoInv, NEW j \in Jobs, GenerateWrite(j)
    PROVE  Generated(job[j].assets, job[j].client)
<1> DEFINE A == job[j].assets
           c == job[j].client
<1>1. job[j].op = "generate" /\ DOMAIN A \subseteq DOMAIN asset
  BY DEF GenerateWrite
<1>2. \A a \in DOMAIN A : A[a].created \in Int
  BY <1>1 DEF DemoInv, JobSound
<1>3. \A a \in DOMAIN asset : AssetRow(asset[a])
  BY DEF DemoInv, DataSound
<1> DEFINE first == MonthStart(day)
<1>4. first \in Int /\ first - MonthDays \in Int /\ MonthDays \in Int
  BY ClientsAssumption DEF MonthStart, DemoInv, DataSound
<1>5. InspectionDays(first) \subseteq Int /\ InspectionDays(first - MonthDays) \subseteq Int
  BY <1>4 DEF InspectionDays
<1> DEFINE days == InspectionDays(first)
           earlier == InspectionDays(first - MonthDays)
           On(some, now, before, a) == MovedBack(IF a \in some THEN MovedBack(A[a].created, before) ELSE A[a].created, now)
<1>6. PICK some \in SUBSET DOMAIN A, now \in days, before \in earlier, kept \in SUBSET inspection :
        /\ \A i \in inspection \ kept : ClientOf(i.asset) = c
        /\ inspection' = kept \cup {DemoInspection(a, now, "generate") : a \in DOMAIN A}
                              \cup {DemoInspection(a, before, "generate") : a \in some}
        /\ asset' = [a \in DOMAIN asset |->
             IF a \notin DOMAIN A THEN asset[a]
             ELSE [asset[a] EXCEPT !.setup = TRUE,
                                   !.created = IF On(some, now, before, a) # A[a].created
                                               THEN On(some, now, before, a) ELSE @]]
  <2>1. PICK reset \in BOOLEAN, some \in SUBSET DOMAIN A, now \in days, before \in earlier :
        LET kept == IF reset THEN {i \in inspection : ~(ClientOf(i.asset) = c /\ i.at >= day - 2 * MonthDays)}
                    ELSE inspection IN
        /\ inspection' = kept \cup {DemoInspection(a, now, "generate") : a \in DOMAIN A}
                              \cup {DemoInspection(a, before, "generate") : a \in some}
        /\ asset' = [a \in DOMAIN asset |->
             IF a \notin DOMAIN A THEN asset[a]
             ELSE [asset[a] EXCEPT !.setup = TRUE,
                                   !.created = IF On(some, now, before, a) # A[a].created
                                               THEN On(some, now, before, a) ELSE @]]
    BY DEF GenerateWrite
  <2> DEFINE kept == IF reset THEN {i \in inspection : ~(ClientOf(i.asset) = c /\ i.at >= day - 2 * MonthDays)}
                     ELSE inspection
  <2>2. kept \in SUBSET inspection /\ \A i \in inspection \ kept : ClientOf(i.asset) = c
    OBVIOUS
  <2> HIDE DEF kept, days, earlier, On
  <2> QED
    BY <2>1, <2>2 DEF kept
<1>7. now \in Int /\ before \in Int
  BY <1>5
<1> DEFINE on(a) == On(some, now, before, a)
<1>8. \A a \in DOMAIN A : /\ on(a) \in Int /\ on(a) <= A[a].created /\ on(a) <= now
                          /\ a \in some => on(a) <= before
  BY <1>2, <1>7, MovedDates
<1> HIDE DEF A, c, on, On, days, earlier, first
<1>9. DOMAIN asset' = DOMAIN asset
  BY <1>6
<1>10. \A a \in DOMAIN A : /\ AssetRow(asset'[a]) /\ asset'[a].site = asset[a].site
                           /\ asset'[a].created = IF on(a) # A[a].created THEN on(a) ELSE asset[a].created
  <2> SUFFICES ASSUME NEW a \in DOMAIN A
               PROVE  /\ AssetRow(asset'[a]) /\ asset'[a].site = asset[a].site
                      /\ asset'[a].created = IF on(a) # A[a].created THEN on(a) ELSE asset[a].created
    OBVIOUS
  <2> DEFINE t == IF on(a) # A[a].created THEN on(a) ELSE asset[a].created
             s == asset[a].site  g == asset[a].tagged  u == asset[a].setup  e == asset[a].created
  <2>1. asset'[a] = [asset[a] EXCEPT !.setup = TRUE, !.created = t]
    BY <1>1, <1>6 DEF on
  <2>2. asset[a] = [site |-> s, tagged |-> g, setup |-> u, created |-> e] /\ e \in Int /\ t \in Int
    BY <1>1, <1>3, <1>8 DEF AssetRow
  <2> HIDE DEF t, s, g, u, e
  <2>3. asset'[a] = [site |-> s, tagged |-> g, setup |-> TRUE, created |-> t]
    <3>1. PICK r : r = asset[a]
      OBVIOUS
    <3>2. r = [site |-> s, tagged |-> g, setup |-> u, created |-> e] /\ asset'[a] = [r EXCEPT !.setup = TRUE, !.created = t]
      BY <2>1, <2>2, <3>1
    <3> QED
      BY <3>2
  <2>4. AssetRow(asset'[a]) /\ asset'[a].site = s /\ asset'[a].created = t
    BY <2>2, <2>3 DEF AssetRow
  <2> QED
    BY <2>4 DEF s, t
<1>11. \A a \in DOMAIN asset : asset'[a].site = asset[a].site /\ AssetRow(asset'[a])
  <2>1. \A a \in DOMAIN asset : a \notin DOMAIN A => asset'[a] = asset[a]
    BY <1>6
  <2>2. ASSUME NEW a \in DOMAIN asset PROVE asset'[a].site = asset[a].site /\ AssetRow(asset'[a])
    <3>1. CASE a \in DOMAIN A
      BY <1>10, <3>1
    <3>2. CASE a \notin DOMAIN A
      <4>1. asset'[a] = asset[a] /\ AssetRow(asset[a])
        BY <1>3, <2>1, <3>2
      <4> QED
        BY <4>1
    <3> QED
      BY <3>1, <3>2
  <2> QED
    BY <2>2
<1>12. \A i \in inspection' : \/ i \in inspection
                              \/ i.asset \in DOMAIN A /\ i.at = now
                              \/ i.asset \in some /\ i.asset \in DOMAIN A /\ i.at = before
  <2>1. \A a : DemoInspection(a, now, "generate").asset = a /\ DemoInspection(a, now, "generate").at = now
    BY DEF DemoInspection
  <2>2. \A a : DemoInspection(a, before, "generate").asset = a /\ DemoInspection(a, before, "generate").at = before
    BY DEF DemoInspection
  <2>3. inspection' = kept \cup {DemoInspection(a, now, "generate") : a \in DOMAIN A}
                         \cup {DemoInspection(a, before, "generate") : a \in some}
    BY <1>6
  <2> QED
    BY <2>1, <2>2, <2>3
<1>13. \A a \in DOMAIN A : asset[a].created = A[a].created => asset'[a].created = on(a)
  BY <1>10
<1>14. \A i \in inspection' : (i.asset \in DOMAIN A /\ asset[i.asset].created = A[i.asset].created) =>
          i \in inspection \/ asset'[i.asset].created <= i.at
  BY <1>8, <1>12, <1>13
<1>15. \A i \in inspection \ inspection' : ClientOf(i.asset) = c
  BY <1>6
<1>16. \A a \in DOMAIN A : asset[a].created = A[a].created => asset'[a].created <= A[a].created
  BY <1>8, <1>13
<1>17. \A i \in inspection' \ inspection : i.asset \in DOMAIN A /\ i.at \in Int
  BY <1>7, <1>12
<1> QED
  BY <1>1, <1>9, <1>11, <1>14, <1>15, <1>16, <1>17 DEF Generated, A, c

(* A job has written, and the others are told. *)
LEMMA DemoJobsWrite ==
    ASSUME ClientsInv, DemoInv, NEW j \in Jobs, ClearDelete(j) \/ GenerateWrite(j) \/ RenewWrite(j)
    PROVE  DemoInv'
<1>1. Done(j) /\ UNCHANGED <<client, site, everDemo, day, nextId>>
  BY DEF ClearDelete, GenerateWrite, RenewWrite, history
<1>2. \A n : Used(n) => Used(n)'
  <2>1. \A k \in Jobs : job'[k] = IF k = j THEN EndOf(job[j]) ELSE [job[k] EXCEPT !.raced = job[k].op # "idle"]
    BY <1>1 DEF Done
  <2>2. job'[j].op # "duplicate"
    BY <2>1, IdleRecord
  <2>3. \A k \in Jobs : k # j => job'[k].op = job[k].op /\ job'[k].id = job[k].id
    BY <2>1, IdleRecord DEF ClientsInv, JobsTyped
  <2> QED
    BY <1>1, <2>2, <2>3 DEF Used
<1>3. /\ DOMAIN asset' = DOMAIN asset
      /\ \A a \in DOMAIN asset : asset'[a].site = asset[a].site /\ AssetRow(asset'[a])
      /\ \A i \in inspection' : i.asset \in DOMAIN asset /\ i.at \in Int
  <2>1. \A i \in inspection : i.asset \in DOMAIN asset /\ i.at \in Int
    BY DEF DemoInv, DataSound
  <2>2. asset' = asset => /\ DOMAIN asset' = DOMAIN asset
                          /\ \A a \in DOMAIN asset : asset'[a].site = asset[a].site /\ AssetRow(asset'[a])
    BY DEF DemoInv, DataSound
  <2>3. ASSUME ClearDelete(j) PROVE asset' = asset /\ inspection' \subseteq inspection
    BY <2>3 DEF ClearDelete
  <2>4. ASSUME RenewWrite(j)
        PROVE  asset' = asset /\ \A i \in inspection' : i \in inspection \/ (i.asset \in DOMAIN asset /\ i.at \in Int)
    <3> DEFINE A == IF Inspectors(job[j].client) = {} THEN {} ELSE DOMAIN job[j].assets
    <3>1. asset' = asset /\ A \subseteq DOMAIN asset
      BY <2>4 DEF RenewWrite
    <3> DEFINE days == InspectionDays(MonthStart(day))
    <3>2. PICK t \in days : inspection' = inspection \cup {DemoInspection(a, t, "renew") : a \in A}
      BY <2>4 DEF RenewWrite
    <3>3. t \in Int
      <4>1. MonthStart(day) \in Int /\ MonthDays \in Int
        BY ClientsAssumption DEF MonthStart, DemoInv, DataSound
      <4> QED
        BY <4>1 DEF InspectionDays
    <3> HIDE DEF A, days
    <3>4. \A a : DemoInspection(a, t, "renew").asset = a /\ DemoInspection(a, t, "renew").at = t
      BY DEF DemoInspection
    <3>5. ASSUME NEW i \in inspection' PROVE i \in inspection \/ (i.asset \in DOMAIN asset /\ i.at \in Int)
      BY <3>1, <3>2, <3>3, <3>4
    <3> QED
      BY <3>1, <3>5
  <2>5. ASSUME GenerateWrite(j)
        PROVE  /\ DOMAIN asset' = DOMAIN asset
               /\ \A a \in DOMAIN asset : asset'[a].site = asset[a].site /\ AssetRow(asset'[a])
               /\ \A i \in inspection' : i \in inspection \/ (i.asset \in DOMAIN asset /\ i.at \in Int)
    <3>1. PICK A, c : Generated(A, c)
      BY <2>5, GenerateWrites
    <3>2. /\ DOMAIN asset' = DOMAIN asset /\ DOMAIN A \subseteq DOMAIN asset
          /\ \A i \in inspection' \ inspection : i.asset \in DOMAIN A /\ i.at \in Int
      BY <3>1 DEF Generated
    <3>3. \A a \in DOMAIN asset : asset'[a].site = asset[a].site /\ AssetRow(asset'[a])
      BY <3>1 DEF Generated
    <3> QED
      BY <3>2, <3>3
  <2> QED
    BY <2>1, <2>2, <2>3, <2>4, <2>5
<1>4. DataSound'
  <2>1. \A a \in DOMAIN asset' : Used(a[1])' /\ AssetRow(asset[a])' /\ asset'[a].site \in DOMAIN site'
    BY <1>1, <1>2, <1>3 DEF DemoInv, DataSound, AssetRow
  <2>2. IsFiniteSet(DOMAIN asset')
    BY <1>3 DEF DemoInv, DataSound
  <2>3. /\ day' \in Int
        /\ \A c \in DOMAIN client' : client'[c].demo => c \in everDemo'
        /\ \A s \in DOMAIN site' : site'[s].client \in DOMAIN client'
    BY <1>1 DEF DemoInv, DataSound
  <2> QED
    BY <1>3, <2>1, <2>2, <2>3 DEF DataSound
<1>5. AssetsStay
  BY <1>1, <1>3 DEF AssetsStay
<1> QED
  BY <1>1, <1>4, <1>5, DemoWrites

(* Rows refer to rows that are there, and each job works on what it has    *)
(* read of a client that is or was in demo mode.                           *)
THEOREM DemoInvariant == ClientsSpec => []DemoInv
<1>1. ClientsInit => DemoInv
  <2> SUFFICES ASSUME ClientsInit PROVE DemoInv
    OBVIOUS
  <2>1. \A j \in Jobs : job[j].op = "idle"
    BY IdleRecord DEF ClientsInit
  <2>2. \A m : (m \in Nat /\ m < FirstId) => Used(m)
    BY <2>1 DEF ClientsInit, Used
  <2>3. DataSound
    BY <2>2, ClientsAssumption DEF ClientsInit, DataSound
  <2> QED
    BY <2>1, <2>3 DEF DemoInv, JobSound
<1>2. DemoInv /\ ClientsInv /\ [ClientSteps]_clientVars => DemoInv'
  <2> SUFFICES ASSUME DemoInv, ClientsInv, [ClientSteps]_clientVars PROVE DemoInv'
    OBVIOUS
  <2>1. CASE UNCHANGED clientVars
    <3>1. UNCHANGED <<client, site, asset, inspection, everDemo, day, nextId, job>>
      BY <2>1 DEF clientVars, tables, history
    <3> QED
      BY <3>1 DEF DemoInv, DataSound, JobSound, Used, AssetRow, ClientOf, Compliant
  <2>2. CASE ClientSteps
    <3>1. \A c : (\A s \in DOMAIN site : site[s].client \in {c} => s \in SitesOf(c))
      BY DEF SitesOf
    <3>2. ASSUME NEW c \in DOMAIN client, Remove(c) PROVE DemoInv'
      BY <3>1, <3>2, DemoCascades DEF Remove
    <3>3. ASSUME NEW s \in DOMAIN site, RemoveSite(s) PROVE DemoInv'
      BY <3>3, DemoCascades DEF RemoveSite
    <3>4. ASSUME NEW j \in Jobs, Cron(j) PROVE DemoInv'
      <4>1. PICK c : c \in DOMAIN client
        BY <3>4 DEF Cron
      <4> QED
        BY <3>4, <4>1, DemoRequests
    <3> QED
      BY <2>2, <3>2, <3>3, <3>4, DemoEdits, DemoRequests, DemoProgress, DemoCopied, DemoJobsWrite DEF ClientSteps
  <2> QED
    BY <2>1, <2>2
<1> QED
  BY <1>1, <1>2, ClientsInvariant, PTL DEF ClientsSpec

(* A step of ClientSteps that ends a job, or that writes inspections. *)
LEMMA JobMoves ==
    ASSUME ClientsInv, ClientSteps, NEW j \in Jobs, job'[j].pc # job[j].pc
    PROVE  \/ UNCHANGED <<client, asset, inspection>>
           \/ DuplicateCommit(j) \/ ClearDelete(j) \/ GenerateWrite(j) \/ RenewWrite(j)
<1> DEFINE Goal == \/ UNCHANGED <<client, asset, inspection>>
                   \/ DuplicateCommit(j) \/ ClearDelete(j) \/ GenerateWrite(j) \/ RenewWrite(j)
<1>1. job' # job
  OBVIOUS
<1>2. ASSUME NEW d, Create(d) PROVE FALSE
  BY <1>1, <1>2 DEF Create
<1>3. ASSUME NEW c, Update(c) PROVE FALSE
  BY <1>1, <1>3 DEF Update
<1>4. ASSUME NEW c, NEW S, Cascade(c, S) PROVE FALSE
  BY <1>1, <1>4 DEF Cascade
<1>5. ASSUME NEW c, NEW q, CreateSite(c, q) PROVE FALSE
  BY <1>1, <1>5 DEF CreateSite
<1>6. ASSUME NEW x, NEW s, AddMember(x, s) PROVE FALSE
  BY <1>1, <1>6 DEF AddMember
<1>7. NextDay => FALSE
  BY <1>1 DEF NextDay
<1>8. ASSUME NEW k, NEW op, NEW c, NEW q, Start(k, op, c, q) PROVE Goal
  BY <1>8 DEF Start, tables
<1>9. ASSUME NEW k, NEW q, Read(k, q) PROVE Goal
  BY <1>9 DEF Read, tables
<1>10. ASSUME NEW k, JobFails(k) PROVE Goal
  BY <1>10 DEF JobFails, tables
<1>11. ASSUME NEW k \in Jobs, DuplicateCommit(k) PROVE Goal
  <2>1. job' = [job EXCEPT ![k] = Idle]
    BY <1>11 DEF DuplicateCommit, Continue
  <2>2. k = j
    BY <2>1 DEF ClientsInv, JobsTyped
  <2> QED
    BY <1>11, <2>2
<1>12. ASSUME NEW k \in Jobs, ClearDelete(k) \/ GenerateWrite(k) \/ RenewWrite(k) PROVE Goal
  <2>1. Done(k)
    BY <1>12 DEF ClearDelete, GenerateWrite, RenewWrite
  <2>2. k # j => job'[j].pc = job[j].pc
    BY <2>1, IdleRecord DEF Done, ClientsInv, JobsTyped
  <2> QED
    BY <1>12, <2>2
<1> HIDE DEF Goal
<1>13. Goal
  <2>1. ASSUME NEW c, NEW k, Duplicate(k, c) \/ Clear(k, c) \/ Generate(k, c) \/ Renew(k, c) PROVE Goal
    BY <1>8, <2>1 DEF Duplicate, Clear, Generate, Renew
  <2>2. ASSUME NEW c, NEW k, DuplicateAssets(k) \/ Cron(k) \/ RenewRead(k) \/ RenewNext(k, c) PROVE Goal
    BY <1>8, <1>9, <2>2 DEF DuplicateAssets, Cron, RenewRead, RenewNext
  <2>3. ASSUME NEW k, DuplicateAssets(k) \/ Cron(k) \/ RenewRead(k) PROVE Goal
    BY <2>2, <2>3
  <2> QED
    BY <1>2, <1>3, <1>4, <1>5, <1>6, <1>7, <1>10, <1>11, <1>12, <2>1, <2>2, <2>3
    DEF ClientSteps, Remove, RemoveSite
<1> QED
  BY <1>13 DEF Goal

(* Inspections appear and disappear at clients only that were in demo mode *)
(* when a job looked.                                                      *)
LEMMA InspectionsWritten ==
    ASSUME DemoInv, ClientsInv, ClientSteps, NEW i, (i \in inspection) # (i \in inspection')
    PROVE  i.asset \in DOMAIN asset => ClientOf(i.asset) \in everDemo
<1>1. PICK j \in Jobs : ClearDelete(j) \/ GenerateWrite(j) \/ RenewWrite(j)
  <2>1. inspection' # inspection
    OBVIOUS
  <2>2. ASSUME NEW d, Create(d) PROVE FALSE
    BY <2>1, <2>2 DEF Create
  <2>3. ASSUME NEW c, Update(c) PROVE FALSE
    BY <2>1, <2>3 DEF Update
  <2>4. ASSUME NEW c, NEW S, Cascade(c, S) PROVE FALSE
    BY <2>1, <2>4 DEF Cascade
  <2>5. ASSUME NEW c, NEW q, CreateSite(c, q) PROVE FALSE
    BY <2>1, <2>5 DEF CreateSite
  <2>6. ASSUME NEW x, NEW s, AddMember(x, s) PROVE FALSE
    BY <2>1, <2>6 DEF AddMember
  <2>7. NextDay => FALSE
    BY <2>1 DEF NextDay, tables
  <2>8. ASSUME NEW k, NEW op, NEW c, NEW q, Start(k, op, c, q) PROVE FALSE
    BY <2>1, <2>8 DEF Start, tables
  <2>9. ASSUME NEW k, NEW q, Read(k, q) PROVE FALSE
    BY <2>1, <2>9 DEF Read, tables
  <2>10. ASSUME NEW k, JobFails(k) \/ DuplicateCommit(k) PROVE FALSE
    BY <2>1, <2>10 DEF JobFails, DuplicateCommit, tables
  <2>11. ASSUME NEW c, NEW k, Duplicate(k, c) \/ Clear(k, c) \/ Generate(k, c) \/ Renew(k, c) PROVE FALSE
    BY <2>8, <2>11 DEF Duplicate, Clear, Generate, Renew
  <2>12. ASSUME NEW c, NEW k, RenewNext(k, c) PROVE FALSE
    BY <2>9, <2>12 DEF RenewNext
  <2>13. ASSUME NEW k, DuplicateAssets(k) \/ Cron(k) \/ RenewRead(k) PROVE FALSE
    BY <2>8, <2>9, <2>13 DEF DuplicateAssets, Cron, RenewRead
  <2> QED
    BY <2>2, <2>3, <2>4, <2>5, <2>6, <2>7, <2>10, <2>11, <2>12, <2>13 DEF ClientSteps, Remove, RemoveSite
<1>2. job[j].client \in everDemo
  BY <1>1 DEF ClearDelete, GenerateWrite, RenewWrite, DemoInv, JobSound
<1>3. ASSUME ClearDelete(j) PROVE ClientOf(i.asset) = job[j].client
  BY <1>3 DEF ClearDelete
<1>4. ASSUME GenerateWrite(j), i.asset \in DOMAIN asset PROVE ClientOf(i.asset) = job[j].client
  <2>1. PICK A, c : A = job[j].assets /\ c = job[j].client
    OBVIOUS
  <2>2. Generated(A, c) /\ job[j].op = "generate"
    BY <1>4, <2>1, GenerateWrites DEF GenerateWrite
  <2>3. \A a \in DOMAIN A : a \in DOMAIN asset => ClientOf(a) = c
    BY <2>1, <2>2 DEF DemoInv, JobSound
  <2>4. i \in inspection' => i.asset \in DOMAIN A
    BY <2>2 DEF Generated
  <2>5. i \in inspection => ClientOf(i.asset) = c
    BY <2>2 DEF Generated
  <2> QED
    BY <1>4, <2>1, <2>3, <2>4, <2>5
<1>5. ASSUME RenewWrite(j), i.asset \in DOMAIN asset PROVE ClientOf(i.asset) = job[j].client
  <2> DEFINE A == IF Inspectors(job[j].client) = {} THEN {} ELSE DOMAIN job[j].assets
             days == InspectionDays(MonthStart(day))
  <2>1. PICK t \in days : inspection' = inspection \cup {DemoInspection(a, t, "renew") : a \in A}
    BY <1>5 DEF RenewWrite
  <2>2. A \subseteq DOMAIN job[j].assets
    OBVIOUS
  <2> HIDE DEF A, days
  <2>3. \A a : DemoInspection(a, t, "renew").asset = a
    BY DEF DemoInspection
  <2>4. i.asset \in DOMAIN job[j].assets
    BY <2>1, <2>2, <2>3
  <2> QED
    BY <1>5, <2>4 DEF RenewWrite, DemoInv, JobSound
<1> QED
  BY <1>1, <1>2, <1>3, <1>4, <1>5

(* The sites T mirror the sites S with their assets A. *)
Mirror(S, A, T) ==
    \E f \in [DOMAIN S -> T] :
       /\ \A t \in T : \E s \in DOMAIN S : f[s] = t
       /\ \A s, t \in DOMAIN S : s # t => f[s] # f[t]
       /\ \A s \in DOMAIN S :
              site'[f[s]].parent = IF S[s].parent \in DOMAIN S THEN f[S[s].parent] ELSE NoClient
       /\ \A s \in DOMAIN S :
              Cardinality({a \in DOMAIN A : A[a].site = s})
              = Cardinality({a \in DOMAIN asset' : asset'[a].site = f[s]})

(* The sites that were written mirror those that were read.               *)
LEMMA CopyIsMirror ==
    ASSUME NEW n, NEW S, NEW A, CopyWritten(n, S, A), DataSound, IsFiniteSet(DOMAIN A), IdsUsed, ~Used(n),
           NEW T, T = {s \in DOMAIN site' : site'[s].client = <<n>>}
    PROVE  Mirror(S, A, T)
<1>1. ASSUME NEW s \in DOMAIN S
      PROVE  /\ site'[<<n, s>>].client = <<n>> /\ <<n, s>> \in DOMAIN site'
             /\ site'[<<n, s>>].parent = IF S[s].parent \in DOMAIN S THEN <<n, S[s].parent>> ELSE NoClient
  <2> DEFINE p == IF S[s].parent \in DOMAIN S THEN <<n, S[s].parent>> ELSE NoClient
  <2>1. site'[<<n, s>>] = [client |-> <<n>>, parent |-> p] /\ <<n, s>> \in DOMAIN site'
    BY DEF CopyWritten
  <2> HIDE DEF p
  <2>2. site'[<<n, s>>].client = <<n>> /\ site'[<<n, s>>].parent = p
    BY <2>1
  <2> QED
    BY <2>1, <2>2 DEF p
<1>2. \A t \in T : \E s \in DOMAIN S : t = <<n, s>>
  BY DEF CopyWritten
<1> DEFINE f == [s \in DOMAIN S |-> <<n, s>>]
<1>3. f \in [DOMAIN S -> T] /\ \A s \in DOMAIN S : f[s] = <<n, s>>
  BY <1>1
<1> HIDE DEF f
<1>4. \A t \in T : \E s \in DOMAIN S : f[s] = t
  BY <1>2, <1>3
<1>5. \A s, t \in DOMAIN S : s # t => f[s] # f[t]
  <2>1. \A s, t : <<n, s>> = <<n, t>> => s = t
    OBVIOUS
  <2> QED
    BY <1>3, <2>1
<1>6. \A s \in DOMAIN S :
         site'[f[s]].parent = IF S[s].parent \in DOMAIN S THEN f[S[s].parent] ELSE NoClient
  BY <1>1, <1>3
<1>7. ASSUME NEW s \in DOMAIN S
      PROVE  Cardinality({a \in DOMAIN A : A[a].site = s})
             = Cardinality({a \in DOMAIN asset' : asset'[a].site = f[s]})
  <2> DEFINE X == {a \in DOMAIN A : A[a].site = s}
             Y == {a \in DOMAIN asset' : asset'[a].site = f[s]}
  <2>1. ASSUME NEW a \in X PROVE <<n, a>> \in Y
    <3>1. a \in DOMAIN A /\ A[a].site = s
      OBVIOUS
    <3> DEFINE r == <<n, A[a].site>>  g == A[a].tagged
    <3>2. asset'[<<n, a>>] = [site |-> r, tagged |-> g, setup |-> FALSE, created |-> day]
      BY <3>1 DEF CopyWritten
    <3>3. <<n, a>> \in DOMAIN asset'
      BY <3>1 DEF CopyWritten
    <3>4. r = f[s]
      BY <1>3, <3>1
    <3> HIDE DEF r, g
    <3>5. asset'[<<n, a>>].site = r
      BY <3>2
    <3> QED
      BY <3>3, <3>4, <3>5
  <2>2. ASSUME NEW b \in Y PROVE \E a \in X : b = <<n, a>>
    <3>1. b \in DOMAIN asset' /\ asset'[b].site = <<n, s>>
      BY <1>3
    <3>2. b \notin DOMAIN asset
      <4> SUFFICES ASSUME b \in DOMAIN asset PROVE FALSE
        OBVIOUS
      <4>1. asset[b].site \in DOMAIN site /\ asset'[b] = asset[b]
        BY DEF DataSound, CopyWritten
      <4>2. \A x \in DOMAIN site : x[1] # n
        BY DEF IdsUsed
      <4>3. <<n, s>>[1] = n
        OBVIOUS
      <4>4. <<n, s>> \in DOMAIN site
        BY <3>1, <4>1
      <4> QED
        BY <4>2, <4>3, <4>4
    <3>3. PICK a \in DOMAIN A : A[a].site \in DOMAIN S /\ b = <<n, a>>
      BY <3>1, <3>2 DEF CopyWritten
    <3> DEFINE r == <<n, A[a].site>>  g == A[a].tagged
    <3>4. asset'[b] = [site |-> r, tagged |-> g, setup |-> FALSE, created |-> day]
      BY <3>3 DEF CopyWritten
    <3> HIDE DEF r, g
    <3>5. asset'[b].site = r
      BY <3>4
    <3>6. <<n, A[a].site>> = <<n, s>>
      BY <3>1, <3>5 DEF r
    <3>7. A[a].site = s
      BY <3>6
    <3> QED
      BY <3>3, <3>7
  <2>3. \A y : y \in Y <=> \E x \in X : y = <<n, x>>
    <3> HIDE DEF X, Y
    <3> QED
      BY <2>1, <2>2
  <2>4. IsFiniteSet(X)
    <3>1. X \subseteq DOMAIN A
      OBVIOUS
    <3> HIDE DEF X
    <3> QED
      BY <3>1, FS_Subset
  <2> HIDE DEF X, Y
  <2>5. Cardinality(Y) = Cardinality(X)
    <3>1. PICK x, y : x = X /\ y = Y
      OBVIOUS
    <3>2. IsFiniteSet(x) /\ \A b : b \in y <=> \E a \in x : b = <<n, a>>
      BY <2>3, <2>4, <3>1
    <3>3. Cardinality(y) = Cardinality(x)
      BY <3>2, CopiesCount
    <3> QED
      BY <3>1, <3>3
  <2> QED
    BY <2>5 DEF X, Y
<1> QED
  BY <1>3, <1>4, <1>5, <1>6, <1>7 DEF Mirror

(* The jobs on demo clients, overlapping one another and every edit of     *)
(* clients, sites and members: a copy mirrors what was read, real clients  *)
(* keep their inspections, and what is generated or renewed is dated right *)
(* and due, unless two jobs raced (duplicateDemo,                          *)
(* generateInspectionsForDemoClient, renewNoncompliantDemoAssets).         *)
THEOREM DemoJobsStayApart == ClientsSpec => DemoJobsApart
<1>1. ClientsInv /\ DemoInv /\ [ClientSteps]_clientVars =>
        [\A c \in DOMAIN client \ everDemo :
           c \in DOMAIN client' =>
              {i \in inspection' : i.asset \in AssetsOf(c)}
              = {i \in inspection : i.asset \in AssetsOf(c)}]_clientVars
  <2> SUFFICES ASSUME ClientsInv, DemoInv, ClientSteps, NEW c \in DOMAIN client \ everDemo
               PROVE  {i \in inspection' : i.asset \in AssetsOf(c)} = {i \in inspection : i.asset \in AssetsOf(c)}
    OBVIOUS
  <2>1. ASSUME NEW i, i.asset \in AssetsOf(c) PROVE i \in inspection' <=> i \in inspection
    <3>1. i.asset \in DOMAIN asset /\ ClientOf(i.asset) \notin everDemo
      BY <2>1 DEF AssetsOf
    <3> QED
      BY <3>1, InspectionsWritten
  <2> QED
    BY <2>1
<1>2. ClientsInv /\ DemoInv /\ [ClientSteps]_clientVars =>
        [\A c \in DOMAIN client' \ DOMAIN client, j \in Jobs :
         job[j].pc = "members" /\ job'[j].pc = "idle" =>
            LET S == job[j].sites
                T == {s \in DOMAIN site' : site'[s].client = c}
            IN \E f \in [DOMAIN S -> T] :
                 /\ \A t \in T : \E s \in DOMAIN S : f[s] = t
                 /\ \A s, t \in DOMAIN S : s # t => f[s] # f[t]
                 /\ \A s \in DOMAIN S :
                        site'[f[s]].parent = IF S[s].parent \in DOMAIN S
                                             THEN f[S[s].parent] ELSE NoClient
                 /\ \A s \in DOMAIN S :
                        Cardinality({a \in DOMAIN job[j].assets : job[j].assets[a].site = s})
                        = Cardinality({a \in DOMAIN asset' : asset'[a].site = f[s]})]_clientVars
  <2> SUFFICES ASSUME ClientsInv, DemoInv, ClientSteps, NEW c \in DOMAIN client' \ DOMAIN client, NEW j \in Jobs,
                      job[j].pc = "members", job'[j].pc = "idle"
               PROVE  LET S == job[j].sites
                          T == {s \in DOMAIN site' : site'[s].client = c}
                      IN \E f \in [DOMAIN S -> T] :
                           /\ \A t \in T : \E s \in DOMAIN S : f[s] = t
                           /\ \A s, t \in DOMAIN S : s # t => f[s] # f[t]
                           /\ \A s \in DOMAIN S :
                                  site'[f[s]].parent = IF S[s].parent \in DOMAIN S
                                                       THEN f[S[s].parent] ELSE NoClient
                           /\ \A s \in DOMAIN S :
                                  Cardinality({a \in DOMAIN job[j].assets : job[j].assets[a].site = s})
                                  = Cardinality({a \in DOMAIN asset' : asset'[a].site = f[s]})
    OBVIOUS
  <2>1. DuplicateCommit(j)
    BY JobMoves DEF ClearDelete, GenerateWrite, RenewWrite
  <2>2. ASSUME NEW S, S = job[j].sites, NEW A, A = job[j].assets, NEW T, T = {s \in DOMAIN site' : site'[s].client = c}
        PROVE  Mirror(S, A, T)
    <3>1. PICK n : n = job[j].id
      OBVIOUS
    <3>2. CopyWritten(n, S, A) /\ ~Used(n)
      BY <2>1, <2>2, <3>1, CopyWrites
    <3>3. c = <<n>>
      BY <3>2 DEF CopyWritten
    <3>4. IsFiniteSet(DOMAIN A)
      BY <2>1, <2>2 DEF DuplicateCommit, DemoInv, JobSound
    <3>5. DataSound /\ IdsUsed
      BY DEF DemoInv, ClientsInv
    <3>6. T = {s \in DOMAIN site' : site'[s].client = <<n>>}
      BY <2>2, <3>3
    <3> QED
      BY <3>2, <3>4, <3>5, <3>6, CopyIsMirror
  <2>3. PICK S, A, T : S = job[j].sites /\ A = job[j].assets /\ T = {s \in DOMAIN site' : site'[s].client = c}
    OBVIOUS
  <2>4. Mirror(job[j].sites, job[j].assets, {s \in DOMAIN site' : site'[s].client = c})
    BY <2>2, <2>3
  <2> QED
    BY <2>4 DEF Mirror
<1>3. DemoInv /\ [ClientSteps]_clientVars =>
        [\A j \in Jobs : job[j].op = "renew" /\ job[j].pc = "write"
            /\ job'[j].pc = "idle" /\ inspection' # inspection =>
         \A a \in DOMAIN job[j].assets : Compliant(a) => job[j].raced]_clientVars
  BY DEF DemoInv, JobSound
<1>4. ClientsInv /\ DemoInv /\ [ClientSteps]_clientVars =>
        [\A j \in Jobs : job[j].op = "generate" /\ job'[j].pc = "idle" /\ ~job[j].raced =>
         \A i \in inspection' : i.by = "generate" /\ i.asset \in DOMAIN job[j].assets
                                 =>
              \/ i.at >= asset'[i.asset].created
              \/ \E k \in inspection : k = i /\ k.at < asset[i.asset].created]_clientVars
  <2> SUFFICES ASSUME ClientsInv, DemoInv, ClientSteps, NEW j \in Jobs, job[j].op = "generate",
                      job'[j].pc = "idle", ~job[j].raced,
                      NEW i \in inspection', i.asset \in DOMAIN job[j].assets
               PROVE  i.at >= asset'[i.asset].created \/ (i \in inspection /\ i.at < asset[i.asset].created)
    OBVIOUS
  <2>1. job[j].pc # "idle"
    BY DEF DemoInv, JobSound
  <2>2. CASE UNCHANGED <<asset, inspection>>
    <3>1. i \in inspection /\ i.at \in Int /\ asset[i.asset].created \in Int
      BY <2>2 DEF DemoInv, DataSound, AssetRow
    <3> QED
      BY <2>2, <3>1
  <2>3. CASE GenerateWrite(j)
    <3>1. PICK A : A = job[j].assets
      OBVIOUS
    <3>2. PICK c : Generated(A, c)
      BY <2>3, <3>1, GenerateWrites
    <3>3. i.asset \in DOMAIN A /\ i.asset \in DOMAIN asset /\ i.asset \in DOMAIN asset'
      BY <3>1, <3>2 DEF Generated
    <3>4. asset[i.asset].created = A[i.asset].created /\ A[i.asset].created \in Int
      BY <3>1, <3>3 DEF DemoInv, JobSound
    <3>5. asset'[i.asset].created \in Int /\ i.at \in Int
      BY <3>2, <3>3 DEF Generated, AssetRow, DemoInv, DataSound
    <3>6. asset'[i.asset].created <= asset[i.asset].created
      BY <3>2, <3>3, <3>4 DEF Generated
    <3>7. i \in inspection \/ asset'[i.asset].created <= i.at
      BY <3>2, <3>3, <3>4 DEF Generated
    <3>8. i.at < asset[i.asset].created \/ i.at >= asset[i.asset].created
      BY <3>4, <3>5
    <3> QED
      BY <3>4, <3>5, <3>6, <3>7, <3>8
  <2> QED
    BY <2>1, <2>2, <2>3, JobMoves DEF DuplicateCommit, ClearDelete, RenewWrite
<1> QED
  BY <1>1, <1>2, <1>3, <1>4, ClientsInvariant, DemoInvariant, PTL
  DEF ClientsSpec, DemoJobsApart, RealClientsUntouched, CopyMirrors, RenewedTwiceOnlyByRace, GeneratedAfterCreation
-----------------------------------------------------------------------------
(* The history of compliance *)

(* A set of numbers has a least one. *)
LEMMA LeastNumber ==
    ASSUME NEW T, T \subseteq Nat, T # {}
    PROVE  \E x \in T : \A y \in T : x <= y
<1>1. \E x \in T : \A y \in T : ~(<<y, x>> \in OpToRel(<, Nat))
  BY NatLessThanWellFounded, WFMin, Zenon
<1>2. PICK x \in T : \A y \in T : ~(<<y, x>> \in OpToRel(<, Nat))
  BY <1>1, Zenon
<1>3. \A y \in T : ~(y < x)
  BY <1>2 DEF OpToRel
<1> QED
  BY <1>3

(* A set of numbers below a bound has a greatest one. *)
LEMMA GreatestNumber ==
    ASSUME NEW S, S \subseteq Nat, S # {}, NEW b \in Nat, \A t \in S : t <= b
    PROVE  Sets!Max(S) \in S /\ \A t \in S : Sets!Max(S) >= t
<1> DEFINE T == {b - t : t \in S}
<1>1. \A t \in S : b - t \in Nat
  OBVIOUS
<1>2. T \subseteq Nat /\ T # {}
  BY <1>1
<1>3. \E x \in T : \A y \in T : x <= y
  <2> HIDE DEF T
  <2> QED
    BY <1>2, LeastNumber
<1>4. PICK x \in T : \A y \in T : x <= y
  BY <1>3
<1>5. PICK m \in S : x = b - m
  OBVIOUS
<1>6. \A t \in S : m >= t
  <2> SUFFICES ASSUME NEW t \in S PROVE m >= t
    OBVIOUS
  <2>1. b - t \in T /\ t \in Nat /\ m \in Nat
    OBVIOUS
  <2> QED
    BY <1>4, <1>5, <2>1
<1>7. \E y \in S : \A t \in S : y >= t
  BY <1>6
<1> QED
  BY <1>7 DEF Sets!Max

(* The greatest of a set is unique. *)
LEMMA MaxIs ==
    ASSUME NEW S, S \subseteq Int, NEW m \in S, \A t \in S : m >= t
    PROVE  Sets!Max(S) = m
<1> PICK x : x = Sets!Max(S)
  OBVIOUS
<1>1. x \in S /\ \A t \in S : x >= t
  BY DEF Sets!Max
<1>2. x \in Int /\ m \in Int /\ x >= m /\ m >= x
  BY <1>1
<1> QED
  BY <1>2

(* Inspections that are passed by those of M do not change a status. *)
LEMMA SameStatus ==
    ASSUME NEW S, S \subseteq Nat, NEW M \in SUBSET S, NEW b \in Nat, \A t \in S : t <= b,
           NEW d \in Int, NEW c,
           \A t \in S : t < d => \E m \in M : m < d /\ t <= m
    PROVE  Status(M, c, d) = Status(S, c, d)
<1> DEFINE P(X) == {t \in X : t < d}
<1>1. CASE P(S) = {}
  <2>1. P(M) = {}
    BY <1>1
  <2> QED
    BY <1>1, <2>1 DEF Status
<1>2. CASE P(S) # {}
  <2>1. P(S) \subseteq Nat /\ \A t \in P(S) : t <= b
    OBVIOUS
  <2> PICK x : x = Sets!Max(P(S))
    OBVIOUS
  <2>2. x \in P(S) /\ \A t \in P(S) : x >= t
    <3> HIDE DEF P
    <3> QED
      BY <1>2, <2>1, GreatestNumber
  <2>3. PICK m \in M : m < d /\ x <= m
    BY <2>2
  <2>4. m = x
    BY <2>1, <2>2, <2>3
  <2>5. P(M) \subseteq Int /\ x \in P(M) /\ \A t \in P(M) : x >= t
    <3>1. P(M) \subseteq P(S)
      OBVIOUS
    <3>2. x \in P(M)
      BY <2>2, <2>3, <2>4
    <3> QED
      BY <2>1, <2>2, <3>1, <3>2
  <2>6. Sets!Max(P(M)) = x
    <3> HIDE DEF P
    <3> QED
      BY <2>5, MaxIs
  <2>7. P(M) # {} /\ Sets!Max(P(M)) = Sets!Max(P(S))
    BY <2>5, <2>6
  <2> QED
    BY <1>2, <2>7 DEF Status
<1> QED
  BY <1>1, <1>2

(* An asset is compliant on a date when it was inspected within its cycle. *)
LEMMA StatusMeans ==
    ASSUME NEW S, S \subseteq Nat, NEW b \in Nat, \A t \in S : t <= b, NEW d \in Int, NEW c \in Nat
    PROVE  Status(S, c, d) \in {"COMPLIANT_DUE_LATER", "COMPLIANT_DUE_SOON"}
           <=> ~\A t \in S : t < d => d - t >= 4 * c
<1> DEFINE P == {t \in S : t < d}
           soon == Sets!Max({c - 7, c \div 2})
           days == DaysBetween(d, Sets!Max(P))
<1>1. CASE P = {}
  BY <1>1 DEF Status
<1>2. CASE P # {}
  <2>1. P \subseteq Nat /\ \A t \in P : t <= b
    OBVIOUS
  <2> PICK x : x = Sets!Max(P)
    OBVIOUS
  <2>2. x \in P /\ \A t \in P : x >= t
    <3> HIDE DEF P
    <3> QED
      BY <1>2, <2>1, GreatestNumber
  <2>3. soon = c - 7 \/ soon = c \div 2
    <3>1. c - 7 \in Int /\ c \div 2 \in Int
      OBVIOUS
    <3>2. CASE c - 7 >= c \div 2
      <4>1. soon = c - 7
        BY <3>1, <3>2, MaxIs
      <4> QED
        BY <4>1
    <3>3. CASE ~(c - 7 >= c \div 2)
      <4>1. soon = c \div 2
        BY <3>1, <3>3, MaxIs
      <4> QED
        BY <4>1
    <3> QED
      BY <3>2, <3>3
  <2> HIDE DEF soon
  <2>4. soon \in Int /\ soon <= c
    BY <2>3
  <2>5. days = (d - x) \div 4 /\ days \in Int /\ x \in Nat /\ x < d
    BY <2>2 DEF DaysBetween
  <2>6. days < c <=> d - x < 4 * c
    BY <2>5
  <2>7. (\A t \in S : t < d => d - t >= 4 * c) <=> d - x >= 4 * c
    BY <2>2, <2>5
  <2>8. Status(S, c, d) = IF days < soon THEN "COMPLIANT_DUE_LATER"
                          ELSE IF days < c THEN "COMPLIANT_DUE_SOON" ELSE "NON_COMPLIANT_INSPECTED"
    BY <1>2 DEF Status, soon
  <2> HIDE DEF days, P
  <2> QED
    BY <2>4, <2>5, <2>6, <2>7, <2>8
<1> QED
  BY <1>1, <1>2

(* The last of a set of inspections. *)
LEMMA LatestIs ==
    ASSUME NEW S, S \subseteq Nat, NEW b \in Nat, \A t \in S : t <= b
    PROVE  Latest(S) \subseteq S /\ \A t \in S : \E m \in Latest(S) : t <= m
<1>1. CASE S = {}
  BY <1>1 DEF Latest
<1>2. CASE S # {}
  <2>1. Sets!Max(S) \in S /\ \A t \in S : Sets!Max(S) >= t
    BY <1>2, GreatestNumber
  <2>2. Latest(S) = {Sets!Max(S)}
    BY <1>2 DEF Latest
  <2> QED
    BY <2>1, <2>2
<1> QED
  BY <1>1, <1>2

QueryFields == {"pc", "months", "client", "cycle", "cutoff", "began", "before", "after", "todo"}

TimesSound ==
    /\ clock \in Nat /\ clock % 2 = 0 /\ inService \subseteq Tracked /\ DOMAIN times = Tracked
    /\ \A a \in Tracked : \A t \in times[a] : t \in Nat /\ t % 2 = 0 /\ t <= clock

QuerySound ==
    query.pc # "idle" =>
      /\ DOMAIN query = QueryFields /\ query.months \in 1..3 /\ query.cycle \in Nat
      /\ query.began \in Nat /\ query.began <= clock /\ query.began % 2 = 0
      /\ query.cutoff = IF query.months = 1 THEN query.began + 1
                        ELSE StartOfMonth(query.began) - query.months * MonthLength
      /\ query.months = 1 => query.after = <<>> /\ "after" \notin query.todo

(* The inspections of an asset before u: no more will come. *)
Settled(a, u) == u \in query.began..(clock + 1) /\ (u = clock + 1 => clock \in times[a])
Until(a, u) == {t \in times[a] : t < u}

(* What was read of an asset is what there is, up to a time within the run *)
(* of the request.                                                         *)
BeforeRead(a) ==
    IF query.months = 1 THEN \E u \in Nat : Settled(a, u) /\ query.before[a] = Latest(Until(a, u))
    ELSE query.before[a] = Latest({t \in times[a] : t <= query.cutoff})
AfterRead(a) == \E u \in Nat : Settled(a, u) /\ query.after[a] = {t \in Until(a, u) : t >= query.cutoff}

ReadsSound ==
    query.pc = "read" =>
      /\ "before" \notin query.todo =>
           /\ DOMAIN query.before \subseteq Tracked
           /\ \A a \in Tracked \ touched : a \in DOMAIN query.before <=> a \in Seen
           /\ \A a \in DOMAIN query.before : BeforeRead(a)
      /\ ("after" \notin query.todo /\ query.months > 1) =>
           /\ DOMAIN query.after \subseteq Tracked
           /\ \A a \in Tracked \ touched : a \in DOMAIN query.after <=> a \in Seen
           /\ \A a \in DOMAIN query.after : AfterRead(a)

ComplianceInv == TimesSound /\ QuerySound /\ ReadsSound /\ HistoryTrue

(* A month begins at most its length ago. *)
LEMMA MonthBegins ==
    ASSUME NEW t \in Nat
    PROVE  StartOfMonth(t) \in Int /\ StartOfMonth(t) <= t /\ StartOfMonth(t) > t - MonthLength
<1>1. MonthLength \in Nat /\ MonthLength > 0
  BY ComplianceAssumption
<1>2. t % MonthLength \in 0..(MonthLength - 1)
  BY <1>1
<1> QED
  BY <1>1, <1>2 DEF StartOfMonth

(* Every date of a history over several months is after the cutoff, which  *)
(* is before the request.                                                  *)
LEMMA DatesAfterCutoff ==
    ASSUME TimesSound, QuerySound, query.pc # "idle", query.months > 1
    PROVE  /\ query.cutoff \in Int /\ query.cutoff < query.began
           /\ \A n \in 1..query.months : DateOf(n) \in Int /\ DateOf(n) > query.cutoff
<1> PICK L : L = MonthLength
  OBVIOUS
<1> PICK m, b, c : m = query.months /\ b = query.began /\ c = query.cutoff
  OBVIOUS
<1>1. L \in Nat /\ L > 0
  BY ComplianceAssumption
<1>2. m \in 2..3 /\ b \in Nat /\ b <= clock /\ clock \in Nat /\ c = StartOfMonth(b) - m * L
  BY DEF QuerySound, TimesSound
<1> PICK x, y : x = StartOfMonth(b) /\ y = StartOfMonth(clock)
  OBVIOUS
<1>3. x \in Int /\ y \in Int /\ x <= b /\ y > clock - L
  BY <1>2, MonthBegins
<1>4. c \in Int /\ c < b
  BY <1>1, <1>2, <1>3
<1>5. ASSUME NEW n \in 1..m PROVE DateOf(n) \in Int /\ DateOf(n) > c
  <2>1. CASE n = 1
    BY <1>2, <1>4, <2>1 DEF DateOf
  <2>2. CASE n # 1
    <3>1. DateOf(n) = y - (n - 2) * L - 1
      BY <2>2 DEF DateOf
    <3>2. (m = 2 /\ n = 2) \/ (m = 3 /\ n = 2) \/ (m = 3 /\ n = 3)
      BY <1>2, <2>2
    <3> QED
      BY <1>1, <1>2, <1>3, <3>1, <3>2
  <2> QED
    BY <2>1, <2>2
<1> QED
  BY <1>4, <1>5

(* While a request runs: what was settled stays. *)
LEMMA SettledStays ==
    ASSUME TimesSound, QuerySound, query.pc # "idle", NEW a \in Tracked, NEW u \in Nat, Settled(a, u),
           query' = query, clock' = clock \/ (clock' = clock + 2 /\ times' = times),
           times'[a] = times[a] \/ times'[a] = times[a] \cup {clock}
    PROVE  Settled(a, u)' /\ Until(a, u)' = Until(a, u)
<1> PICK b, T : b = query.began /\ T = times[a]
  OBVIOUS
<1>1. b \in Nat /\ clock \in Nat /\ u \in b..(clock + 1) /\ (u = clock + 1 => clock \in T)
  BY DEF TimesSound, QuerySound, Settled
<1>2. Settled(a, u)'
  <2>1. u \in b..(clock' + 1) /\ (u = clock' + 1 => clock' \in times'[a])
    BY <1>1
  <2> QED
    BY <2>1 DEF Settled
<1>3. {t \in T \cup {clock} : t < u} = {t \in T : t < u}
  BY <1>1
<1> QED
  BY <1>2, <1>3 DEF Until

(* Assets are inspected, go into and out of service, and time passes. *)
LEMMA RequestRuns ==
    ASSUME ComplianceInv, query.pc = "read", query' = query,
           \/ Visit \/ SetActive \/ Later
    PROVE  ComplianceInv'
<1>0. TimesSound /\ QuerySound /\ ReadsSound /\ query.pc # "idle"
  BY DEF ComplianceInv
<1>1. /\ clock' = clock \/ (clock' = clock + 2 /\ times' = times)
      /\ touched \subseteq touched' /\ \A a \in Tracked \ touched' : a \in inService' <=> a \in inService
      /\ inService' \subseteq Tracked
  BY <1>0 DEF Visit, SetActive, Later, TimesSound
<1>2. DOMAIN times' = Tracked /\ \A a \in Tracked : times'[a] = times[a] \/ times'[a] = times[a] \cup {clock}
  BY <1>0 DEF Visit, SetActive, Later, TimesSound
<1>3. clock \in Nat /\ clock' \in Nat /\ clock' >= clock /\ clock' % 2 = 0
  BY <1>0, <1>1 DEF TimesSound
<1>4. TimesSound'
  <2>1. ASSUME NEW a \in Tracked, NEW t \in times'[a] PROVE t \in Nat /\ t % 2 = 0 /\ t <= clock'
    <3>1. t \in times[a] \/ t = clock
      BY <1>2
    <3>2. t \in Nat /\ t % 2 = 0 /\ t <= clock
      BY <1>0, <3>1 DEF TimesSound
    <3> QED
      BY <1>3, <3>2
  <2> QED
    BY <1>1, <1>2, <1>3, <2>1 DEF TimesSound
<1>5. QuerySound'
  BY <1>0, <1>3 DEF QuerySound
<1>6. \A a \in Tracked \ touched' : a \in Seen' <=> a \in Seen
  BY <1>1 DEF Seen
<1>7. \A a \in Tracked : BeforeRead(a) => BeforeRead(a)'
  <2> SUFFICES ASSUME NEW a \in Tracked, BeforeRead(a) PROVE BeforeRead(a)'
    OBVIOUS
  <2>1. CASE query.months = 1
    <3>1. PICK u \in Nat : Settled(a, u) /\ query.before[a] = Latest(Until(a, u))
      BY <2>1 DEF BeforeRead
    <3>2. Settled(a, u)' /\ Until(a, u)' = Until(a, u)
      BY <1>0, <1>1, <1>2, <3>1, SettledStays
    <3>3. Latest(Until(a, u))' = Latest(Until(a, u))
      BY <3>2 DEF Latest
    <3> QED
      BY <2>1, <3>1, <3>2, <3>3 DEF BeforeRead
  <2>2. CASE query.months # 1
    <3>0. query.months > 1
      BY <1>0, <2>2 DEF QuerySound
    <3> PICK c : c = query.cutoff
      OBVIOUS
    <3>1. c \in Int /\ c < clock
      <4>1. c \in Int /\ c < query.began /\ query.began \in Nat /\ query.began <= clock
        BY <1>0, <3>0, DatesAfterCutoff DEF QuerySound
      <4> QED
        BY <1>3, <4>1
    <3>2. {t \in times'[a] : t <= c} = {t \in times[a] : t <= c}
      BY <1>2, <1>3, <3>1
    <3> QED
      BY <2>2, <3>2 DEF BeforeRead
  <2> QED
    BY <2>1, <2>2
<1>8. \A a \in Tracked : AfterRead(a) => AfterRead(a)'
  <2> SUFFICES ASSUME NEW a \in Tracked, AfterRead(a) PROVE AfterRead(a)'
    OBVIOUS
  <2>1. PICK u \in Nat : Settled(a, u) /\ query.after[a] = {t \in Until(a, u) : t >= query.cutoff}
    BY DEF AfterRead
  <2>2. Settled(a, u)' /\ Until(a, u)' = Until(a, u)
    BY <1>0, <1>1, <1>2, <2>1, SettledStays
  <2>3. query'.after[a] = {t \in Until(a, u)' : t >= query'.cutoff}
    BY <2>1, <2>2
  <2> QED
    BY <2>2, <2>3 DEF AfterRead
<1>9. ReadsSound'
  <2>1. \A a \in Tracked \ touched' : a \in Tracked \ touched
    BY <1>1
  <2> QED
    BY <1>0, <1>6, <1>7, <1>8, <2>1 DEF ReadsSound
<1>10. HistoryTrue'
  BY DEF HistoryTrue
<1> QED
  BY <1>4, <1>5, <1>9, <1>10 DEF ComplianceInv

(* A time up to which the inspections of an asset are settled now. *)
LEMMA SettledNow ==
    ASSUME TimesSound, QuerySound, query.pc # "idle", NEW a \in Tracked
    PROVE  \E u \in Nat : Settled(a, u) /\ Until(a, u) = times[a]
<1> PICK b, T : b = query.began /\ T = times[a]
  OBVIOUS
<1>1. b \in Nat /\ clock \in Nat /\ b <= clock /\ \A t \in T : t \in Nat /\ t <= clock
  BY DEF TimesSound, QuerySound
<1>2. CASE clock \in T
  <2>1. clock + 1 \in Nat /\ clock + 1 \in b..(clock + 1) /\ {t \in T : t < clock + 1} = T
    BY <1>1
  <2> QED
    BY <1>2, <2>1 DEF Settled, Until
<1>3. CASE clock \notin T
  <2>1. clock \in b..(clock + 1) /\ {t \in T : t < clock} = T /\ clock # clock + 1
    BY <1>1, <1>3
  <2> QED
    BY <1>1, <2>1 DEF Settled, Until
<1> QED
  BY <1>2, <1>3

(* The same for what a request for this month alone takes into account. *)
LEMMA SettledByStart ==
    ASSUME TimesSound, QuerySound, query.pc # "idle", query.months = 1, NEW a \in Tracked
    PROVE  \E u \in Nat : Settled(a, u) /\ Until(a, u) = {t \in times[a] : t <= query.cutoff}
<1> PICK b, c, T : b = query.began /\ c = query.cutoff /\ T = times[a]
  OBVIOUS
<1>1. /\ b \in Nat /\ clock \in Nat /\ b <= clock /\ c = b + 1 /\ b % 2 = 0 /\ clock % 2 = 0
      /\ \A t \in T : t \in Nat /\ t <= clock /\ t % 2 = 0
  BY DEF TimesSound, QuerySound
<1>2. CASE b = clock
  <2>1. {t \in T : t <= c} = T
    BY <1>1, <1>2
  <2> QED
    BY <2>1, SettledNow
<1>3. CASE b # clock
  <2>1. \A t \in T : t <= c <=> t < b + 1
    BY <1>1
  <2>2. b + 1 \in Nat /\ b + 1 \in b..(clock + 1) /\ b + 1 # clock + 1 /\ {t \in T : t <= c} = {t \in T : t < b + 1}
    BY <1>1, <1>3, <2>1
  <2> QED
    BY <2>2 DEF Settled, Until
<1> QED
  BY <1>2, <1>3

(* The request begins. *)
LEMMA RequestBegins ==
    ASSUME ComplianceInv, AskHistory
    PROVE  ComplianceInv'
<1>0. PICK months \in 1..3, c \in DOMAIN DefaultCycle \cup {NoCycle} :
         \E d \in IF c = NoCycle THEN DOMAIN DefaultCycle ELSE {c} :
         query' = [pc |-> "read", months |-> months, client |-> c, cycle |-> DefaultCycle[d],
                   cutoff |-> Cutoff(months), began |-> clock, before |-> <<>>, after |-> <<>>,
                   todo |-> {"before"} \cup IF months > 1 THEN {"after"} ELSE {}]
  BY DEF AskHistory
<1>1. PICK d \in IF c = NoCycle THEN DOMAIN DefaultCycle ELSE {c} :
         query' = [pc |-> "read", months |-> months, client |-> c, cycle |-> DefaultCycle[d],
                   cutoff |-> Cutoff(months), began |-> clock, before |-> <<>>, after |-> <<>>,
                   todo |-> {"before"} \cup IF months > 1 THEN {"after"} ELSE {}]
  BY <1>0
<1>2. UNCHANGED <<times, inService, clock>>
  BY DEF AskHistory
<1>3. TimesSound'
  BY <1>2 DEF ComplianceInv, TimesSound
<1>4. DefaultCycle[d] \in Nat /\ clock \in Nat /\ clock % 2 = 0
  BY <1>1, ComplianceAssumption DEF ComplianceInv, TimesSound
<1>5. /\ DOMAIN query' = QueryFields /\ query'.months = months /\ query'.cycle = DefaultCycle[d]
      /\ query'.cutoff = Cutoff(months) /\ query'.began = clock /\ query'.after = <<>> /\ query'.pc = "read"
      /\ "before" \in query'.todo /\ ("after" \in query'.todo <=> months > 1)
  BY <1>1 DEF QueryFields
<1>6. QuerySound'
  <2>1. Cutoff(months) = IF months = 1 THEN clock + 1 ELSE StartOfMonth(clock) - months * MonthLength
    BY DEF Cutoff
  <2>2. StartOfMonth(query'.began) = StartOfMonth(clock)
    BY <1>5
  <2>3. clock <= clock'
    BY <1>2, <1>4
  <2> QED
    BY <1>2, <1>4, <1>5, <2>1, <2>2, <2>3 DEF QuerySound
<1>7. ReadsSound' /\ HistoryTrue'
  BY <1>5 DEF ReadsSound, HistoryTrue
<1> QED
  BY <1>3, <1>6, <1>7 DEF ComplianceInv

(* A query of the request returns. *)
LEMMA RequestReads ==
    ASSUME ComplianceInv, ReadBefore \/ ReadAfter
    PROVE  ComplianceInv'
<1>0. TimesSound /\ QuerySound /\ ReadsSound /\ query.pc = "read" /\ DOMAIN query = QueryFields
  BY DEF ComplianceInv, QuerySound, ReadBefore, ReadAfter
<1>1. UNCHANGED <<times, inService, clock, touched>>
  BY DEF ReadBefore, ReadAfter
<1>2. TimesSound'
  BY <1>0, <1>1 DEF TimesSound
<1> DEFINE B == [a \in Seen |-> Latest({t \in times[a] : t <= query.cutoff})]
           A == [a \in Seen |-> {t \in times[a] : t >= query.cutoff}]
<1>3. Seen \subseteq Tracked
  BY <1>0 DEF Seen, TimesSound
<1>4. DOMAIN B = Seen /\ DOMAIN A = Seen
  OBVIOUS
<1>5. /\ \A a \in Seen : B[a] = Latest({t \in times[a] : t <= query.cutoff})
      /\ \A a \in Seen : A[a] = {t \in times[a] : t >= query.cutoff}
  OBVIOUS
<1>6. CASE ReadBefore
  <2>1. query' = [query EXCEPT !.todo = query.todo \ {"before"}, !.before = B]
    BY <1>6 DEF ReadBefore
  <2> HIDE DEF A, B
  <2>2. /\ DOMAIN query' = QueryFields /\ query'.pc = "read" /\ query'.months = query.months
        /\ query'.cycle = query.cycle /\ query'.began = query.began /\ query'.cutoff = query.cutoff
        /\ query'.after = query.after /\ query'.client = query.client /\ query'.before = B
        /\ "after" \in query'.todo <=> "after" \in query.todo
    BY <1>0, <2>1 DEF QueryFields
  <2>3. QuerySound'
    BY <1>0, <1>1, <2>2 DEF QuerySound
  <2>4. Seen' = Seen
    BY <1>1, <2>2 DEF Seen
  <2>5. \A a \in Seen : BeforeRead(a)'
    <3> SUFFICES ASSUME NEW a \in Seen PROVE BeforeRead(a)'
      OBVIOUS
    <3>1. CASE query.months = 1
      <4>1. PICK u \in Nat : Settled(a, u) /\ Until(a, u) = {t \in times[a] : t <= query.cutoff}
        BY <1>0, <1>3, <3>1, SettledByStart
      <4>2. Settled(a, u)' /\ Until(a, u)' = Until(a, u)
        BY <1>1, <2>2, <4>1 DEF Settled, Until
      <4>3. B[a] = Latest(Until(a, u))'
        BY <1>5, <4>1, <4>2 DEF Latest
      <4> QED
        BY <2>2, <3>1, <4>2, <4>3 DEF BeforeRead
    <3>2. CASE query.months # 1
      BY <1>1, <1>5, <2>2, <3>2 DEF BeforeRead
    <3> QED
      BY <3>1, <3>2
  <2>6. \A a \in Tracked : AfterRead(a) => AfterRead(a)'
    BY <1>1, <2>2 DEF AfterRead, Settled, Until
  <2>7. ReadsSound'
    BY <1>0, <1>1, <1>3, <1>4, <2>2, <2>4, <2>5, <2>6 DEF ReadsSound
  <2>8. HistoryTrue'
    BY <2>2 DEF HistoryTrue
  <2> QED
    BY <1>2, <2>3, <2>7, <2>8 DEF ComplianceInv
<1>7. CASE ReadAfter
  <2>1. query' = [query EXCEPT !.todo = query.todo \ {"after"}, !.after = A] /\ "after" \in query.todo
    BY <1>7 DEF ReadAfter
  <2> HIDE DEF A, B
  <2>2. /\ DOMAIN query' = QueryFields /\ query'.pc = "read" /\ query'.months = query.months
        /\ query'.cycle = query.cycle /\ query'.began = query.began /\ query'.cutoff = query.cutoff
        /\ query'.before = query.before /\ query'.client = query.client /\ query'.after = A
        /\ "before" \in query'.todo <=> "before" \in query.todo
    BY <1>0, <2>1 DEF QueryFields
  <2>3. query.months # 1
    BY <1>0, <2>1 DEF QuerySound
  <2>4. QuerySound'
    BY <1>0, <1>1, <2>2, <2>3 DEF QuerySound
  <2>5. Seen' = Seen
    BY <1>1, <2>2 DEF Seen
  <2>6. \A a \in Seen : AfterRead(a)'
    <3> SUFFICES ASSUME NEW a \in Seen PROVE AfterRead(a)'
      OBVIOUS
    <3>1. PICK u \in Nat : Settled(a, u) /\ Until(a, u) = times[a]
      BY <1>0, <1>3, SettledNow
    <3>2. Settled(a, u)' /\ Until(a, u)' = Until(a, u)
      BY <1>1, <2>2, <3>1 DEF Settled, Until
    <3>3. query'.after[a] = {t \in Until(a, u)' : t >= query'.cutoff}
      BY <1>5, <2>2, <3>1, <3>2
    <3> QED
      BY <3>2, <3>3 DEF AfterRead
  <2>7. \A a \in Tracked : BeforeRead(a) => BeforeRead(a)'
    BY <1>1, <2>2, <2>3 DEF BeforeRead
  <2>8. ReadsSound'
    BY <1>0, <1>1, <1>3, <1>4, <2>2, <2>5, <2>6, <2>7 DEF ReadsSound
  <2>9. HistoryTrue'
    BY <2>2 DEF HistoryTrue
  <2> QED
    BY <1>2, <2>4, <2>8, <2>9 DEF ComplianceInv
<1> QED
  BY <1>6, <1>7

(* A status from what was merged is the one of all inspections up to a     *)
(* time within the run of the request.                                     *)
LEMMA MergedTrue ==
    ASSUME TimesSound, QuerySound, ReadsSound, query.pc = "read", query.todo = {},
           NEW a \in DOMAIN query.before, a \notin touched, NEW n \in 1..query.months
    PROVE  \E u \in Nat : /\ u \in query.began..(clock + 1)
                          /\ \A c : Status(Merged(a), c, DateOf(n)) = Status(Until(a, u), c, DateOf(n))
<1>1. a \in Tracked /\ BeforeRead(a) /\ a \in Seen
  BY DEF ReadsSound
<1>2. clock \in Nat /\ times[a] \subseteq Nat /\ \A t \in times[a] : t <= clock
  BY <1>1 DEF TimesSound
<1> PICK x, c : x = DateOf(n) /\ c = query.cutoff
  OBVIOUS
<1>3. ASSUME NEW u \in Nat, NEW M \in SUBSET Until(a, u), x \in Int,
             \A t \in Until(a, u) : t < x => \E m \in M : m < x /\ t <= m
      PROVE  \A k : Status(M, k, x) = Status(Until(a, u), k, x)
  <2>1. Until(a, u) \subseteq Nat /\ \A t \in Until(a, u) : t <= clock
    BY <1>2 DEF Until
  <2> QED
    BY <1>2, <1>3, <2>1, SameStatus
<1>4. CASE query.months = 1
  <2>1. PICK u \in Nat : Settled(a, u) /\ query.before[a] = Latest(Until(a, u))
    BY <1>1, <1>4 DEF BeforeRead
  <2>2. u \in query.began..(clock + 1) /\ query.began \in Nat
    BY <2>1 DEF Settled, QuerySound
  <2>3. x = clock + 1 /\ x \in Int
    BY <1>2, <1>4 DEF DateOf
  <2>4. Merged(a) = Latest(Until(a, u))
    BY <1>4, <2>1 DEF Merged, QuerySound
  <2>5. Until(a, u) \subseteq Nat /\ \A t \in Until(a, u) : t <= clock
    BY <1>2 DEF Until
  <2>6. Latest(Until(a, u)) \subseteq Until(a, u) /\ \A t \in Until(a, u) : \E m \in Latest(Until(a, u)) : t <= m
    BY <1>2, <2>5, LatestIs
  <2>7. \A t \in Until(a, u) : t < x => \E m \in Latest(Until(a, u)) : m < x /\ t <= m
    BY <1>2, <2>3, <2>5, <2>6
  <2>8. \A k : Status(Latest(Until(a, u)), k, x) = Status(Until(a, u), k, x)
    BY <1>3, <2>3, <2>6, <2>7
  <2> QED
    BY <2>2, <2>4, <2>8
<1>5. CASE query.months # 1
  <2>0. query.months > 1 /\ query.pc # "idle"
    BY <1>5 DEF QuerySound
  <2>1. c \in Int /\ c < query.began /\ x \in Int /\ x > c
    BY <2>0, DatesAfterCutoff
  <2>2. a \in DOMAIN query.after /\ AfterRead(a)
    BY <1>1, <2>0 DEF ReadsSound
  <2>3. PICK u \in Nat : Settled(a, u) /\ query.after[a] = {t \in Until(a, u) : t >= c}
    BY <2>2 DEF AfterRead
  <2> DEFINE T == {t \in times[a] : t <= c}
             M == Latest(T) \cup {t \in Until(a, u) : t >= c}
  <2>4. u \in query.began..(clock + 1) /\ query.began \in Nat
    BY <2>0, <2>3 DEF Settled, QuerySound
  <2>5. Merged(a) = M
    BY <1>1, <1>5, <2>2, <2>3 DEF Merged, BeforeRead
  <2>6. T \subseteq Nat /\ \A t \in T : t <= clock
    BY <1>2
  <2>7. Latest(T) \subseteq T /\ \A t \in T : \E m \in Latest(T) : t <= m
    <3> HIDE DEF T
    <3> QED
      BY <1>2, <2>6, LatestIs
  <2>8. T \subseteq Until(a, u)
    BY <1>2, <2>1, <2>4 DEF Until
  <2>9. M \subseteq Until(a, u)
    BY <2>7, <2>8
  <2>10. ASSUME NEW t \in Until(a, u), t < x PROVE \E m \in M : m < x /\ t <= m
    <3>1. t \in Nat /\ t \in times[a]
      BY <1>2 DEF Until
    <3>2. CASE t >= c
      BY <2>10, <3>1, <3>2
    <3>3. CASE ~(t >= c)
      <4>1. t \in T
        BY <2>1, <3>1, <3>3
      <4>2. PICK m \in Latest(T) : t <= m
        BY <2>7, <4>1
      <4>3. m \in T /\ m \in Nat /\ m <= c
        BY <2>6, <2>7, <4>2
      <4> QED
        BY <2>1, <4>2, <4>3
    <3> QED
      BY <3>2, <3>3
  <2> HIDE DEF M, T
  <2>11. \A k : Status(M, k, x) = Status(Until(a, u), k, x)
    BY <1>3, <2>1, <2>9, <2>10
  <2> QED
    BY <2>4, <2>5, <2>11
<1> QED
  BY <1>4, <1>5

(* The history is put together. *)
LEMMA RequestAnswers ==
    ASSUME ComplianceInv, Compile
    PROVE  ComplianceInv'
<1>0. /\ TimesSound /\ QuerySound /\ ReadsSound /\ query.pc = "read" /\ query.pc # "idle" /\ query.todo = {}
      /\ DOMAIN query = QueryFields
  BY DEF ComplianceInv, QuerySound, Compile
<1>1. UNCHANGED <<times, inService, clock, touched>> /\ query' = [query EXCEPT !.pc = "done"]
  BY DEF Compile
<1>2. /\ DOMAIN query' = QueryFields /\ query'.pc = "done" /\ query'.months = query.months
      /\ query'.cycle = query.cycle /\ query'.began = query.began /\ query'.cutoff = query.cutoff
      /\ query'.before = query.before /\ query'.client = query.client /\ query'.after = query.after
      /\ query'.todo = query.todo
  BY <1>0, <1>1 DEF QueryFields
<1>3. TimesSound' /\ QuerySound' /\ ReadsSound'
  BY <1>0, <1>1, <1>2 DEF TimesSound, QuerySound, ReadsSound
<1>4. Seen' = Seen /\ \A a : InspectionCycle(a)' = InspectionCycle(a)
  BY <1>1, <1>2 DEF Seen, InspectionCycle
<1>5. DOMAIN answer' = 1..query.months
  BY DEF Compile
<1>6. HistoryTrue'
  <2> SUFFICES ASSUME NEW n \in 1..query.months
               PROVE  /\ \A a \in Seen \ touched : a \in DOMAIN answer'[n].status <=> MadeOn[a] <= answer'[n].date
                      /\ \A a \in DOMAIN answer'[n].status \ touched :
                           \E until \in query.began..(clock + 1) : StatusTrue(a, n, until)'
    BY <1>1, <1>2, <1>4, <1>5 DEF HistoryTrue
  <2> DEFINE x == DateOf(n)
             D == {b \in DOMAIN query.before : MadeOn[b] <= x}
             f == [a \in D |-> Status(Merged(a), InspectionCycle(a), x)]
  <2>1. answer'[n].date = x /\ answer'[n].status = f
    BY DEF Compile
  <2>2. DOMAIN f = D /\ \A a \in D : f[a] = Status(Merged(a), InspectionCycle(a), x)
    OBVIOUS
  <2>3. DOMAIN query.before \subseteq Tracked /\ \A a \in Tracked \ touched : a \in DOMAIN query.before <=> a \in Seen
    BY <1>0 DEF ReadsSound
  <2>4. Seen \subseteq Tracked
    BY <1>0 DEF Seen, TimesSound
  <2>5. x \in Int
    <3>1. CASE query.months = 1
      BY <1>0, <3>1 DEF DateOf, TimesSound
    <3>2. CASE query.months # 1
      <4>1. query.months > 1
        BY <1>0, <3>2 DEF QuerySound
      <4> QED
        BY <1>0, <4>1, DatesAfterCutoff
    <3> QED
      BY <3>1, <3>2
  <2> HIDE DEF x, f
  <2>6. \A a \in Seen \ touched : a \in DOMAIN answer'[n].status <=> MadeOn[a] <= answer'[n].date
    BY <2>1, <2>2, <2>3, <2>4
  <2>7. ASSUME NEW a \in D, a \notin touched
        PROVE  \E until \in query.began..(clock + 1) : StatusTrue(a, n, until)'
    <3>1. PICK u \in Nat : /\ u \in query.began..(clock + 1)
                           /\ \A c : Status(Merged(a), c, x) = Status(Until(a, u), c, x)
      BY <1>0, <2>7, MergedTrue DEF x
    <3>2. a \in Tracked
      BY <2>3
    <3>3. InspectionCycle(a) \in Nat
      BY <1>0, <3>2, ComplianceAssumption DEF InspectionCycle, QuerySound
    <3>4. {t \in times[a] : t < query.began \/ t < u} = Until(a, u)
      <4>1. query.began \in Nat /\ query.began <= u /\ \A t \in times[a] : t \in Nat
        BY <1>0, <3>1, <3>2 DEF QuerySound, TimesSound
      <4> QED
        BY <4>1 DEF Until
    <3>5. Until(a, u) \subseteq Nat /\ clock \in Nat /\ \A t \in Until(a, u) : t <= clock
      BY <1>0, <3>2 DEF TimesSound, Until
    <3>6. f[a] = Status(Until(a, u), InspectionCycle(a), x)
      BY <2>2, <3>1
    <3>7. Status(Until(a, u), InspectionCycle(a), x) \in {"COMPLIANT_DUE_LATER", "COMPLIANT_DUE_SOON"}
          <=> ~\A t \in Until(a, u) : t < x => x - t >= 4 * InspectionCycle(a)
      BY <2>5, <3>3, <3>5, StatusMeans
    <3>8. StatusTrue(a, n, u)'
      <4>1. Known(a, u)' = Until(a, u)
        BY <1>1, <1>2, <3>4 DEF Known
      <4>2. Overdue(Until(a, u), a, x) <=> \A t \in Until(a, u) : t < x => x - t >= 4 * InspectionCycle(a)
        BY DEF Overdue
      <4>3. Overdue(Known(a, u), a, answer[n].date)' <=> Overdue(Until(a, u), a, x)
        BY <1>4, <2>1, <4>1 DEF Overdue
      <4> QED
        BY <1>4, <2>1, <3>6, <3>7, <4>1, <4>2, <4>3 DEF StatusTrue
    <3> QED
      BY <3>1, <3>8
  <2> QED
    BY <2>1, <2>2, <2>6, <2>7
<1> QED
  BY <1>3, <1>6 DEF ComplianceInv

(* What a request has read, and what it makes of it, while assets are      *)
(* inspected and go in and out of service (StatsService).                  *)
THEOREM ComplianceInvariant == ComplianceSpec => []ComplianceInv
<1>1. ComplianceInit => ComplianceInv
  <2> SUFFICES ASSUME ComplianceInit PROVE ComplianceInv
    OBVIOUS
  <2>1. clock = StartTime /\ query.pc = "idle" /\ DOMAIN times = Tracked /\ \A a \in Tracked : times[a] \in FirstTimes[a]
    BY DEF ComplianceInit, NoQuery
  <2>2. TimesSound
    BY <2>1, ComplianceAssumption DEF ComplianceInit, TimesSound
  <2> QED
    BY <2>1, <2>2 DEF ComplianceInv, QuerySound, ReadsSound, HistoryTrue
<1>2. ComplianceInv /\ [ComplianceSteps]_complianceVars => ComplianceInv'
  <2> SUFFICES ASSUME ComplianceInv, [ComplianceSteps]_complianceVars PROVE ComplianceInv'
    OBVIOUS
  <2>1. CASE UNCHANGED complianceVars
    <3>1. UNCHANGED <<times, inService, clock, query, touched, answer>>
      BY <2>1 DEF complianceVars
    <3>2. TimesSound' /\ QuerySound'
      BY <3>1 DEF ComplianceInv, TimesSound, QuerySound
    <3>3. Seen' = Seen /\ \A a : InspectionCycle(a)' = InspectionCycle(a)
      BY <3>1 DEF Seen, InspectionCycle
    <3>4. \A a, u : Settled(a, u)' = Settled(a, u) /\ Until(a, u)' = Until(a, u)
      BY <3>1 DEF Settled, Until
    <3>5. \A a : (BeforeRead(a) => BeforeRead(a)') /\ (AfterRead(a) => AfterRead(a)')
      BY <3>1, <3>4 DEF BeforeRead, AfterRead
    <3>6. ReadsSound'
      BY <3>1, <3>3, <3>5 DEF ComplianceInv, ReadsSound
    <3>7. HistoryTrue'
      <4>1. \A a, n, u : StatusTrue(a, n, u) => StatusTrue(a, n, u)'
        BY <3>1, <3>3 DEF StatusTrue, Known, Overdue
      <4> QED
        BY <3>1, <3>3, <4>1 DEF ComplianceInv, HistoryTrue
    <3> QED
      BY <3>2, <3>6, <3>7 DEF ComplianceInv
  <2>2. CASE Visit \/ SetActive \/ Later
    <3>1. query.pc = "read" /\ query' = query
      BY <2>2 DEF Visit, SetActive, Later
    <3> QED
      BY <2>2, <3>1, RequestRuns
  <2>3. CASE AskHistory \/ ReadBefore \/ ReadAfter \/ Compile
    BY <2>3, RequestBegins, RequestReads, RequestAnswers
  <2> QED
    BY <2>1, <2>2, <2>3 DEF ComplianceSteps
<1> QED
  BY <1>1, <1>2, PTL DEF ComplianceSpec

(* Every month of a history gives each asset the status its inspections    *)
(* give, up to those made while the request ran, and leaves out no asset,  *)
(* but for those that went in or out of service meanwhile                  *)
(* (stats.service.ts, getComplianceHistoryByMonth).                        *)
THEOREM HistoryStaysTrue == ComplianceSpec => []HistoryTrue
BY ComplianceInvariant, PTL DEF ComplianceInv
-----------------------------------------------------------------------------
(* The alerts of an inspection *)

(* The first of some positions is one of them. *)
LEMMA FirstIsOne ==
    ASSUME NEW S, S \subseteq Nat, S # {}
    PROVE  First(S) \in S
BY LeastNumber DEF First

(* The operator that is tested is one of the clause. *)
LEMMA TestedIsOne ==
    ASSUME NEW type, NEW c, Clause(type, c), DOMAIN c # {}
    PROVE  Tested(c) \in DOMAIN c
<1> DEFINE S == {i \in DOMAIN Operators : Operators[i] \in DOMAIN c}
<1>1. DOMAIN Operators = 1 .. 17
  BY DEF Operators
<1>2. \A op \in Compared \cup OnText \cup OnDays \cup {"empty", "notEmpty"} :
         \E i \in 1 .. 17 : Operators[i] = op
  BY DEF Operators, Compared, OnText, OnDays
<1>3. DOMAIN c \subseteq Compared \cup OnText \cup OnDays \cup {"empty", "notEmpty"}
  BY DEF Clause
<1>4. S \subseteq Nat /\ S # {}
  BY <1>1, <1>2, <1>3
<1>5. First(S) \in S
  <2> HIDE DEF S
  <2> QED
    BY <1>4, FirstIsOne
<1> QED
  BY <1>5 DEF Tested

(* Texts of the same letters are the same. *)
LEMMA SameText ==
    ASSUME NEW x \in Seq(Int), NEW y \in Seq(Int), Len(x) = Len(y), \A j \in 1 .. Len(x) : y[j] = x[j]
    PROVE  y = x
OBVIOUS

(* Two texts agree up to a position when their letters do. *)
LEMMA SameLetters ==
    ASSUME NEW x \in Seq(Int), NEW y \in Seq(Int), NEW m \in Nat, NEW n \in Nat, NEW k \in Nat,
           m + k <= Len(x), n + k <= Len(y)
    PROVE  (SubSeq(x, m + 1, m + k) = SubSeq(y, n + 1, n + k))
           <=> \A j \in 1 .. k : x[m + j] = y[n + j]
<1> DEFINE p == SubSeq(x, m + 1, m + k)
           q == SubSeq(y, n + 1, n + k)
<1>1. p = [j \in 1 .. k |-> x[m + j]] /\ q = [j \in 1 .. k |-> y[n + j]]
  <2>1. m + k - (m + 1) + 1 = k /\ n + k - (n + 1) + 1 = k
    OBVIOUS
  <2> QED
    BY <2>1
<1>2. /\ DOMAIN p = 1 .. k /\ p = [j \in 1 .. k |-> p[j]] /\ \A j \in 1 .. k : p[j] = x[m + j]
      /\ DOMAIN q = 1 .. k /\ q = [j \in 1 .. k |-> q[j]] /\ \A j \in 1 .. k : q[j] = y[n + j]
  BY <1>1, Zenon
<1> HIDE DEF p, q
<1>3. (p = q) <=> \A j \in 1 .. k : x[m + j] = y[n + j]
  <2>1. ASSUME \A j \in 1 .. k : x[m + j] = y[n + j] PROVE p = q
    <3>1. \A j \in 1 .. k : p[j] = q[j]
      BY <1>2, <2>1
    <3> QED
      BY <1>2, <3>1
  <2>2. ASSUME p = q PROVE \A j \in 1 .. k : x[m + j] = y[n + j]
    BY <1>2, <2>2
  <2> QED
    BY <2>1, <2>2
<1> QED
  BY <1>3 DEF p, q

(* A text is at the start of another when its letters are. *)
LEMMA PrefixLetters ==
    ASSUME NEW x \in Seq(Int), NEW y \in Seq(Int)
    PROVE  Letters!IsPrefix(x, y) <=> Len(x) <= Len(y) /\ \A j \in 1 .. Len(x) : x[j] = y[j]
<1>1. CASE Len(x) <= Len(y)
  <2>1. (SubSeq(x, 0 + 1, 0 + Len(x)) = SubSeq(y, 0 + 1, 0 + Len(x)))
           <=> \A j \in 1 .. Len(x) : x[0 + j] = y[0 + j]
    BY <1>1, SameLetters
  <2>2. 0 + 1 = 1 /\ 0 + Len(x) = Len(x) /\ \A j \in 1 .. Len(x) : 0 + j = j
    OBVIOUS
  <2> QED
    BY <1>1, <2>1, <2>2 DEF Letters!IsPrefix
<1> QED
  BY <1>1 DEF Letters!IsPrefix

(* Where a text occurs in another, by the code's comparisons. *)
LEMMA TextsFound ==
    ASSUME NEW v \in Seq(Int), NEW t \in Seq(Int)
    PROVE  /\ Includes(v, t) <=> Occurs(v, t, FALSE, FALSE)
           /\ Letters!IsPrefix(t, v) <=> Occurs(v, t, TRUE, FALSE)
           /\ Letters!IsSuffix(t, v) <=> Occurs(v, t, FALSE, TRUE)
<1> DEFINE At(i) == \A j \in 1 .. Len(t) : v[i + j] = t[j]
<1>1. ASSUME NEW i \in 0 .. Len(v), i + Len(t) <= Len(v)
      PROVE  (SubSeq(v, i + 1, i + Len(t)) = t) <=> At(i)
  <2> DEFINE p == SubSeq(v, i + 1, i + Len(t))
  <2>2. p \in Seq(Int) /\ Len(p) = Len(t) /\ \A j \in 1 .. Len(t) : p[j] = v[i + j]
    BY <1>1
  <2> HIDE DEF p
  <2>3. ASSUME At(i) PROVE p = t
    <3>1. \A j \in 1 .. Len(t) : p[j] = t[j]
      BY <2>2, <2>3
    <3> QED
      BY <2>2, <3>1, SameText
  <2>4. ASSUME p = t PROVE At(i)
    BY <2>2, <2>4
  <2> QED
    BY <2>3, <2>4 DEF p
<1>2. ASSUME NEW i \in 0 .. Len(v)
      PROVE  Letters!IsPrefix(t, SubSeq(v, i + 1, Len(v))) <=> i + Len(t) <= Len(v) /\ At(i)
  <2> PICK w : w = SubSeq(v, i + 1, Len(v))
    OBVIOUS
  <2>1. w \in Seq(Int) /\ Len(w) = Len(v) - i /\ \A j \in 1 .. Len(w) : w[j] = v[i + j]
    OBVIOUS
  <2>2. Letters!IsPrefix(t, w) <=> Len(t) <= Len(w) /\ \A j \in 1 .. Len(t) : t[j] = w[j]
    BY <2>1, PrefixLetters
  <2>3. i + Len(t) <= Len(v) <=> Len(t) <= Len(w)
    BY <2>1
  <2>4. Len(t) <= Len(w) => \A j \in 1 .. Len(t) : j \in 1 .. Len(w) /\ w[j] = v[i + j]
    BY <2>1
  <2>5. Len(t) <= Len(w) => (At(i) <=> \A j \in 1 .. Len(t) : t[j] = w[j])
    BY <2>4
  <2> HIDE DEF At
  <2> QED
    BY <2>2, <2>3, <2>5
<1>3. Letters!IsSuffix(t, v) <=> Len(t) <= Len(v) /\ At(Len(v) - Len(t))
  <2> PICK a, b : a = Letters!Reverse(t) /\ b = Letters!Reverse(v)
    OBVIOUS
  <2>1. /\ a \in Seq(Int) /\ Len(a) = Len(t) /\ \A j \in 1 .. Len(t) : a[j] = t[Len(t) - j + 1]
        /\ b \in Seq(Int) /\ Len(b) = Len(v) /\ \A j \in 1 .. Len(v) : b[j] = v[Len(v) - j + 1]
    BY DEF Letters!Reverse
  <2>2. Letters!IsPrefix(a, b) <=> Len(a) <= Len(b) /\ \A j \in 1 .. Len(a) : a[j] = b[j]
    BY <2>1, PrefixLetters
  <2>3. ASSUME Len(t) <= Len(v)
        PROVE  (\A j \in 1 .. Len(t) : a[j] = b[j]) <=> At(Len(v) - Len(t))
    <3>1. ASSUME \A j \in 1 .. Len(t) : a[j] = b[j], NEW j \in 1 .. Len(t)
          PROVE  v[Len(v) - Len(t) + j] = t[j]
      <4> PICK k : k = Len(t) - j + 1
        OBVIOUS
      <4>1. k \in 1 .. Len(t) /\ Len(t) - k + 1 = j /\ Len(v) - k + 1 = Len(v) - Len(t) + j
        OBVIOUS
      <4>2. k \in 1 .. Len(v) /\ a[k] = b[k]
        BY <2>3, <3>1, <4>1
      <4>4. a[k] = t[j]
        BY <2>1, <4>1
      <4>3. b[k] = v[Len(v) - Len(t) + j]
        BY <2>1, <4>1, <4>2
      <4> QED
        BY <4>2, <4>3, <4>4
    <3>2. ASSUME At(Len(v) - Len(t)), NEW j \in 1 .. Len(t)
          PROVE  a[j] = b[j]
      <4> PICK k : k = Len(t) - j + 1
        OBVIOUS
      <4>1. k \in 1 .. Len(t) /\ Len(v) - Len(t) + k = Len(v) - j + 1 /\ j \in 1 .. Len(v)
        BY <2>3
      <4> QED
        BY <2>1, <3>2, <4>1
    <3> QED
      BY <3>1, <3>2
  <2> HIDE DEF At
  <2> QED
    BY <2>1, <2>2, <2>3 DEF Letters!IsSuffix
<1>4. /\ Occurs(v, t, FALSE, FALSE) <=> \E i \in 0 .. Len(v) : i + Len(t) <= Len(v) /\ At(i)
      /\ Occurs(v, t, TRUE, FALSE) <=> Len(t) <= Len(v) /\ At(0)
      /\ Occurs(v, t, FALSE, TRUE) <=> Len(t) <= Len(v) /\ At(Len(v) - Len(t))
  <2> DEFINE S(i) == SubSeq(v, i + 1, i + Len(t)) = t
  <2>1. \A i \in 0 .. Len(v) : i + Len(t) <= Len(v) => (S(i) <=> At(i))
    BY <1>1
  <2>2. Len(t) \in Nat /\ Len(v) \in Nat
    OBVIOUS
  <2>3. /\ Occurs(v, t, FALSE, FALSE) <=> \E i \in 0 .. Len(v) : i + Len(t) <= Len(v) /\ S(i)
        /\ Occurs(v, t, TRUE, FALSE) <=> \E i \in 0 .. Len(v) : i + Len(t) <= Len(v) /\ S(i) /\ i = 0
        /\ Occurs(v, t, FALSE, TRUE) <=>
             \E i \in 0 .. Len(v) : i + Len(t) <= Len(v) /\ S(i) /\ i + Len(t) = Len(v)
    BY DEF Occurs
  <2> HIDE DEF At, S
  <2>4. Occurs(v, t, FALSE, TRUE) <=> Len(t) <= Len(v) /\ S(Len(v) - Len(t))
    <3>3. ASSUME Occurs(v, t, FALSE, TRUE) PROVE Len(t) <= Len(v) /\ S(Len(v) - Len(t))
      <4>1. PICK i \in 0 .. Len(v) : i + Len(t) <= Len(v) /\ S(i) /\ i + Len(t) = Len(v)
        BY <2>3, <3>3
      <4>2. i = Len(v) - Len(t) /\ Len(t) <= Len(v)
        BY <2>2, <4>1
      <4> QED
        BY <4>1, <4>2
    <3>4. ASSUME Len(t) <= Len(v), S(Len(v) - Len(t)) PROVE Occurs(v, t, FALSE, TRUE)
      <4> PICK i : i = Len(v) - Len(t)
        OBVIOUS
      <4>1. i \in 0 .. Len(v) /\ i + Len(t) <= Len(v) /\ i + Len(t) = Len(v)
        BY <2>2, <3>4
      <4>2. S(i)
        BY <3>4
      <4> QED
        BY <2>3, <4>1, <4>2
    <3> QED
      BY <3>3, <3>4
  <2>5. Len(t) <= Len(v) => (S(Len(v) - Len(t)) <=> At(Len(v) - Len(t)))
    BY <2>1, <2>2
  <2>6. Occurs(v, t, TRUE, FALSE) <=> Len(t) <= Len(v) /\ S(0)
    <3>1. ASSUME Occurs(v, t, TRUE, FALSE) PROVE Len(t) <= Len(v) /\ S(0)
      <4>1. PICK i \in 0 .. Len(v) : i + Len(t) <= Len(v) /\ S(i) /\ i = 0
        BY <2>3, <3>1
      <4> QED
        BY <2>2, <4>1
    <3>2. ASSUME Len(t) <= Len(v), S(0) PROVE Occurs(v, t, TRUE, FALSE)
      <4> PICK i : i = 0
        OBVIOUS
      <4>1. i \in 0 .. Len(v) /\ i + Len(t) <= Len(v)
        BY <2>2, <3>2
      <4>2. S(i)
        BY <3>2
      <4> QED
        BY <2>3, <4>1, <4>2
    <3> QED
      BY <3>1, <3>2
  <2>7. Len(t) <= Len(v) => (S(0) <=> At(0))
    <3>1. 0 \in 0 .. Len(v) /\ 0 + Len(t) = Len(t)
      BY <2>2
    <3> QED
      BY <2>1, <3>1
  <2>8. Occurs(v, t, FALSE, FALSE) <=> \E i \in 0 .. Len(v) : i + Len(t) <= Len(v) /\ At(i)
    BY <2>1, <2>3
  <2>9. Occurs(v, t, FALSE, TRUE) <=> Len(t) <= Len(v) /\ At(Len(v) - Len(t))
    BY <2>4, <2>5
  <2>10. Occurs(v, t, TRUE, FALSE) <=> Len(t) <= Len(v) /\ At(0)
    BY <2>6, <2>7
  <2> QED
    BY <2>8, <2>9, <2>10
<1>5. Letters!IsPrefix(t, v) <=> Len(t) <= Len(v) /\ At(0)
  <2>1. \A j \in 1 .. Len(t) : 0 + j = j
    OBVIOUS
  <2>2. Letters!IsPrefix(t, v) <=> Len(t) <= Len(v) /\ \A j \in 1 .. Len(t) : t[j] = v[j]
    BY PrefixLetters
  <2> QED
    BY <2>1, <2>2
<1> HIDE DEF At
<1> QED
  BY <1>2, <1>3, <1>4, <1>5 DEF Includes

(* The letters of x and y agree before m, and there one of them ends or    *)
(* they differ: this position decides which of the two is above.           *)
Parting(x, y, m) ==
    /\ m \in Nat \ {0}
    /\ \A j \in 1 .. m - 1 : j <= Len(x) /\ j <= Len(y) /\ x[j] = y[j]
    /\ m > Len(x) \/ m > Len(y) \/ x[m] # y[m]

(* Any two texts part at one position. *)
LEMMA PartingExists ==
    ASSUME NEW x \in Seq(Int), NEW y \in Seq(Int)
    PROVE  \E m : Parting(x, y, m)
<1> DEFINE D == {i \in Nat \ {0} : i > Len(x) \/ i > Len(y) \/ x[i] # y[i]}
<1>1. D \subseteq Nat /\ Len(x) + 1 \in D
  OBVIOUS
<1>2. PICK m \in D : \A i \in D : m <= i
  <2> HIDE DEF D
  <2> QED
    BY <1>1, LeastNumber
<1>3. \A j \in 1 .. m - 1 : j \in Nat \ {0} /\ ~(m <= j)
  BY <1>1
<1>4. \A j \in 1 .. m - 1 : ~(j > Len(x) \/ j > Len(y) \/ x[j] # y[j])
  BY <1>2, <1>3
<1>5. \A j \in 1 .. m - 1 : j <= Len(x) /\ j <= Len(y) /\ x[j] = y[j]
  <2>1. Len(x) \in Nat /\ Len(y) \in Nat /\ \A j \in 1 .. m - 1 : j \in Nat
    BY <1>3
  <2> HIDE DEF D
  <2> QED
    BY <1>4, <2>1
<1> QED
  BY <1>5 DEF Parting

(* The comparison of the code is decided where the texts part. *)
LEMMA AboveAtParting ==
    ASSUME NEW x \in Seq(Int), NEW y \in Seq(Int), NEW m, Parting(x, y, m)
    PROVE  Above("TEXT", x, y) <=> m <= Len(x) /\ (m > Len(y) \/ x[m] > y[m])
<1> DEFINE Agree(i) == \A j \in 1 .. i - 1 : x[j] = y[j]
<1>1. Letters!IsStrictPrefix(y, x) <=> Len(y) < Len(x) /\ Agree(Len(y) + 1)
  <2>1. Letters!IsPrefix(y, x) <=> Len(y) <= Len(x) /\ \A j \in 1 .. Len(y) : y[j] = x[j]
    BY PrefixLetters
  <2>2. (Len(y) = Len(x) /\ \A j \in 1 .. Len(y) : y[j] = x[j]) => x = y
    OBVIOUS
  <2>3. Len(y) + 1 - 1 = Len(y)
    OBVIOUS
  <2> QED
    BY <2>1, <2>2, <2>3 DEF Letters!IsStrictPrefix
<1>2. ASSUME NEW i \in DOMAIN x \cap DOMAIN y
      PROVE  (SubSeq(x, 1, i - 1) = SubSeq(y, 1, i - 1)) <=> Agree(i)
  <2>1. (SubSeq(x, 0 + 1, 0 + (i - 1)) = SubSeq(y, 0 + 1, 0 + (i - 1)))
          <=> \A j \in 1 .. i - 1 : x[0 + j] = y[0 + j]
    BY SameLetters
  <2>2. 0 + 1 = 1 /\ 0 + (i - 1) = i - 1 /\ \A j \in 1 .. i - 1 : 0 + j = j
    OBVIOUS
  <2> QED
    BY <2>1, <2>2
<1>3. Above("TEXT", x, y) <=> \/ Len(y) < Len(x) /\ Agree(Len(y) + 1)
                             \/ \E i \in DOMAIN x \cap DOMAIN y : Agree(i) /\ x[i] > y[i]
  <2> HIDE DEF Agree
  <2> QED
    BY <1>1, <1>2 DEF Above
<1>4. m \in Nat \ {0} /\ Agree(m) /\ m - 1 <= Len(x) /\ m - 1 <= Len(y)
  BY DEF Parting
<1>5. m > Len(x) \/ m > Len(y) \/ x[m] # y[m]
  BY DEF Parting
<1>6. DOMAIN x = 1 .. Len(x) /\ DOMAIN y = 1 .. Len(y) /\ Len(x) \in Nat /\ Len(y) \in Nat
      /\ (\A i \in 1 .. Len(x) : x[i] \in Int) /\ (\A i \in 1 .. Len(y) : y[i] \in Int)
  OBVIOUS
<1>7. ASSUME m <= Len(x), m > Len(y) \/ x[m] > y[m] PROVE Above("TEXT", x, y)
  <2>1. CASE m > Len(y)
    <3>1. m = Len(y) + 1 /\ Len(y) < Len(x)
      BY <1>4, <1>6, <1>7, <2>1
    <3> HIDE DEF Agree
    <3> QED
      BY <1>3, <1>4, <3>1
  <2>2. CASE ~(m > Len(y))
    <3>1. m \in DOMAIN x \cap DOMAIN y /\ x[m] > y[m]
      BY <1>4, <1>6, <1>7, <2>2
    <3> HIDE DEF Agree
    <3> QED
      BY <1>3, <1>4, <3>1
  <2> QED
    BY <2>1, <2>2
<1>8. ASSUME Above("TEXT", x, y) PROVE m <= Len(x) /\ (m > Len(y) \/ x[m] > y[m])
  <2>1. CASE Len(y) < Len(x) /\ Agree(Len(y) + 1)
    <3>1. CASE m <= Len(y)
      <4>1. m \in 1 .. Len(y) + 1 - 1
        BY <1>4, <1>6, <3>1
      <4>2. x[m] = y[m]
        BY <2>1, <4>1
      <4> QED
        BY <1>4, <1>5, <1>6, <2>1, <3>1, <4>2
    <3> QED
      BY <1>4, <1>6, <2>1, <3>1
  <2>2. ASSUME NEW i \in DOMAIN x \cap DOMAIN y, Agree(i), x[i] > y[i]
        PROVE  m <= Len(x) /\ (m > Len(y) \/ x[m] > y[m])
    <3>1. i \in 1 .. Len(x) /\ i \in 1 .. Len(y) /\ x[i] # y[i]
      BY <1>6, <2>2
    <3>2. ~(i < m)
      <4>1. i < m => i \in 1 .. m - 1
        BY <1>4, <3>1
      <4> QED
        BY <1>4, <3>1, <4>1
    <3>3. ~(m < i)
      <4>1. m < i => m \in 1 .. i - 1
        BY <1>4, <3>1
      <4>2. m < i => x[m] = y[m]
        BY <2>2, <4>1
      <4> QED
        BY <1>4, <1>5, <1>6, <3>1, <4>2
    <3>4. m = i
      BY <1>4, <3>1, <3>2, <3>3
    <3> QED
      BY <2>2, <3>1, <3>4
  <2> HIDE DEF Agree
  <2> QED
    BY <1>3, <1>8, <2>1, <2>2
<1> QED
  BY <1>7, <1>8

(* One of two texts that differ is above the other, in the words of a      *)
(* message as in the comparison of the code.                               *)
LEMMA TextsCompared ==
    ASSUME NEW r, NEW v \in Seq(Int), NEW t \in Seq(Int), r.type = "TEXT", r.value = v
    PROVE  /\ Above("TEXT", t, v) <=> Below(r, t)
           /\ Above("TEXT", v, t) <=> ~Below(r, t) /\ v # t
<1>0. Below(r, t) <=> v # t /\ \E i \in 1 .. Len(t) : /\ \A j \in 1 .. i - 1 : j <= Len(v) /\ v[j] = t[j]
                                                    /\ (i > Len(v) \/ v[i] < t[i])
  BY DEF Below
<1>1. PICK m : Parting(t, v, m)
  BY PartingExists
<1>2. Parting(v, t, m)
  BY <1>1 DEF Parting
<1>3. /\ Above("TEXT", t, v) <=> m <= Len(t) /\ (m > Len(v) \/ t[m] > v[m])
      /\ Above("TEXT", v, t) <=> m <= Len(v) /\ (m > Len(t) \/ v[m] > t[m])
  BY <1>1, <1>2, AboveAtParting
<1>4. /\ m \in Nat \ {0} /\ (m > Len(t) \/ m > Len(v) \/ t[m] # v[m])
      /\ \A j \in 1 .. m - 1 : j <= Len(t) /\ j <= Len(v) /\ v[j] = t[j]
  BY <1>1 DEF Parting
<1>5. /\ Len(t) \in Nat /\ Len(v) \in Nat
      /\ (\A i \in 1 .. Len(t) : t[i] \in Int) /\ (\A i \in 1 .. Len(v) : v[i] \in Int)
  OBVIOUS
<1>6. v = t <=> m > Len(t) /\ m > Len(v)
  <2>1. ASSUME m > Len(t), m > Len(v) PROVE v = t
    <3>1. Len(t) = Len(v)
      <4>1. Len(t) < Len(v) => Len(t) + 1 \in 1 .. m - 1
        BY <1>4, <1>5, <2>1
      <4>2. Len(v) < Len(t) => Len(v) + 1 \in 1 .. m - 1
        BY <1>4, <1>5, <2>1
      <4> QED
        BY <1>4, <1>5, <4>1, <4>2
    <3>2. \A j \in 1 .. Len(t) : v[j] = t[j]
      BY <1>4, <1>5, <2>1
    <3> QED
      BY <3>1, <3>2, SameText
  <2>2. ASSUME v = t PROVE m > Len(t) /\ m > Len(v)
    BY <1>4, <1>5, <2>2
  <2> QED
    BY <2>1, <2>2
<1>7. Below(r, t) <=> m <= Len(t) /\ (m > Len(v) \/ t[m] > v[m])
  <2>1. ASSUME m <= Len(t), m > Len(v) \/ t[m] > v[m] PROVE Below(r, t)
    <3>1. v # t /\ m \in 1 .. Len(t)
      BY <1>4, <1>5, <1>6, <2>1
    <3>2. m > Len(v) \/ v[m] < t[m]
      BY <2>1, <1>4, <1>5
    <3> QED
      BY <1>0, <1>4, <3>1, <3>2
  <2>2. ASSUME Below(r, t) PROVE m <= Len(t) /\ (m > Len(v) \/ t[m] > v[m])
    <3>1. PICK i \in 1 .. Len(t) : /\ \A j \in 1 .. i - 1 : j <= Len(v) /\ v[j] = t[j]
                                   /\ (i > Len(v) \/ v[i] < t[i])
      BY <1>0, <2>2
    <3>2. ~(i < m)
      <4>1. i < m => i \in 1 .. m - 1
        BY <1>4, <1>5
      <4>2. i < m => (i <= Len(v) /\ v[i] = t[i])
        BY <1>4, <4>1
      <4> QED
        BY <1>4, <1>5, <3>1, <4>2
    <3>3. ~(m < i)
      <4>1. m < i => m \in 1 .. i - 1
        BY <1>4, <1>5
      <4>2. m < i => (m <= Len(v) /\ v[m] = t[m])
        BY <3>1, <4>1
      <4> QED
        BY <1>4, <1>5, <4>2
    <3>4. i = m
      BY <1>4, <3>2, <3>3
    <3> QED
      BY <1>4, <1>5, <3>1, <3>4
  <2> QED
    BY <2>1, <2>2
<1> QED
  BY <1>3, <1>4, <1>5, <1>6, <1>7

-----------------------------------------------------------------------------
(* Days that are whole. *)
LEMMA WholeDays ==
    ASSUME NEW x \in Int, NEW y \in Int, NEW n \in Int
    PROVE  /\ DifferenceInDays(x, y) > n <=> MoreDays(x - y, n)
           /\ DifferenceInDays(x, y) < n <=> MoreDays(y - x, -n)
BY DEF DifferenceInDays, MoreDays

(* The day of a time, said with and without division. *)
LEMMA SameDays ==
    ASSUME NEW x \in Int, NEW y \in Int
    PROVE  (\E d \in {0, 1} : x - d = 2 * (y \div 2)) <=> x \div 2 = y \div 2
<1>1. /\ x - 2 * (x \div 2) \in {0, 1} /\ x \div 2 \in Int
      /\ y - 2 * (y \div 2) \in {0, 1} /\ y \div 2 \in Int
  OBVIOUS
<1>2. PICK a, b : a = x \div 2 /\ b = y \div 2
  OBVIOUS
<1>3. (x - 0 = 2 * b \/ x - 1 = 2 * b) <=> a = b
  BY <1>1, <1>2
<1>4. (\E d \in {0, 1} : x - d = 2 * b) <=> (x - 0 = 2 * b \/ x - 1 = 2 * b)
  OBVIOUS
<1> QED
  BY <1>2, <1>3, <1>4

(* The comparison of dates is what its message means. *)
LEMMA DatesCompared ==
    ASSUME NEW r, NEW op \in Compared, NEW t \in Operand("DATE"), r.type = "DATE", r.value \in Operand("DATE")
    PROVE  DateTest(op, t, r.value) <=> Meaning(r, op, t)
<1> PICK v : v = r.value
  OBVIOUS
<1>1. /\ Blank \notin Int /\ Garbled \notin Int /\ v \in Int \cup {Blank, Garbled} /\ t \in Int \cup {Blank, Garbled}
      /\ (IsDate(v) <=> v \in Int) /\ (IsDate(t) <=> t \in Int)
  BY AlertsAssumption DEF Operand, IsDate
<1>2. Equal(r, t) <=> IsSameDay(t, v)
  BY <1>1, SameDays DEF Equal, IsSameDay
<1>3. Below(r, t) <=> IsAfter(t, v)
  BY <1>1 DEF Below, IsAfter
<1>4. Ordered(r, t) /\ ~Below(r, t) /\ v # t <=> IsAfter(v, t)
  BY <1>1, <1>3 DEF Ordered, IsAfter
<1>5. Ordered(r, t) /\ (~Below(r, t) \/ Equal(r, t)) <=> IsSameDay(t, v) \/ IsAfter(v, t)
  <2>1. IsSameDay(t, v) => t \in Int /\ v \in Int
    BY <1>1 DEF IsSameDay
  <2>2. (t \in Int /\ v \in Int) => (Ordered(r, t) /\ (~Below(r, t) <=> v > t \/ v = t))
    BY <1>1, <1>3 DEF Ordered, IsAfter
  <2>3. (t \in Int /\ v = t) => IsSameDay(t, v)
    BY <1>1 DEF IsSameDay
  <2>4. Ordered(r, t) => t \in Int /\ v \in Int
    BY <1>1 DEF Ordered
  <2>5. IsAfter(v, t) <=> t \in Int /\ v \in Int /\ v > t
    BY <1>1 DEF IsAfter
  <2> QED
    BY <1>2, <2>1, <2>2, <2>3, <2>4, <2>5
<1> QED
  BY <1>2, <1>3, <1>4, <1>5 DEF Compared, DateTest, Meaning

(* The comparison of numbers is what their message means, above and below  *)
(* exchanged.                                                              *)
LEMMA NumbersCompared ==
    ASSUME NEW r, NEW op \in Compared, NEW t \in Operand("NUMBER"), r.type = "NUMBER",
           r.value \in Operand("NUMBER")
    PROVE  OrderTest("NUMBER", op, ToNumber(t), ToNumber(r.value)) <=> Meaning(r, op, t)
<1> PICK v, x, y : v = r.value /\ x = ToNumber(t) /\ y = ToNumber(v)
  OBVIOUS
<1>1. /\ x \in Int \cup {Garbled} /\ (x = Garbled <=> t = Garbled) /\ Garbled \notin Int
      /\ y \in Int \cup {Garbled} /\ (y = Garbled <=> v = Garbled)
  BY AlertsAssumption DEF Operand, ToNumber
<1>2. Equal(r, t) <=> Same("NUMBER", x, y)
  BY <1>1 DEF Equal, Same
<1>3. Below(r, t) <=> Above("NUMBER", x, y)
  BY <1>1 DEF Below, Above
<1>4. Ordered(r, t) /\ ~Below(r, t) <=> Above("NUMBER", y, x) \/ Same("NUMBER", x, y)
  BY <1>1 DEF Ordered, Below, Above, Same
<1>5. Above("NUMBER", y, x) => ~Same("NUMBER", x, y)
  BY <1>1 DEF Above, Same
<1> QED
  BY <1>2, <1>3, <1>4, <1>5 DEF Compared, OrderTest, Meaning

(* So is that of texts. *)
LEMMA TextsOrdered ==
    ASSUME NEW r, NEW op \in Compared, NEW t \in Seq(Int), r.type = "TEXT", r.value \in Seq(Int)
    PROVE  OrderTest("TEXT", op, t, r.value) <=> Meaning(r, op, t)
<1> PICK v : v = r.value
  OBVIOUS
<1>1. Equal(r, t) <=> Same("TEXT", t, v)
  BY DEF Equal, Same
<1>2. Below(r, t) <=> Above("TEXT", t, v)
  BY TextsCompared
<1>3. (~Below(r, t) /\ ~Equal(r, t)) <=> Above("TEXT", v, t)
  BY TextsCompared DEF Equal
<1>4. ~Below(r, t) <=> Above("TEXT", v, t) \/ Same("TEXT", t, v)
  <2>1. Equal(r, t) => ~Below(r, t)
    BY DEF Equal, Below
  <2> QED
    BY <1>1, <1>3, <2>1
<1>5. Ordered(r, t)
  BY DEF Ordered
<1> QED
  BY <1>1, <1>2, <1>3, <1>4, <1>5 DEF Compared, OrderTest, Meaning

(* A response and a clause as the questions ask for them. *)
Typed(r, c) ==
    /\ r.type \in {"TEXT", "NUMBER", "DATE"} /\ r.value \in Operand(r.type)
    /\ Clause(r.type, c)

(* What the test of a clause says is what its message means. *)
LEMMA ClauseMeans ==
    ASSUME NEW r, NEW c, Typed(r, c), DOMAIN c # {}
    PROVE  TestAlertRuleClause(r, c) <=> Meaning(r, Tested(c), c[Tested(c)])
<1> PICK op, t, v : op = Tested(c) /\ t = c[op] /\ v = r.value
  OBVIOUS
<1>1. op \in DOMAIN c /\ op \in Compared \cup OnText \cup {"empty", "notEmpty"} \cup OnDays
  BY TestedIsOne DEF Typed, Clause
<1>2. CASE op \in {"empty", "notEmpty"}
  BY <1>2 DEF TestAlertRuleClause, Meaning, IsEmpty, OnText, OnDays
<1>3. CASE op \in OnText
  <2>1. t \in Seq(Int)
    BY <1>1, <1>3 DEF Typed, Clause
  <2>2. r.type = "TEXT" => v \in Seq(Int)
    BY DEF Typed, Operand
  <2>4. TextTest(op, t, v) \in BOOLEAN
    BY DEF TextTest, Includes, Letters!IsPrefix, Letters!IsSuffix
  <2>3. TestAlertRuleClause(r, c) <=> r.type = "TEXT" /\ TextTest(op, t, v)
    BY <1>3, <2>4 DEF TestAlertRuleClause, OnText, OnDays
  <2> QED
    BY <1>3, <2>1, <2>2, <2>3, TextsFound DEF OnText, TextTest, Meaning
<1>4. CASE op \in OnDays
  <2>1. t \in Int /\ r.type = "DATE"
    BY <1>1, <1>4 DEF Typed, Clause, OnDays, OnText, Compared
  <2>2. IsDate(v) => v \in Int
    BY <2>1 DEF Typed, Operand, IsDate
  <2>3. TestAlertRuleClause(r, c) <=> DaysTest(op, t, v)
    BY <1>4 DEF TestAlertRuleClause, OnDays, OnText
  <2> QED
    BY <1>4, <2>1, <2>2, <2>3, AlertsAssumption, WholeDays DEF OnDays, DaysTest, Meaning
<1>5. CASE op \in Compared
  <2>1. t \in Operand(r.type) /\ v \in Operand(r.type)
    BY <1>1, <1>5 DEF Typed, Clause
  <2>2. TestAlertRuleClause(r, c) <=>
          \/ r.type = "DATE" /\ DateTest(op, t, v)
          \/ r.type = "NUMBER" /\ OrderTest("NUMBER", op, ToNumber(t), ToNumber(v))
          \/ r.type = "TEXT" /\ OrderTest("TEXT", op, t, v)
    BY <1>5 DEF TestAlertRuleClause, Compared, OnText, OnDays, Typed
  <2>3. CASE r.type = "DATE"
    BY <1>5, <2>1, <2>2, <2>3, DatesCompared
  <2>4. CASE r.type = "NUMBER"
    BY <1>5, <2>1, <2>2, <2>4, NumbersCompared
  <2>5. CASE r.type = "TEXT"
    BY <1>5, <2>1, <2>2, <2>5, TextsOrdered DEF Operand
  <2> QED
    BY <2>3, <2>4, <2>5 DEF Typed
<1> QED
  BY <1>1, <1>2, <1>3, <1>4, <1>5

(* A clause holds when it means what the response is. *)
LEMMA TrueMeans ==
    ASSUME NEW r, NEW c, Typed(r, c)
    PROVE  True(r, c) <=> Means(r, c)
BY ClauseMeans DEF True, Means, PassedOver

(* A rule is hit when what it combines is meant, and says what it means.   *)
LEMMA RuleMeans ==
    ASSUME NEW r, NEW rule, DOMAIN rule.parts \subseteq Nat,
           \A i \in DOMAIN rule.parts : Typed(r, rule.parts[i])
    PROVE  /\ TestAlertRule(r, rule).hit <=> Fits(r, rule)
           /\ TestAlertRule(r, rule).hit =>
                \A i \in DOMAIN TestAlertRule(r, rule).says : Means(r, TestAlertRule(r, rule).says[i])
<1> DEFINE H == {i \in DOMAIN rule.parts : True(r, rule.parts[i])}
<1>1. \A i \in DOMAIN rule.parts : True(r, rule.parts[i]) <=> Means(r, rule.parts[i])
  BY TrueMeans
<1>2. CASE rule.kind = "AND"
  <2>1. TestAlertRule(r, rule).hit <=> H = DOMAIN rule.parts
    BY <1>2 DEF TestAlertRule
  <2>2. TestAlertRule(r, rule).says = rule.parts
    BY <1>2 DEF TestAlertRule
  <2> QED
    BY <1>1, <1>2, <2>1, <2>2 DEF Fits
<1>3. CASE rule.kind # "AND"
  <2>1. TestAlertRule(r, rule).hit <=> H # {}
    BY <1>3 DEF TestAlertRule
  <2>2. H # {} => TestAlertRule(r, rule).says = <<rule.parts[First(H)]>>
    BY <1>3 DEF TestAlertRule
  <2>3. H # {} => First(H) \in H
    <3>1. H \subseteq Nat
      OBVIOUS
    <3> HIDE DEF H
    <3> QED
      BY <3>1, FirstIsOne
  <2>4. ASSUME H # {}, NEW i \in DOMAIN TestAlertRule(r, rule).says
        PROVE  Means(r, TestAlertRule(r, rule).says[i])
    <3> PICK p : p = rule.parts[First(H)]
      OBVIOUS
    <3>1. Means(r, p)
      BY <1>1, <2>3, <2>4
    <3>2. DOMAIN <<p>> = {1} /\ <<p>>[1] = p
      OBVIOUS
    <3> QED
      BY <2>2, <2>4, <3>1, <3>2
  <2> QED
    BY <1>1, <1>3, <2>1, <2>4 DEF Fits
<1> QED
  BY <1>2, <1>3

(* Alerts are rows of the table. *)
AlertsTyped == \A a \in alerts : DOMAIN a = {"criterion", "says", "resolved", "by", "image"}

(* The alerts of an inspection are exact when they are raised, *)
LEMMA AlertsRaised ==
    ASSUME HandleAlertTriggers
    PROVE  AlertsTyped' /\ AlertsExact'
<1>1. PICK r \in Responses, stage \in {"COMPLETE", "PENDING"} : \E criteria \in CriteriaFor[r.type] :
        LET asked == stage = "COMPLETE" /\ r.asked \in {"SETUP_AND_INSPECTION", "INSPECTION"}
            thrown == asked /\ \E c \in criteria : Throws(r, c.rule)
            raised == {c \in criteria : asked /\ ~thrown /\ TestAlertRule(r, c.rule).hit}
        IN  /\ report' = [outcome |-> IF thrown THEN "refused" ELSE "recorded",
                          status |-> stage, response |-> r, criteria |-> criteria]
            /\ alerts' = {[criterion |-> c, says |-> TestAlertRule(r, c.rule).says,
                           resolved |-> c.auto, by |-> "nobody", image |-> FALSE] : c \in raised}
  BY DEF HandleAlertTriggers
<1>2. PICK C, asked, thrown, raised :
        /\ C \in CriteriaFor[r.type] /\ asked \in BOOLEAN /\ thrown \in BOOLEAN
        /\ asked <=> stage = "COMPLETE" /\ r.asked \in {"SETUP_AND_INSPECTION", "INSPECTION"}
        /\ thrown => \E c \in C : Throws(r, c.rule)
        /\ raised = {c \in C : asked /\ ~thrown /\ TestAlertRule(r, c.rule).hit}
        /\ report' = [outcome |-> IF thrown THEN "refused" ELSE "recorded",
                      status |-> stage, response |-> r, criteria |-> C]
        /\ alerts' = {[criterion |-> c, says |-> TestAlertRule(r, c.rule).says,
                       resolved |-> c.auto, by |-> "nobody", image |-> FALSE] : c \in raised}
  <2> DEFINE ask == stage = "COMPLETE" /\ r.asked \in {"SETUP_AND_INSPECTION", "INSPECTION"}
             threw(C) == ask /\ \E c \in C : Throws(r, c.rule)
  <2>1. PICK C \in CriteriaFor[r.type] :
        /\ report' = [outcome |-> IF threw(C) THEN "refused" ELSE "recorded",
                      status |-> stage, response |-> r, criteria |-> C]
        /\ alerts' = {[criterion |-> c, says |-> TestAlertRule(r, c.rule).says,
                       resolved |-> c.auto, by |-> "nobody", image |-> FALSE]
                       : c \in {c \in C : ask /\ ~threw(C) /\ TestAlertRule(r, c.rule).hit}}
    BY <1>1, Zenon
  <2>2. /\ C \in CriteriaFor[r.type] /\ ask \in BOOLEAN /\ threw(C) \in BOOLEAN
        /\ ask <=> stage = "COMPLETE" /\ r.asked \in {"SETUP_AND_INSPECTION", "INSPECTION"}
        /\ threw(C) => \E c \in C : Throws(r, c.rule)
    BY <2>1
  <2> HIDE DEF ask, threw
  <2> QED
    BY <2>1, <2>2, Zenon
<1>3. \A c \in C : /\ DOMAIN c.rule.parts \subseteq Nat
                   /\ \A i \in DOMAIN c.rule.parts : Typed(r, c.rule.parts[i])
  BY <1>2, AlertsAssumption DEF Typed
<1>4. asked <=> stage = "COMPLETE" /\ r.asked # "SETUP"
  BY <1>2, AlertsAssumption
<1> DEFINE hit(c) == TestAlertRule(r, c.rule).hit
           says(c) == TestAlertRule(r, c.rule).says
<1>5. \A c \in C : /\ hit(c) <=> Fits(r, c.rule)
                   /\ hit(c) => \A i \in DOMAIN says(c) : Means(r, says(c)[i])
  BY <1>3, RuleMeans
<1>6. /\ \A a \in alerts' : /\ DOMAIN a = {"criterion", "says", "resolved", "by", "image"}
                             /\ a.criterion \in raised /\ a.says = says(a.criterion)
      /\ \A c \in raised : \E a \in alerts' : a.criterion = c
  <2> HIDE DEF says
  <2> DEFINE row(c) == [criterion |-> c, says |-> says(c),
                        resolved |-> c.auto, by |-> "nobody", image |-> FALSE]
  <2>1. alerts' = {row(c) : c \in raised}
    BY <1>2 DEF says
  <2>2. \A c : /\ DOMAIN row(c) = {"criterion", "says", "resolved", "by", "image"}
              /\ row(c).criterion = c /\ row(c).says = says(c)
    OBVIOUS
  <2> HIDE DEF row
  <2>3. ASSUME NEW a \in alerts'
        PROVE  /\ DOMAIN a = {"criterion", "says", "resolved", "by", "image"}
               /\ a.criterion \in raised /\ a.says = says(a.criterion)
    <3>1. PICK c \in raised : a = row(c)
      BY <2>1
    <3> QED
      BY <2>2, <3>1
  <2>4. \A c \in raised : \E a \in alerts' : a.criterion = c
    BY <2>1, <2>2
  <2> QED
    BY <2>3, <2>4
<1>7. AlertsTyped'
  BY <1>6 DEF AlertsTyped
<1>8. \A c : c \in raised <=> c \in C /\ asked /\ ~thrown /\ hit(c)
  BY <1>2
<1>9. /\ report'.status = stage /\ report'.response = r /\ report'.criteria = C
      /\ report'.outcome = "recorded" <=> ~thrown
      /\ report'.outcome = "refused" <=> thrown
  BY <1>2
<1> HIDE DEF hit, says
<1>10. {a.criterion : a \in alerts'} = raised
  BY <1>6
<1>11. ~thrown => raised = {c \in C : (stage = "COMPLETE" /\ r.asked # "SETUP") /\ Fits(r, c.rule)}
  BY <1>4, <1>5, <1>8
<1>12. \A a \in alerts' : \A i \in DOMAIN a.says : Means(r, a.says[i])
  BY <1>5, <1>6, <1>8
<1>13. ASSUME thrown
       PROVE  \E c \in C : \E i \in DOMAIN c.rule.parts :
                ~IsDate(c.rule.parts[i][Tested(c.rule.parts[i])])
  BY <1>2, <1>13 DEF Throws
<1>14. AlertsExact'
  <2>1. (report'.outcome = "recorded") =>
           {a.criterion : a \in alerts'} =
             {c \in report'.criteria : (report'.status = "COMPLETE" /\ report'.response.asked # "SETUP")
                                        /\ Fits(report'.response, c.rule)}
    BY <1>9, <1>10, <1>11
  <2>2. \A a \in alerts' : \A i \in DOMAIN a.says : Means(report'.response, a.says[i])
    BY <1>9, <1>12
  <2>3. (report'.outcome = "refused") =>
           \E c \in report'.criteria : \E i \in DOMAIN c.rule.parts :
             ~IsDate(c.rule.parts[i][Tested(c.rule.parts[i])])
    BY <1>9, <1>13
  <2> QED
    BY <2>1, <2>2, <2>3 DEF AlertsExact
<1> QED
  BY <1>7, <1>14

(* and stay so when they are resolved or get an image. *)
LEMMA AlertsKept ==
    ASSUME AlertsTyped, AlertsExact, ResolveAlert \/ AttachInspectionImage \/ UNCHANGED alertVars
    PROVE  AlertsTyped' /\ AlertsExact'
<1>1. report' = report
  BY DEF ResolveAlert, AttachInspectionImage, alertVars
<1>2. /\ \A a \in alerts : \E b \in alerts' : b.criterion = a.criterion
      /\ \A b \in alerts' : /\ DOMAIN b = {"criterion", "says", "resolved", "by", "image"}
                            /\ \E a \in alerts : b.criterion = a.criterion /\ b.says = a.says
  <2>1. CASE UNCHANGED alertVars
    BY <2>1 DEF AlertsTyped, alertVars
  <2>2. CASE ResolveAlert \/ AttachInspectionImage
    <3>1. PICK a, b : /\ a \in alerts /\ alerts' = (alerts \ {a}) \cup {b}
                      /\ DOMAIN b = DOMAIN a /\ b.criterion = a.criterion /\ b.says = a.says
      <4>1. CASE ResolveAlert
        <5>1. PICK a \in alerts, p \in Resolvers :
                alerts' = (alerts \ {a}) \cup {[a EXCEPT !.resolved = TRUE, !.by = p]}
          BY <4>1 DEF ResolveAlert
        <5>2. PICK b : b = [a EXCEPT !.resolved = TRUE, !.by = p]
          OBVIOUS
        <5>3. DOMAIN b = DOMAIN a /\ b.criterion = a.criterion /\ b.says = a.says
          BY <5>2 DEF AlertsTyped
        <5> QED
          BY <5>1, <5>2, <5>3
      <4>2. CASE AttachInspectionImage
        <5>1. PICK a \in alerts : alerts' = (alerts \ {a}) \cup {[a EXCEPT !.image = TRUE]}
          BY <4>2 DEF AttachInspectionImage
        <5>2. PICK b : b = [a EXCEPT !.image = TRUE]
          OBVIOUS
        <5>3. DOMAIN b = DOMAIN a /\ b.criterion = a.criterion /\ b.says = a.says
          BY <5>2 DEF AlertsTyped
        <5> QED
          BY <5>1, <5>2, <5>3
      <4> QED
        BY <2>2, <4>1, <4>2
    <3> QED
      BY <3>1 DEF AlertsTyped
  <2> QED
    BY <2>1, <2>2
<1>3. {a.criterion : a \in alerts'} = {a.criterion : a \in alerts}
  BY <1>2
<1>4. AlertsTyped'
  BY <1>2 DEF AlertsTyped
<1>5. ASSUME report # NoReport PROVE AlertsExact'
  <2> DEFINE r == report.response
             due == report.status = "COMPLETE" /\ report.response.asked # "SETUP"
  <2>1. /\ report.outcome = "recorded" =>
             {a.criterion : a \in alerts} = {c \in report.criteria : due /\ Fits(r, c.rule)}
        /\ \A a \in alerts : \A i \in DOMAIN a.says : Means(r, a.says[i])
    BY <1>5 DEF AlertsExact
  <2>2. \A a \in alerts' : \A i \in DOMAIN a.says : Means(r, a.says[i])
    BY <1>2, <2>1
  <2>3. report.outcome = "recorded" =>
             {a.criterion : a \in alerts'} = {c \in report.criteria : due /\ Fits(r, c.rule)}
    BY <1>3, <2>1
  <2> QED
    BY <1>1, <2>2, <2>3 DEF AlertsExact
<1>6. ASSUME report = NoReport PROVE AlertsExact'
  BY <1>1, <1>6 DEF AlertsExact
<1> QED
  BY <1>4, <1>5, <1>6

(* An alert is raised for exactly the criteria whose clauses mean what the *)
(* response is, and says nothing that does not hold, whatever becomes of   *)
(* it later (testAlertRule, handleAlertTriggers, resolveAlert).            *)
THEOREM AlertsStayExact == AlertsSpec => []AlertsExact
<1>1. AlertsInit => AlertsTyped /\ AlertsExact
  BY DEF AlertsInit, AlertsTyped, AlertsExact
<1>2. AlertsTyped /\ AlertsExact /\ [AlertSteps]_alertVars => AlertsTyped' /\ AlertsExact'
  BY AlertsRaised, AlertsKept DEF AlertSteps
<1> QED
  BY <1>1, <1>2, PTL DEF AlertsSpec
=============================================================================
