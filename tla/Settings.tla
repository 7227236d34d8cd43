------------------------------ MODULE Settings ------------------------------
(* The block of global settings (SettingsService): one row, and a copy in  *)
(* the memory of each server that nothing ever expires.  An earlier        *)
(* release may have left a row that lacks some of today's keys.            *)
(* The value of a key is the number of the save that wrote it, 0 for the   *)
(* default of this release and -1 for what an earlier one left.            *)
EXTENDS Integers

CONSTANTS
    Servers,
    SettingKeys,    \* the keys of DEFAULT_GLOBAL_SETTINGS
    EarlierKeys,    \* those that an earlier release had
    SettingCalls,   \* slots for calls of the service
    NoBlock,
    MaxSaves

VARIABLES
    block,      \* the row of SettingsBlock: key -> value
    copies,     \* server -> the cached block
    lookup,     \* slot -> the call being served there
    saves,
    writes,     \* how often the row was written
    behind      \* servers with a copy that a write has passed by

settingsVars == <<block, copies, lookup, saves, writes, behind>>

NoLookup == [pc |-> "idle"]
Defaults == [k \in SettingKeys |-> 0]
WithDefaults(b) == [k \in SettingKeys \cup DOMAIN b |-> IF k \in SettingKeys THEN Defaults[k] ELSE b[k]]

SettingsInit ==
    /\ block \in {NoBlock, [k \in EarlierKeys |-> -1], [k \in SettingKeys |-> -1]}
    /\ copies = [s \in Servers |-> NoBlock]
    /\ lookup = [c \in SettingCalls |-> NoLookup]
    /\ saves = 0 /\ writes = 0
    /\ behind = {}

In(c, pc) == lookup[c].pc = pc
Storing(s) == {c \in SettingCalls : In(c, "store") /\ lookup[c].server = s}

(* A call: where it is, the server, its data and the keys the row lacked   *)
(* when it was read; the writes there had been when it last read or wrote, *)
(* and whether the copy it took might have been old.                       *)
Call(pc, s, data, late) ==
    [pc |-> pc, server |-> s, data |-> data, lacked |-> {}, since |-> writes, late |-> late]
Move(c, q) == lookup' = [lookup EXCEPT ![c] = q]

(* shouldUpdateDefaultValues *)
ShouldUpdateDefaultValues(data) == SettingKeys \ DOMAIN data # {}

(* A write of the row passes the other servers by, and its own if another  *)
(* call is about to store what it has read.                                *)
PassedBy(c) ==
    /\ writes' = writes + 1
    /\ behind' = behind \cup (Servers \ {lookup[c].server})
                        \cup {lookup[d].server : d \in {e \in SettingCalls \ {c} : In(e, "store")}}

(* getGlobalSettings: what is cached if it has every key, else the row. *)
GetGlobalSettings(c, s) ==
    /\ In(c, "idle")
    /\ IF copies[s] # NoBlock /\ ~ShouldUpdateDefaultValues(copies[s])
       THEN Move(c, Call("answer", s, copies[s], s \in behind \/ Storing(s) # {}))
       ELSE Move(c, Call("find", s, NoBlock, FALSE))
    /\ UNCHANGED <<block, copies, saves, writes, behind>>

(* Faulty variant: the defaults are merged in whenever the row is read. *)
FindBlockFills(c) ==
    /\ In(c, "find") /\ block # NoBlock
    /\ Move(c, [lookup[c] EXCEPT !.pc = "fill", !.data = WithDefaults(block), !.since = writes,
                                 !.lacked = SettingKeys \ DOMAIN block])
    /\ UNCHANGED <<block, copies, saves, writes, behind>>

(* findUnique, and what it leads to: defaults take the place of the values *)
(* in a block that lacks a key.                                            *)
FindBlock(c) ==
    /\ In(c, "find")
    /\ Move(c, CASE block = NoBlock -> [lookup[c] EXCEPT !.pc = "create"]
                 [] block # NoBlock /\ ShouldUpdateDefaultValues(block) ->
                      [lookup[c] EXCEPT !.pc = "fill", !.data = WithDefaults(block), !.since = writes,
                                        !.lacked = SettingKeys \ DOMAIN block]
                 [] OTHER -> [lookup[c] EXCEPT !.pc = "store", !.data = block, !.since = writes])
    /\ UNCHANGED <<block, copies, saves, writes, behind>>

(* friendlyId is unique: the second to create fails. *)
CreateBlock(c) ==
    /\ In(c, "create")
    /\ IF block = NoBlock
       THEN /\ block' = Defaults
            /\ PassedBy(c)
            /\ Move(c, [lookup[c] EXCEPT !.pc = "store", !.data = Defaults, !.since = writes'])
       ELSE Move(c, NoLookup) /\ UNCHANGED <<block, writes, behind>>
    /\ UNCHANGED <<copies, saves>>

FillBlock(c) ==
    /\ In(c, "fill")
    /\ block' = lookup[c].data
    /\ PassedBy(c)
    /\ Move(c, [lookup[c] EXCEPT !.pc = "store", !.since = writes'])
    /\ UNCHANGED <<copies, saves>>

(* updateGlobalSettings: the whole block. *)
UpdateGlobalSettings(c, s) ==
    /\ In(c, "idle") /\ saves < MaxSaves
    /\ saves' = saves + 1
    /\ Move(c, Call("save", s, [k \in SettingKeys |-> saves'], FALSE))
    /\ UNCHANGED <<block, copies, writes, behind>>

(* The row must be there. *)
Save(c) ==
    /\ In(c, "save")
    /\ IF block = NoBlock THEN Move(c, NoLookup) /\ UNCHANGED <<block, writes, behind>>
       ELSE /\ block' = lookup[c].data
            /\ PassedBy(c)
            /\ Move(c, [lookup[c] EXCEPT !.pc = "store", !.since = writes'])
    /\ UNCHANGED <<copies, saves>>

(* memoryCache.set.  The copy is up to date again if no call of the server *)
(* is about to put an older one there.                                     *)
StoreCopy(c) ==
    /\ In(c, "store")
    /\ LET q == lookup[c] IN
       /\ copies' = [copies EXCEPT ![q.server] = q.data]
       /\ Move(c, [q EXCEPT !.pc = "answer"])
       /\ behind' = IF q.data = block /\ Storing(q.server) = {c}
                    THEN behind \ {q.server} ELSE behind
    /\ UNCHANGED <<block, saves, writes>>

(* An await that rejects, and a server that starts again. *)
LookupFails(c) ==
    /\ lookup[c].pc \in {"find", "create", "fill", "save"}
    /\ Move(c, NoLookup)
    /\ UNCHANGED <<block, copies, saves, writes, behind>>

RestartServer(s) ==
    /\ copies' = [copies EXCEPT ![s] = NoBlock]
    /\ lookup' = [c \in SettingCalls |->
                    IF ~In(c, "idle") /\ lookup[c].server = s THEN NoLookup ELSE lookup[c]]
    /\ behind' = behind \ {s}
    /\ UNCHANGED <<block, saves, writes>>
-----------------------------------------------------------------------------
(* A server has no copy, or has the row, unless another server wrote it or *)
(* calls of its own overlapped: docs/settings.md:18 says that the cache is *)
(* "invalidated on update", which reaches one server                       *)
(* (settings.service.ts:112-145).                                          *)
CopiesExplained == \A s \in Servers \ behind : Storing(s) = {} => copies[s] \in {NoBlock, block}

(* A block with every key is replaced by a save alone, or by a call that   *)
(* read it when it lacked one; what is saved into it is lost then, and the *)
(* values it had besides the missing ones (settings.service.ts:86-99).     *)
LostToDefaultsOnly ==
    [][block # NoBlock /\ block' # block /\ DOMAIN block = SettingKeys =>
         \E c \in SettingCalls :
           \/ In(c, "save") /\ block' = lookup[c].data
           \/ In(c, "fill") /\ lookup[c].lacked # {}]_settingsVars
=============================================================================
