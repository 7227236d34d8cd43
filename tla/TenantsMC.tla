----------------------------- MODULE TenantsMC ------------------------------
(* How a client gets its data, and what its office makes of it: the import *)
(* from the old system and the copying of demo clients; the alerts raised  *)
(* by inspections, the history of compliance, and requests for products    *)
(* under the global settings.  They share no rows here: a behaviour of the *)
(* run is one of one of them.                                              *)
EXTENDS LegacyMigration, Clients, AlertRules, Compliance, ProductRequests, TLC

CONSTANTS w1, w2, k1, k2, j1, j2, ann, bob, v1, v2, l1, l2

VARIABLE part

vars == <<part, migrationVars, clientVars, alertVars, complianceVars, orderVars>>

(* Two legacy clients: one with a group, two locations and three assets,   *)
(* the other with a private category of the same short name, a product it  *)
(* shares, whose category is then whichever has that short name and is     *)
(* visible, and a tag with the serial number of one that is taken.         *)
Groups == k1 :> <<[no |-> "g1", id |-> "G1"]>> @@ k2 :> <<[no |-> "g2", id |-> None]>>
Locations ==
    k1 :> <<[no |-> "l1", id |-> "L1", group |-> "g1", data |-> "full"],
            [no |-> "l2", id |-> "L2", group |-> None, data |-> "blank"]>> @@
    k2 :> <<[no |-> "l3", id |-> "L3", group |-> "g2", data |-> "ask"]>>

Asset(no, place, product, tag, sort) ==
    [no |-> no, id |-> <<no>>, site |-> place, product |-> product, tag |-> tag, sort |-> sort]
AssetTable ==
    k1 :> <<Asset("a2", "l1", "ownA", "t1", TRUE), Asset("a1", "l1", "pump", "t1", TRUE),
            Asset("a3", "l2", "gas", "t3", FALSE)>> @@
    k2 :> <<Asset("a4", "l3", "ownB", "t2", TRUE), Asset("a5", "l3", "pump", "t3", FALSE)>>

Product(id, type, category, maker) ==
    [id |-> id, type |-> type, category |-> category, maker |-> maker, name |-> id]
ProductTable ==
    "pump" :> Product("P1", "primary", "catX", "m1") @@
    "gas"  :> Product("P2", "primary", "catY", "m2") @@
    "ownA" :> Product(None, "category", "catA", None) @@
    "ownB" :> Product(None, "category", "catB", None)
CategoryTable ==
    "catX" :> [id |-> "CX", nick |-> "FE", owner |-> None] @@
    "catY" :> [id |-> "CY", nick |-> "Y", owner |-> None] @@
    "catA" :> [id |-> "CA", nick |-> "FE", owner |-> k1] @@
    "catB" :> [id |-> "CB", nick |-> "FE", owner |-> k2]
MakerTable == "m1" :> [id |-> "M1", name |-> "Acme", owner |-> None] @@
              "m2" :> [id |-> None, name |-> None, owner |-> None]
TagTable == "t1" :> [id |-> "T1", serial |-> "7"] @@ "t2" :> [id |-> "T2", serial |-> "7"]
            @@ "t3" :> [id |-> "T3", serial |-> "8"]

(* A global category with a short name, and two tags nobody has. *)
StartRows == {[New("category", 0, "y") EXCEPT !.name = "Y"], [New("tag", 0, "7") EXCEPT !.name = "7"],
              [New("tag", 0, "8") EXCEPT !.name = "8"]}
EarlyAssets == {AssetTable[k1][1], AssetTable[k1][2], AssetTable[k2][1]}

(* A demo client with two sites, one under the other, and a real client;   *)
(* one person is a member of both, and primary at the real one.            *)
Demo == <<1>>
Real == <<2>>
Top == <<1>>
Under == <<2>>
Other == <<3>>

TwoClients == Demo :> [demo |-> TRUE] @@ Real :> [demo |-> FALSE]
Sites == Top :> [client |-> Demo, parent |-> NoClient] @@ Under :> [client |-> Demo, parent |-> Top]
         @@ Other :> [client |-> Real, parent |-> NoClient]
Assets == <<1>> :> [site |-> Under, tagged |-> FALSE, setup |-> FALSE, created |-> Today]
          @@ <<2>> :> [site |-> Other, tagged |-> FALSE, setup |-> TRUE, created |-> 0]
Row(x, c, s, b) == [person |-> <<x>>, client |-> c, site |-> s, primary |-> b, inspector |-> TRUE]
Rows == {Row(ann, Demo, Under, TRUE), Row(bob, Real, Other, TRUE), Row(bob, Demo, Top, FALSE)}
Inspected == {[asset |-> <<2>>, at |-> 1, by |-> "person"]}

(* Every operator once alone, on operands around the values; pairs of the  *)
(* operators that differ in what they compare; a clause with two.          *)
Texts == {<<>>, <<1>>, <<2>>, <<1, 2>>, <<2, 1>>, <<1, 2, 1>>}
Numbers == {Blank, Garbled} \cup -1..2
Answer(type, v, asked) == [type |-> type, value |-> v, asked |-> asked]
ResponseSet ==
    {Answer("TEXT", v, "INSPECTION") : v \in Texts}
    \cup {Answer("NUMBER", v, "SETUP_AND_INSPECTION") : v \in Numbers}
    \cup {Answer("DATE", v, "INSPECTION") : v \in {Blank, Garbled} \cup 5..15}
    \cup {Answer("DATE", 10, "SETUP")}

With(ops, operands) == UNION {[{op} -> operands] : op \in ops}
ClausesFor(type) ==
    LET operands == CASE type = "TEXT" -> Texts [] type = "NUMBER" -> Numbers
                      [] OTHER -> {Garbled, 9, 10, 11}
    IN  With({"is", "equals", "gt", "gte", "lt", "lte", "not"}, operands)
        \cup With({"contains", "notContains", "startsWith", "endsWith"}, {<<>>, <<1>>, <<2, 1>>})
        \cup With({"empty", "notEmpty"}, {TRUE})
        \cup (IF type # "DATE" THEN {}
              ELSE With({"beforeDaysPast", "afterDaysPast", "beforeDaysFuture", "afterDaysFuture"}, -1..2))
        \cup {"gte" :> o @@ "lte" :> o : o \in operands}
PairsFor(type) ==
    {<<c, d>> \in ClausesFor(type) \X ClausesFor(type) :
       /\ DOMAIN c # DOMAIN d
       /\ DOMAIN c \cap {"gt", "empty", "contains", "beforeDaysPast"} # {}
       /\ DOMAIN d \cap {"lt", "not", "endsWith", "afterDaysFuture"} # {}}
RulesFor(type) == [kind : {"value"}, parts : {<<c>> : c \in ClausesFor(type)}]
                  \cup [kind : {"AND", "OR"}, parts : PairsFor(type) \cup {<<>>}]
CriteriaTable ==
    [type \in {"TEXT", "NUMBER", "DATE"} |->
       {{[rule |-> r, auto |-> FALSE]} : r \in RulesFor(type)}
       \cup {{[rule |-> [kind |-> "value", parts |-> <<"notEmpty" :> TRUE>>], auto |-> b] : b \in BOOLEAN}}]

(* An asset with the cycle of its client, made before the history, and one *)
(* of another client with its own, made within it; months of two days.     *)
OwnerTable == "mine" :> "A" @@ "theirs" :> "B"
CycleTable == "mine" :> NoCycle @@ "theirs" :> 3
DefaultTable == "A" :> 2 @@ "B" :> 4
MadeTable == "mine" :> 0 @@ "theirs" :> 14
TimesTable == "mine" :> {S \in SUBSET {6, 14, 16, 22, 30} : Cardinality(S) <= 2}
              @@ "theirs" :> {{}, {14}}
ServiceSets == {{"mine", "theirs"}, {"mine"}}

Symmetry == Permutations(Servers) \cup Permutations(SettingCalls)

Init ==
    /\ part \in {"import", "clients", "alerts", "compliance", "orders"}
    /\ MigrationInit /\ ClientsInit /\ AlertsInit /\ RequestsInit
    /\ ComplianceInit /\ (part # "compliance" => inService = {"mine"} /\ \A a \in Tracked : times[a] = {})
    /\ SettingsInit /\ (part # "orders" => block = NoBlock)

Next ==
    \/ part = "import" /\ MigrationSteps
       /\ UNCHANGED <<part, clientVars, alertVars, complianceVars, orderVars>>
    \/ part = "clients" /\ ClientSteps
       /\ UNCHANGED <<part, migrationVars, alertVars, complianceVars, orderVars>>
    \/ part = "alerts" /\ AlertSteps
       /\ UNCHANGED <<part, migrationVars, clientVars, complianceVars, orderVars>>
    \/ part = "compliance" /\ ComplianceSteps
       /\ UNCHANGED <<part, migrationVars, clientVars, alertVars, orderVars>>
    \/ part = "orders" /\ OrderSteps
       /\ UNCHANGED <<part, migrationVars, clientVars, alertVars, complianceVars>>

Spec == Init /\ [][Next]_vars
=============================================================================
