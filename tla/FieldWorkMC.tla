---------------------------- MODULE FieldWorkMC -----------------------------
(* Tags, signatures, assets, questions, routes and event streams, which    *)
(* share no state: a behaviour of the run is one of one of them.  Two clients, the  *)
(* first with a site and a subsite, an asset for each, and one tag.        *)
EXTENDS Scans, Assets, Questions, RouteOrder, EventStreams, TLC

CONSTANTS s1, s2, s3, c1, c2, a1, a2, k1, k2, q1, q2, q3, x, y, n, p1

VARIABLE part

vars == <<part, tagVars, signVars, assetVars, questionVars, routeVars, eventVars>>

Grant(p, c, s, scope) == [person |-> p, client |-> c, site |-> s, scope |-> scope]
GrantSet == {Grant("ann", c1, s1, "SITE_GROUP"), Grant("bob", c1, s1, "SITE"),
             Grant("dan", c2, s3, "CLIENT")}
CallerSet == {g \in GrantSet : g.person # "bob"}
ParentTable == s1 :> None @@ s2 :> s1 @@ s3 :> None
ClientTable == s1 :> c1 @@ s2 :> c1 @@ s3 :> c2
AssetTable == a1 :> s2 @@ a2 :> s3

(* Two setup questions about one product; the second sets a fixed text and *)
(* the third, asked at any time, a key of its own.                         *)
TypeTable == q1 :> "SETUP" @@ q2 :> "SETUP_AND_INSPECTION" @@ q3 :> "CONFIGURATION"
ConfigTable == q1 :> {[key |-> k1, static |-> NoValue]}
               @@ q2 :> {[key |-> k1, static |-> x]}
               @@ q3 :> {[key |-> k2, static |-> NoValue]}
ConsumableTable == q1 :> p1 @@ q2 :> p1 @@ q3 :> NoValue
AnswerTable == {q1 :> n, q3 :> y, q1 :> y @@ q2 :> y, q2 :> y @@ q3 :> x}
EditTable == {k1 :> NoValue @@ k2 :> x}

(* The answer to "size" brings up the question that fixes "kind"; the      *)
(* third question has a condition and old fields that are not the same.    *)
Cond(type, values) == [type |-> type, values |-> values]
BigSize == Cond("METADATA", {<<"size", "big">>})
OfExtinguishers == Cond("PRODUCT_CATEGORY", {"extinguisher"})
ConditionSet == {BigSize, OfExtinguishers, Cond("PRODUCT_CATEGORY", {"hose", "extinguisher"})}
FactSet == {<<"PRODUCT_CATEGORY", "extinguisher">>, <<"PRODUCT", "co2">>}
KindTable == "size" :> "CONFIGURATION" @@ "kind" :> "CONFIGURATION" @@ "seal" :> "SETUP_AND_INSPECTION"
SetTable == "size" :> {[key |-> "size", static |-> Nothing]}
            @@ "kind" :> {[key |-> "kind", static |-> "dry"]} @@ "seal" :> {}
OptionTable == "size" :> {"big"} @@ "kind" :> {} @@ "seal" :> {}
FirstConditionTable == "size" :> {OfExtinguishers} @@ "kind" :> {OfExtinguishers, BigSize}
                       @@ "seal" :> {Cond("PRODUCT_CATEGORY", {"hose"})}
FieldTable == [q \in QuestionIds |-> IF q = "seal" THEN [category |-> "extinguisher", product |-> "co2"]
                                     ELSE [category |-> Nothing, product |-> Nothing]]

Init ==
    /\ TagsInit /\ SignInit /\ AssetsInit /\ QuestionsInit /\ EventsInit
    /\ \/ part = "route" /\ RouteInit
       \/ /\ part \in {"tags", "signatures", "assets", "questions", "events"}
          /\ order = [p \in Points |-> NoOrder] /\ move = [m \in Movers |-> NoMove]

Next ==
    \/ part = "tags" /\ TagSteps
       /\ UNCHANGED <<part, signVars, assetVars, questionVars, routeVars, eventVars>>
    \/ part = "signatures" /\ SignSteps
       /\ UNCHANGED <<part, tagVars, assetVars, questionVars, routeVars, eventVars>>
    \/ part = "assets" /\ AssetSteps
       /\ UNCHANGED <<part, tagVars, signVars, questionVars, routeVars, eventVars>>
    \/ part = "questions" /\ QuestionSteps
       /\ UNCHANGED <<part, tagVars, signVars, assetVars, routeVars, eventVars>>
    \/ part = "route" /\ RouteSteps
       /\ UNCHANGED <<part, tagVars, signVars, assetVars, questionVars, eventVars>>
    \/ part = "events" /\ EventSteps
       /\ UNCHANGED <<part, tagVars, signVars, assetVars, questionVars, routeVars>>

(* Nothing that EventFairness asks for is enabled in the other parts.  The *)
(* user of "questions" goes on as long as something is lacking.            *)
FairSpec ==
    /\ Init /\ [][Next]_vars
    /\ EventFairness
    /\ WF_questionVars(part = "questions" /\ (CheckAssetConfiguration \/ Answer))

(* Answering what the check finds lacking, again and again since answers   *)
(* bring up further questions, comes to an end: the configuration is met   *)
(* once the questions are left alone (checkAssetConfiguration, configure). *)
(* No key is set by two questions here.                                    *)
ConfigurationSettles == <>[](part = "questions" => ConfigurationMet)
=============================================================================
