----------------------------- MODULE Questions ------------------------------
(***************************************************************************)
(* AssetQuestionsService: which questions an asset is asked                *)
(* (findQuestionIdsByAsset, a query that counts joined rows), what its     *)
(* metadata still lacks (checkAssetConfiguration), and the move of         *)
(* questions from their old product fields to conditions.  The answers go  *)
(* through AssetsService.configure and change what is asked next.          *)
(***************************************************************************)
EXTENDS Naturals, FiniteSets

CONSTANTS
    Nothing,
    QuestionIds,
    KindOf,         \* question |-> AssetQuestionType
    SetsOf,         \* question |-> set of [key, static], static = Nothing if DYNAMIC
    OptionsOf,      \* question |-> select options, {} for other kinds of question
    MetadataKeys,
    Words,          \* metadata values
    Facts,          \* what holds of the asset: pairs of a condition type and a value
    Conditions,     \* the conditions that can be given: [type, values]
    FirstConditions,\* question |-> its conditions at first
    FirstFields,    \* question |-> [category, product], its old fields at first
    MaxEdits        \* bound on the edits of questions

VARIABLES
    conditions,     \* question |-> its conditions
    fields,         \* question |-> [category, product]
    inactive,       \* questions that are not active
    custom,         \* question |-> enabled, in the client's customization, or Nothing
    meta,           \* the asset's metadata: key |-> value, or Nothing
    lacking,        \* what the last check found unmet, and is being answered
    edits

ASSUME QuestionsAssumption ==
    /\ Nothing \notin BOOLEAN
    /\ FirstConditions = [q \in QuestionIds |-> FirstConditions[q]]
    /\ \A q \in QuestionIds : IsFiniteSet(FirstConditions[q])

questionVars == <<conditions, fields, inactive, custom, meta, lacking, edits>>

QuestionsInit ==
    /\ conditions = FirstConditions
    /\ fields = FirstFields
    /\ inactive = {}
    /\ custom = [q \in QuestionIds |-> Nothing]
    /\ meta = [k \in MetadataKeys |-> Nothing]
    /\ lacking = {}
    /\ edits = 0

(***************************************************************************)
(* findQuestionIdsByAsset.                                                 *)
(***************************************************************************)
(* The clauses joined by OR: a condition is met by any of its values. *)
Pairs == Facts \cup {<<"METADATA", <<k, meta[k]>>>> : k \in {l \in MetadataKeys : meta[l] # Nothing}}
ConditionMet(c) == \E v \in c.values : <<c.type, v>> \in Pairs

(* A type asked for takes the questions of both types along; both asked    *)
(* for takes all.                                                          *)
KindMatches(q, type) ==
    \/ type = "SETUP_AND_INSPECTION"
    \/ KindOf[q] = type
    \/ type \in {"SETUP", "INSPECTION"} /\ KindOf[q] = "SETUP_AND_INSPECTION"

(* One row for every condition that is met, as many as there are. *)
FindQuestionIds(type) ==
    {q \in QuestionIds \ inactive :
        LET joined == {c \in conditions[q] : custom[q] \in {Nothing, TRUE} /\ ConditionMet(c)}
        IN  /\ KindMatches(q, type)
            /\ joined # {}
            /\ Cardinality(joined) = Cardinality(conditions[q])}

(***************************************************************************)
(* checkAssetConfiguration, and the answers to what it found lacking.      *)
(***************************************************************************)
IsMet(q, c) ==
    IF c.static # Nothing THEN meta[c.key] = c.static
    ELSE meta[c.key] # Nothing /\ (OptionsOf[q] # {} => meta[c.key] \in OptionsOf[q])
Unmet == {q \in FindQuestionIds("CONFIGURATION") : \E c \in SetsOf[q] : ~IsMet(q, c)}
ConfigurationMet == Unmet = {}

CheckAssetConfiguration ==
    /\ lacking = {} /\ Unmet # {}
    /\ lacking' = Unmet
    /\ UNCHANGED <<conditions, fields, inactive, custom, meta, edits>>

(* Faulty variant: the answer is taken where a fixed value is configured. *)
SetByAnswer(q, c, answer) == answer
SetBy(q, c, answer) == IF c.static # Nothing THEN c.static ELSE answer

(* Every question found lacking is answered, with an option if it has any. *)
ConfigureAnswers(answers) ==
    /\ lacking # {}
    /\ \A q \in lacking : OptionsOf[q] # {} => answers[q] \in OptionsOf[q]
    /\ meta' = [k \in MetadataKeys |->
          LET setters == {q \in lacking : \E c \in SetsOf[q] : c.key = k}
          IN  IF setters = {} THEN meta[k]
              ELSE LET q == CHOOSE q \in setters : TRUE
                   IN SetBy(q, CHOOSE c \in SetsOf[q] : c.key = k, answers[q])]
    /\ lacking' = {}
    /\ UNCHANGED <<conditions, fields, inactive, custom, edits>>

(***************************************************************************)
(* Edits: questions, conditions, customizations.                           *)
(***************************************************************************)
Edit == edits < MaxEdits /\ edits' = edits + 1 /\ UNCHANGED <<meta, lacking>>

AddCondition(q, c) ==
    /\ Edit
    /\ conditions' = [conditions EXCEPT ![q] = @ \cup {c}]
    /\ UNCHANGED <<fields, inactive, custom>>
RemoveCondition(q, c) ==
    /\ Edit
    /\ conditions' = [conditions EXCEPT ![q] = @ \ {c}]
    /\ UNCHANGED <<fields, inactive, custom>>
UpdateCondition(q, c, d) ==
    /\ Edit /\ c \in conditions[q]
    /\ conditions' = [conditions EXCEPT ![q] = (@ \ {c}) \cup {d}]
    /\ UNCHANGED <<fields, inactive, custom>>
UpdateActive(q) ==
    /\ Edit
    /\ inactive' = IF q \in inactive THEN inactive \ {q} ELSE inactive \cup {q}
    /\ UNCHANGED <<conditions, fields, custom>>
Customize(q, enabled) ==
    /\ Edit /\ enabled # custom[q]
    /\ custom' = [custom EXCEPT ![q] = enabled]
    /\ UNCHANGED <<conditions, fields, inactive>>

(***************************************************************************)
(* migrateQuestionsToConditions: a condition for every field that has none *)
(* yet, then the fields are cleared where there is a condition of the type. *)
(***************************************************************************)
(* Faulty variant: a condition of the type is enough. *)
MigratedAny(q, type, value) ==
    IF value = Nothing \/ \E c \in conditions[q] : c.type = type THEN {}
    ELSE {[type |-> type, values |-> {value}]}

Migrated(q, type, value) ==
    IF value = Nothing \/ \E c \in conditions[q] : c.type = type /\ value \in c.values THEN {}
    ELSE {[type |-> type, values |-> {value}]}

MigrateQuestionsToConditions ==
    /\ \E q \in QuestionIds : fields[q] # [category |-> Nothing, product |-> Nothing]
    /\ conditions' = [q \in QuestionIds |->
          conditions[q] \cup Migrated(q, "PRODUCT_CATEGORY", fields[q].category)
                        \cup Migrated(q, "PRODUCT", fields[q].product)]
    /\ fields' = [q \in QuestionIds |->
          LET has(type) == \E c \in conditions'[q] : c.type = type IN
          [category |-> IF has("PRODUCT_CATEGORY") THEN Nothing ELSE fields[q].category,
           product |-> IF has("PRODUCT") THEN Nothing ELSE fields[q].product]]
    /\ UNCHANGED <<inactive, custom, meta, lacking, edits>>

Answer == \E answers \in [QuestionIds -> Words] : ConfigureAnswers(answers)

QuestionSteps ==
    \/ CheckAssetConfiguration \/ Answer
    \/ \E q \in QuestionIds :
          \/ \E c \in Conditions : AddCondition(q, c) \/ RemoveCondition(q, c)
          \/ \E c, d \in Conditions : UpdateCondition(q, c, d)
          \/ UpdateActive(q)
          \/ \E enabled \in {TRUE, FALSE, Nothing} : Customize(q, enabled)
    \/ MigrateQuestionsToConditions

QuestionsSpec == QuestionsInit /\ [][QuestionSteps]_questionVars

(***************************************************************************)
(* Properties.                                                             *)
(***************************************************************************)
(* A question is asked exactly when the client has not disabled it and all *)
(* of its conditions, of which it has some, are met, each by one of its    *)
(* values at least, whatever edits and answers came before: the count of   *)
(* joined rows says just that (findQuestionIdsByAsset).                    *)
AskedWhenAllMet ==
    \A type \in {"SETUP", "INSPECTION", "CONFIGURATION", "SETUP_AND_INSPECTION"}, q \in QuestionIds :
        q \in FindQuestionIds(type) <=>
            /\ q \notin inactive /\ custom[q] # FALSE
            /\ KindMatches(q, type)
            /\ conditions[q] # {} /\ \A c \in conditions[q] : ConditionMet(c)

(* The move to conditions clears an old field only when the question has a *)
(* condition for its value (migrateQuestionsToConditions).                 *)
FieldsBecomeConditions ==
    [][\A q \in QuestionIds :
          /\ fields[q].category # fields'[q].category =>
                \E c \in conditions'[q] : c.type = "PRODUCT_CATEGORY" /\ fields[q].category \in c.values
          /\ fields[q].product # fields'[q].product =>
                \E c \in conditions'[q] : c.type = "PRODUCT" /\ fields[q].product \in c.values]_questionVars

(* The questions of an asset: asked exactly when all conditions are met,   *)
(* before, during and after the move of old fields into conditions, which  *)
(* loses none of them.                                                     *)
QuestionsSound == []AskedWhenAllMet /\ FieldsBecomeConditions
=============================================================================
