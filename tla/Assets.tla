------------------------------- MODULE Assets -------------------------------
(***************************************************************************)
(* AssetsService.configure and setup for one asset: the metadata that      *)
(* answers to questions set, and the consumables that setup answers create *)
(* (ConsumablesService.handleConsumableConfig), while users edit both.     *)
(*                                                                         *)
(* configure reads the asset before its transaction; setup works on the    *)
(* row its own transaction has locked, but finds consumables without a     *)
(* lock.                                                                   *)
(***************************************************************************)
EXTENDS Naturals, FiniteSets

CONSTANTS
    NoValue,
    Keys,           \* metadata keys
    Texts,          \* text values
    NonTexts,       \* values of other kinds: numbers, images
    Questions,
    TypeOf,         \* question |-> AssetQuestionType
    ConfigsOf,      \* question |-> set of [key, static], static = NoValue if DYNAMIC
    ConsumableOf,   \* question |-> consumable product, or NoValue
    Products,
    AnswerSets,     \* the answers of a request: question |-> value
    Edits,          \* the metadata users write
    Works,          \* requests in flight at once
    MaxConsumables  \* bound on the consumables of a product

VARIABLES
    metadata,       \* key |-> value, or NoValue
    isSetup,        \* setupOn is not null
    configured,
    consumables,    \* product |-> how many of it the asset has
    holder,         \* the transaction that holds the row's lock, or NoValue
    work            \* the requests in flight

assetVars == <<metadata, isSetup, configured, consumables, holder, work>>

Values == Texts \cup NonTexts
Metadata == [Keys -> Values \cup {NoValue}]

ASSUME AssetsAssumption ==
    /\ IsFiniteSet(Questions)
    /\ \A answers \in AnswerSets : DOMAIN answers \subseteq Questions
    /\ Edits \subseteq Metadata

NoWork == [step |-> "idle"]

AssetsInit ==
    /\ metadata = [k \in Keys |-> NoValue]
    /\ isSetup = FALSE
    /\ configured = FALSE
    /\ consumables = [p \in Products |-> 0]
    /\ holder = NoValue
    /\ work = [w \in Works |-> NoWork]

(***************************************************************************)
(* handleSetMetadataFromConfigs.                                           *)
(***************************************************************************)
(* The metadata is parsed as texts; with a value of another kind in it the *)
(* parse fails and nothing is taken over.                                  *)
Existing(m) == IF \E k \in Keys : m[k] \in NonTexts THEN [k \in Keys |-> NoValue] ELSE m

Written(answers) ==
    UNION {{<<c.key, IF c.static # NoValue THEN c.static ELSE answers[q]>> : c \in ConfigsOf[q]}
           : q \in DOMAIN answers}
WrittenKeys(answers) == {kv[1] : kv \in Written(answers)}

(* Faulty variant: the new keys replace what there was. *)
MergesNothing(m, answers) ==
    {new \in Metadata : \A k \in Keys :
        IF k \in WrittenKeys(answers) THEN <<k, new[k]>> \in Written(answers) ELSE new[k] = NoValue}

(* What there was, overwritten by what the answers set; of two answers for *)
(* one key the later counts.                                               *)
Merges(m, answers) ==
    IF Written(answers) = {} THEN {metadata}
    ELSE {new \in Metadata : \A k \in Keys :
             IF k \in WrittenKeys(answers) THEN <<k, new[k]>> \in Written(answers)
                                           ELSE new[k] = Existing(m)[k]}

(***************************************************************************)
(* configure.                                                              *)
(***************************************************************************)
Configure(w, answers) ==
    /\ work[w] = NoWork
    /\ work' = [work EXCEPT ![w] = [step |-> "configure", seen |-> metadata, answers |-> answers]]
    /\ UNCHANGED <<metadata, isSetup, configured, consumables, holder>>

CommitConfigure(w) ==
    /\ work[w].step = "configure"
    /\ holder = NoValue
    /\ metadata' \in Merges(work[w].seen, work[w].answers)
    /\ configured' = TRUE
    /\ work' = [work EXCEPT ![w] = NoWork]
    /\ UNCHANGED <<isSetup, consumables, holder>>

(***************************************************************************)
(* setup: the row is updated, and so locked, the consumables of the        *)
(* answers are all looked up, and then created or updated.                 *)
(***************************************************************************)
SetupAnswers(answers) == {q \in DOMAIN answers : TypeOf[q] \in {"SETUP", "SETUP_AND_INSPECTION"}}
For(answers, p) == {q \in SetupAnswers(answers) : ConsumableOf[q] = p}

Setup(w, answers) ==
    /\ work[w] = NoWork
    /\ ~isSetup /\ holder = NoValue
    /\ holder' = w
    /\ work' = [work EXCEPT ![w] =
          [step |-> "setup", seen |-> metadata, answers |-> answers,
           found |-> {p \in Products : consumables[p] > 0}]]
    /\ UNCHANGED <<metadata, isSetup, configured, consumables>>

(* One for every answer, unless one was found, which is then updated. *)
Created(w, p) == IF p \in work[w].found THEN 0 ELSE Cardinality(For(work[w].answers, p))

CommitSetup(w) ==
    /\ work[w].step = "setup"
    /\ \A p \in Products : consumables[p] + Created(w, p) <= MaxConsumables
    /\ consumables' = [p \in Products |-> consumables[p] + Created(w, p)]
    /\ metadata' \in Merges(metadata, work[w].answers)
    /\ isSetup' = TRUE
    /\ holder' = NoValue
    /\ work' = [work EXCEPT ![w] = NoWork]
    /\ UNCHANGED configured

(* An answer that is no date, a consumable deleted since it was found, or  *)
(* the time limit: all of it is rolled back.                               *)
AbortSetup(w) ==
    /\ work[w].step = "setup"
    /\ holder' = NoValue
    /\ work' = [work EXCEPT ![w] = NoWork]
    /\ UNCHANGED <<metadata, isSetup, configured, consumables>>

(***************************************************************************)
(* Edits of the asset and of its consumables.                              *)
(***************************************************************************)
Update(m) ==
    /\ holder = NoValue
    /\ metadata' = m
    /\ UNCHANGED <<isSetup, configured, consumables, holder, work>>

CreateConsumable(p) ==
    /\ consumables[p] < MaxConsumables
    /\ consumables' = [consumables EXCEPT ![p] = @ + 1]
    /\ UNCHANGED <<metadata, isSetup, configured, holder, work>>

RemoveConsumable(p) ==
    /\ consumables[p] > 0
    /\ consumables' = [consumables EXCEPT ![p] = @ - 1]
    /\ UNCHANGED <<metadata, isSetup, configured, holder, work>>

AssetSteps ==
    \/ \E w \in Works :
          \/ \E answers \in AnswerSets : Configure(w, answers) \/ Setup(w, answers)
          \/ CommitConfigure(w) \/ CommitSetup(w) \/ AbortSetup(w)
    \/ \E m \in Edits : Update(m)
    \/ \E p \in Products : CreateConsumable(p) \/ RemoveConsumable(p)

AssetsSpec == AssetsInit /\ [][AssetSteps]_assetVars

(***************************************************************************)
(* Properties.                                                             *)
(***************************************************************************)
Ends(w) == work[w].step # "idle" /\ work'[w].step = "idle"

(* Answers change the keys they are about and no other, unless the asset   *)
(* was changed between the read of configure and its transaction, or held  *)
(* a value that is no text, which makes the next merge start from nothing. *)
OtherKeysKept ==
    [][\A w \in Works : Ends(w) =>
          \A k \in Keys \ WrittenKeys(work[w].answers) :
              \/ metadata'[k] = metadata[k]
              \/ work[w].seen # metadata
              \/ \E l \in Keys : metadata[l] \in NonTexts]_assetVars

(* Setup gives an asset a second consumable of a product only if a user    *)
(* added the first after setup had looked for it, or two of the answers    *)
(* are about the product (handleConsumableConfig finds, then creates).     *)
SecondConsumableExplained ==
    [][\A w \in Works, p \in Products :
          Ends(w) /\ work[w].step = "setup" /\ consumables'[p] > consumables[p] /\ consumables'[p] > 1 =>
              \/ p \notin work[w].found /\ consumables[p] > 0
              \/ Cardinality(For(work[w].answers, p)) > 1]_assetVars

(* What setup and configure write for answers: their keys alone, and no    *)
(* consumable that is there already, up to the races each part names.      *)
AnswersWriteTheirOwn == OtherKeysKept /\ SecondConsumableExplained
=============================================================================
