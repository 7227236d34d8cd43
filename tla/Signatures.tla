----------------------------- MODULE Signatures -----------------------------
(***************************************************************************)
(* The signatures on tag URLs, inspection tokens and custom tokens:        *)
(* AuthService.generateSignature and getSigningKey, which finds or creates *)
(* a key once per instance and caches it for good, and their use in        *)
(* TagsService and EventsService.                                          *)
(***************************************************************************)
EXTENDS Naturals, FiniteSets

CONSTANTS
    NoKey,
    Instances,
    MaxHour,        \* bound on the clock
    MaxSignatures   \* bound on the signatures made

VARIABLES
    keyRow,     \* the signing key in the database, or NoKey
    keyCache,   \* instance |-> the row it cached, or NoKey
    keyLoad,    \* the instances between finding no key and creating one
    signatures, \* [secret, time, until]: made and handed out
    hour

SigningKeys == [secret : Instances, expired : Nat \cup {NoKey}]
ASSUME SigningAssumption == MaxHour \in Nat /\ NoKey \notin Nat \cup SigningKeys

signVars == <<keyRow, keyCache, keyLoad, signatures, hour>>

SignInit ==
    /\ keyRow = NoKey
    /\ keyCache = [i \in Instances |-> NoKey]
    /\ keyLoad = {}
    /\ signatures = {}
    /\ hour = 0

(* getSigningKey: found and cached, or not found and about to be created. *)
LoadKey(i) ==
    /\ keyCache[i] = NoKey /\ i \notin keyLoad
    /\ IF keyRow = NoKey THEN keyLoad' = keyLoad \cup {i} /\ UNCHANGED keyCache
                        ELSE keyCache' = [keyCache EXCEPT ![i] = keyRow] /\ UNCHANGED keyLoad
    /\ UNCHANGED <<keyRow, signatures, hour>>

(* keyId is unique: who comes second fails, and caches nothing. *)
CreateKey(i) ==
    /\ i \in keyLoad
    /\ keyLoad' = keyLoad \ {i}
    /\ IF keyRow # NoKey THEN UNCHANGED <<keyRow, keyCache>>
       ELSE /\ keyRow' = [secret |-> i, expired |-> NoKey]
            /\ keyCache' = [keyCache EXCEPT ![i] = keyRow']
    /\ UNCHANGED <<signatures, hour>>

(* Faulty variant: a key that is expired now is good for nothing. *)
UsableNow(key, time) == key.expired # NoKey => key.expired >= hour

(* generateSignature: refused for a time after the key expired. *)
Usable(key, time) == key.expired # NoKey => key.expired >= time

Sign(key, until) ==
    /\ Usable(key, hour)
    /\ signatures' = signatures \cup {[secret |-> key.secret, time |-> hour, until |-> until]}

(* A tag URL, one or in bulk, is good for ever. *)
GenerateSignedUrl(i) ==
    /\ Cardinality(signatures) < MaxSignatures
    /\ keyCache[i] # NoKey
    /\ Sign(keyCache[i], MaxHour)
    /\ UNCHANGED <<keyRow, keyCache, keyLoad, hour>>

(* Custom tokens and inspection tokens end.  Verification makes the        *)
(* signature again, from the time in the token.                            *)
Verifies(key, s) == hour <= s.until /\ Usable(key, s.time) /\ key.secret = s.secret

(* validateTagSignature: a good URL is answered with an inspection token. *)
ValidateTagSignature(i, s) ==
    /\ Cardinality(signatures) < MaxSignatures
    /\ keyCache[i] # NoKey
    /\ Verifies(keyCache[i], s)
    /\ Sign(keyCache[i], hour + 1)
    /\ UNCHANGED <<keyRow, keyCache, keyLoad, hour>>

(* The clock; the operator ends a key in the database; a process restarts. *)
Tick == hour < MaxHour /\ hour' = hour + 1 /\ UNCHANGED <<keyRow, keyCache, keyLoad, signatures>>
ExpireKey ==
    /\ keyRow # NoKey /\ keyRow.expired = NoKey
    /\ keyRow' = [keyRow EXCEPT !.expired = hour]
    /\ UNCHANGED <<keyCache, keyLoad, signatures, hour>>
Restart(i) ==
    /\ keyCache' = [keyCache EXCEPT ![i] = NoKey]
    /\ keyLoad' = keyLoad \ {i}
    /\ UNCHANGED <<keyRow, signatures, hour>>

SignSteps ==
    \/ \E i \in Instances :
          \/ LoadKey(i) \/ CreateKey(i) \/ GenerateSignedUrl(i) \/ Restart(i)
          \/ \E s \in signatures : ValidateTagSignature(i, s)
    \/ Tick \/ ExpireKey

SignSpec == SignInit /\ [][SignSteps]_signVars

(* What one instance has signed every other accepts until it ends, however *)
(* they raced to create the key, restarted, or cached it before it was     *)
(* ended; only what was signed after the key was ended, by an instance     *)
(* that still had it cached, may be refused (getSigningKey caches for      *)
(* good, generateSignature looks at the time of the signature).            *)
SignaturesVerify ==
    \A s \in signatures, i \in Instances :
        keyCache[i] # NoKey /\ hour <= s.until =>
            \/ Verifies(keyCache[i], s)
            \/ keyRow.expired # NoKey /\ keyRow.expired < s.time
=============================================================================
