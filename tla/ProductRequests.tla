-------------------------- MODULE ProductRequests ---------------------------
(* Requests for products (ProductRequestsService) and the mail about a new *)
(* one: creating a request queues a job, which looks up the settings for   *)
(* the address and queues the mail (NotificationsProcessor).  A job has    *)
(* three attempts, and is taken up again when its server goes down.  What  *)
(* is requested, and the reviews, which change no status, are left out.    *)
EXTENDS Settings, FiniteSets

CONSTANTS
    Orders,         \* the requests that may be made
    ToKey,          \* productRequestToAddress
    NewStatuses,    \* the statuses that updateStatuses is called with
    NoOrder,
    MaxAttempts     \* attempts of a job: 3

VARIABLES
    status,     \* request -> status, or NoOrder
    notice,     \* request -> "none", "creating", "queued", "sent" or "lost"
    attempts,   \* request -> attempts of its job that failed
    worker,     \* request -> the settings call its job waits for, or NoOrder
    mails       \* [order, to, row, excused]: row, the address in the row then

requestVars == <<status, notice, attempts, worker, mails>>
orderVars == <<settingsVars, requestVars>>

Closed == {"CANCELLED", "COMPLETE"}

RequestsInit ==
    /\ status = [o \in Orders |-> NoOrder]
    /\ notice = [o \in Orders |-> "none"]
    /\ attempts = [o \in Orders |-> 0]
    /\ worker = [o \in Orders |-> NoOrder]
    /\ mails = {}

(* create: the row, and then the job. *)
CreateRequest(o) ==
    /\ notice[o] = "none"
    /\ status' = [status EXCEPT ![o] = "NEW"]
    /\ notice' = [notice EXCEPT ![o] = "creating"]
    /\ UNCHANGED <<settingsVars, attempts, worker, mails>>

QueueNewProductRequestEmail(o) ==
    /\ notice[o] = "creating"
    /\ notice' = [notice EXCEPT ![o] = "queued"]
    /\ UNCHANGED <<settingsVars, status, attempts, worker, mails>>

(* Redis refuses the job, or the server stops: the row is not undone. *)
QueueFails(o) ==
    /\ notice[o] = "creating"
    /\ notice' = [notice EXCEPT ![o] = "lost"]
    /\ UNCHANGED <<settingsVars, status, attempts, worker, mails>>

RemoveRequest(o) ==
    /\ status[o] # NoOrder
    /\ status' = [status EXCEPT ![o] = NoOrder]
    /\ UNCHANGED <<settingsVars, notice, attempts, worker, mails>>

(* updateStatuses: one statement; closed requests are passed over. *)
UpdateStatuses(S, new) ==
    /\ status' = [o \in Orders |-> IF o \in S /\ status[o] \notin Closed \cup {NoOrder}
                                   THEN new ELSE status[o]]
    /\ UNCHANGED <<settingsVars, notice, attempts, worker, mails>>

(* cancel: one statement, on a request that is not being processed. *)
Cancel(o) ==
    /\ status[o] \in {"NEW", "APPROVED", "RECEIVED"}
    /\ status' = [status EXCEPT ![o] = "CANCELLED"]
    /\ UNCHANGED <<settingsVars, notice, attempts, worker, mails>>
-----------------------------------------------------------------------------

Attempted(o) ==
    /\ attempts' = [attempts EXCEPT ![o] = @ + 1]
    /\ notice' = [notice EXCEPT ![o] = IF attempts'[o] = MaxAttempts THEN "lost" ELSE @]
    /\ worker' = [worker EXCEPT ![o] = NoOrder]
    /\ UNCHANGED <<status, mails>>

(* sendNewProductRequestEmail: the request, which must be there, and then  *)
(* the settings.                                                           *)
TakeJob(o, c, s) ==
    /\ notice[o] = "queued" /\ worker[o] = NoOrder
    /\ status[o] # NoOrder
    /\ GetGlobalSettings(c, s)
    /\ worker' = [worker EXCEPT ![o] = c]
    /\ UNCHANGED <<status, notice, attempts, mails>>

JobFindsNothing(o) ==
    /\ notice[o] = "queued" /\ worker[o] = NoOrder
    /\ status[o] = NoOrder
    /\ Attempted(o)
    /\ UNCHANGED settingsVars

Serves(c) == {o \in Orders : worker[o] = c}

QueueMail(o) ==
    LET c == worker[o] IN
    /\ c # NoOrder /\ In(c, "answer")
    /\ mails' = mails \cup {[order |-> o, to |-> lookup[c].data[ToKey], row |-> block[ToKey],
                             excused |-> lookup[c].late \/ writes > lookup[c].since]}
    /\ notice' = [notice EXCEPT ![o] = "sent"]
    /\ worker' = [worker EXCEPT ![o] = NoOrder]
    /\ Move(c, NoLookup)
    /\ UNCHANGED <<block, copies, saves, writes, behind, status, attempts>>

(* A query of the job's call fails, or adding the mail: so does the try.   *)
(* A block that another call has created meanwhile is such a failure.      *)
AttemptFails(o) ==
    LET c == worker[o] IN
    /\ c # NoOrder /\ lookup[c].pc \in {"find", "create", "fill", "answer"}
    /\ Move(c, NoLookup)
    /\ Attempted(o)
    /\ UNCHANGED <<block, copies, saves, writes, behind>>

(* A server goes down: its jobs are found stalled and queued again. *)
Restarted(s) ==
    /\ RestartServer(s)
    /\ worker' = [o \in Orders |-> IF worker[o] # NoOrder /\ lookup[worker[o]].server = s
                                   THEN NoOrder ELSE worker[o]]
    /\ UNCHANGED <<status, notice, attempts, mails>>

(* The calls of the settings page, and the queries of all calls. *)
SettingsStep(c) ==
    /\ \/ Serves(c) = {} /\ \E s \in Servers : GetGlobalSettings(c, s)
       \/ \E s \in Servers : UpdateGlobalSettings(c, s)
       \/ FindBlock(c)
       \/ (Serves(c) = {} \/ block = NoBlock) /\ CreateBlock(c)
       \/ FillBlock(c)
       \/ Save(c)
       \/ StoreCopy(c)
       \/ Serves(c) = {} /\ LookupFails(c)
       \/ Serves(c) = {} /\ In(c, "answer") /\ Move(c, NoLookup)
          /\ UNCHANGED <<block, copies, saves, writes, behind>>
    /\ UNCHANGED requestVars

OrderSteps ==
    \/ \E o \in Orders :
         \/ CreateRequest(o) \/ QueueNewProductRequestEmail(o) \/ QueueFails(o)
         \/ RemoveRequest(o) \/ Cancel(o)
         \/ \E c \in SettingCalls, s \in Servers : TakeJob(o, c, s)
         \/ JobFindsNothing(o) \/ QueueMail(o) \/ AttemptFails(o)
    \/ \E S \in SUBSET Orders, new \in NewStatuses : UpdateStatuses(S, new)
    \/ \E s \in Servers : Restarted(s)
    \/ \E c \in SettingCalls : SettingsStep(c)

OrdersSpec == SettingsInit /\ RequestsInit /\ [][OrderSteps]_orderVars
-----------------------------------------------------------------------------
(* The mail about a new request goes to the address that is saved, unless  *)
(* it was saved at another server, whose cache alone is set, while the job *)
(* ran, or so shortly before that the cache was not yet set                *)
(* (notifications.service.ts:227-245, settings.service.ts:112).            *)
AddressAsSaved == \A m \in mails : m.to = m.row \/ m.excused

(* What is saved in the settings is what is read, by each server and by    *)
(* the job that mails a request, and stays, but for the copies of other    *)
(* servers and calls that overlap (SettingsService).                       *)
SettingsReach == [](CopiesExplained /\ AddressAsSaved) /\ LostToDefaultsOnly
=============================================================================
