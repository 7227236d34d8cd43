--------------------------- MODULE Notifications ---------------------------
(***************************************************************************)
(* Reminders, reports and alert mails (src/notifications/): cron jobs fill *)
(* the queue of client jobs, whose worker computes the mails and fills the *)
(* queue of mails, whose worker sends them.  Jobs are kept in Redis: the   *)
(* process may crash anywhere, and a job it was working on is taken up     *)
(* again once.  A client job that throws is not tried again, a mail is     *)
(* tried Attempts times.                                                   *)
(*                                                                         *)
(* Time is counted in twentieths of a day, the unit in which percentages   *)
(* of a cycle are whole.  The client is ACTIVE and no demo; the faults and *)
(* the delays that explain a lost or a second mail are kept as history.    *)
(***************************************************************************)
EXTENDS SiteVisibility

CONSTANTS
    Assets,       \* asset -> [site, cycle]
    Expiring,     \* the sites with a consumable that expires soon
    Members,      \* member -> [rows, groups]
    StartParents, \* site -> its parent
    Moves,        \* the changes of parents that are made: [site, to]
    Attempts,     \* tries per mail: 3
    MonthDays,    \* days between two monthly reports
    StartDay,     \* the day the instance starts with; assets are new at day 0
    MaxDay, MaxEvents, MaxJobs  \* bounds on days, on faults and interventions, and on jobs left over

Unit == 20

(* NotificationGroups: the share of the cycle in twentieths, and the days. *)
ReminderGroups ==
    [inspection_reminder |-> [pct |-> 17, days |-> 25],
     inspection_due_soon_alert_level_1 |-> [pct |-> 10, days |-> 14],
     inspection_due_soon_alert_level_2 |-> [pct |-> 7, days |-> 10],
     inspection_due_soon_alert_level_3 |-> [pct |-> 5, days |-> 7],
     inspection_due_soon_alert_level_4 |-> [pct |-> 3, days |-> 3]]
LastWarning == "inspection_due_soon_alert_level_4"

MINIMUM_INSPECTION_CYCLE == 7

(* Every asset, move and row is at a site, cycles have the least length    *)
(* that the DTOs accept, and no asset has had its last warning at first.   *)
ASSUME NotificationsAssumption ==
    LET Sites == DOMAIN StartParents IN
    /\ StartDay \in Nat
    /\ None \notin Sites \cup DOMAIN Assets /\ DOMAIN Assets # {}
    /\ StartParents \in [Sites -> Sites \cup {None}]
    /\ \A m \in Moves : m.site \in Sites /\ m.to \in Sites \cup {None}
    /\ \A a \in DOMAIN Assets :
          /\ Assets[a].site \in Sites
          /\ Assets[a].cycle \in Nat /\ Assets[a].cycle >= MINIMUM_INSPECTION_CYCLE
          /\ Unit * StartDay <= 17 * Assets[a].cycle
    /\ \A m \in DOMAIN Members :
          /\ Len(Members[m].rows) \in Nat \ {0} /\ DOMAIN Members[m].rows = 1 .. Len(Members[m].rows)
          /\ \A i \in DOMAIN Members[m].rows :
                /\ Members[m].rows[i].site \in Sites
                /\ \E r \in DOMAIN SCOPE_HIERARCHY : SCOPE_HIERARCHY[r] = Members[m].rows[i].scope

VARIABLES
    day,        \* today
    last,       \* asset -> the time of its last inspection, or of its creation
    parent,     \* site -> its parent
    cron,       \* "due", "listed" or "done": today's run of the reminders
    jobs,       \* the client jobs
    mails,      \* the jobs of the mail queue
    alert,      \* "none", "written", "committed" or "gone": an alert of an inspection
    events,     \* faults and interventions so far (bound)
    queued,     \* all mails ever put into the queue (history)
    delivered,  \* all mails the provider has taken (history)
    again,      \* mails put into the queue, or sent, a second time (history)
    excuses     \* what happened that explains a missing or second mail (history)

vars == <<day, last, parent, cron, jobs, mails, alert, events, queued, delivered, again, excuses>>
world == <<day, last, parent, alert>>

Init ==
    /\ day = StartDay
    /\ last \in [DOMAIN Assets -> {0, Unit - 1}]
    /\ parent = StartParents
    /\ cron = "due"
    /\ jobs = {} /\ mails = {}
    /\ alert = "none"
    /\ events = 0
    /\ queued = {} /\ delivered = {} /\ again = {} /\ excuses = {}

-----------------------------------------------------------------------------
(* What is due                                                             *)

Lesser(x, y) == IF x < y THEN x ELSE y
Due(a) == last[a] + Unit * Assets[a].cycle

(* Faulty variant: the greater of the two thresholds counts. *)
IsThresholdMetTodayMax(a, g) ==
    LET pct == Assets[a].cycle * ReminderGroups[g].pct
        days == Unit * ReminderGroups[g].days
    IN (Due(a) - (IF pct < days THEN days ELSE pct)) \div Unit = day

(* isThresholdMetToday: the lesser of the days and the share of the cycle  *)
(* before the date that is due falls on today.                             *)
IsThresholdMetToday(a, g) ==
    LET pct == Assets[a].cycle * ReminderGroups[g].pct
        days == Unit * ReminderGroups[g].days
    IN (Due(a) - Lesser(pct, days)) \div Unit = day

(* The bucket of an asset: of the groups that are met today, the one with  *)
(* the smallest share.                                                     *)
Bucket(a) ==
    {g \in DOMAIN ReminderGroups :
        /\ IsThresholdMetToday(a, g)
        /\ \A h \in DOMAIN ReminderGroups :
              IsThresholdMetToday(a, h) => ReminderGroups[g].pct <= ReminderGroups[h].pct}

Mail(g, m, a) == [group |-> g, to |-> m, asset |-> a, since |-> IF a = None THEN day ELSE last[a]]
Sees(m, a) == Assets[a].site \in VisibleSites(parent, Members[m].rows)

(* processClientInspectionReminders: of an asset, and of all. *)
RemindersOf(m, a) == {Mail(g, m, a) : g \in {h \in Members[m].groups \cap Bucket(a) : Sees(m, a)}}
Reminders == UNION {RemindersOf(m, a) : m \in DOMAIN Members, a \in DOMAIN Assets}

(* processClientMonthlyInspectionReports: the assets, or the consumables   *)
(* that expire soon, of the sites a member sees, if there are any.         *)
ReportSites == [monthly_compliance_report |-> {Assets[a].site : a \in DOMAIN Assets},
                monthly_consumables_report |-> Expiring]
ReportsTo(m) ==
    {Mail(g, m, None) : g \in
       {h \in Members[m].groups \cap DOMAIN ReportSites :
          ReportSites[h] \cap VisibleSites(parent, Members[m].rows) # {}}}
Reports == UNION {ReportsTo(m) : m \in DOMAIN Members}

(* sendInspectionAlertTriggeredEmail; the alert is one of the first asset. *)
AlertAsset == CHOOSE a \in DOMAIN Assets : TRUE
AlertMails == {Mail("inspection_alert_triggered", m, AlertAsset) : m \in
    {m \in DOMAIN Members : "inspection_alert_triggered" \in Members[m].groups /\ Sees(m, AlertAsset)}}

(* The mails a client job computes from what it finds. *)
MailsOf(j) ==
    CASE j.kind = "alert" -> IF alert = "committed" THEN AlertMails ELSE {}
      [] j.kind = "daily" -> Reminders
      [] j.kind = "monthly" -> Reports

-----------------------------------------------------------------------------
(* Cron and the queue of client jobs                                       *)

Job(kind, d) == [kind |-> kind, day |-> d, st |-> "waiting", stalls |-> 0, mails |-> {}]

(* The clients are read, and then the jobs are added one by one. *)
HandleDailyInspectionReminders ==
    /\ cron = "due"
    /\ cron' = "listed"
    /\ UNCHANGED <<world, jobs, mails, events, queued, again, excuses, delivered>>

AddDailyJobs ==
    /\ cron = "listed"
    /\ cron' = "done"
    /\ jobs' = jobs \cup {Job("daily", day)}
                    \cup IF day > StartDay /\ day % MonthDays = 0 THEN {Job("monthly", day)} ELSE {}
    /\ UNCHANGED <<world, mails, events, queued, again, excuses, delivered>>

Event == events < MaxEvents /\ events' = events + 1

Busy(Q) == \E j \in Q : j.st \in {"active", "queued", "sent"}
Replace(Q, j, k) == (Q \ {j}) \cup {k}

(* The worker takes one job at a time and reads what it needs. *)
Process(j) ==
    /\ j.st = "waiting" /\ ~Busy(jobs)
    /\ IF Cyclic(parent) /\ (j.kind # "alert" \/ alert = "committed")
       THEN jobs' = Replace(jobs, j, [j EXCEPT !.st = "failed"])
       ELSE jobs' = Replace(jobs, j, [j EXCEPT !.st = "active", !.mails = MailsOf(j)])
    /\ excuses' = excuses \cup (IF j.day # day THEN {"late"} ELSE {})
                          \cup (IF j.kind = "alert" /\ alert = "written" THEN {"early"} ELSE {})
                          \cup (IF Cyclic(parent) THEN {"cycle"} ELSE {})
    /\ UNCHANGED <<world, cron, mails, events, queued, again, delivered>>

(* addBulk is one transaction of Redis. *)
AddBulk(j) ==
    /\ j.st = "active"
    /\ mails' = mails \cup {[mail |-> m, st |-> "waiting", tries |-> 0, stalls |-> 0] : m \in j.mails}
    /\ queued' = queued \cup j.mails
    /\ again' = again \cup (j.mails \cap queued)
    /\ jobs' = Replace(jobs, j, [j EXCEPT !.st = "queued"])
    /\ UNCHANGED <<world, cron, events, excuses, delivered>>

Complete(j) ==
    /\ j.st = "queued"
    /\ jobs' = jobs \ {j}
    /\ UNCHANGED <<world, cron, mails, events, queued, again, excuses, delivered>>

(* retryJob, once in a behaviour, and removeJob, by an administrator. *)
RetryJob(j) ==
    /\ j.st = "failed" /\ "retried" \notin excuses
    /\ jobs' = Replace(jobs, j, [j EXCEPT !.st = "waiting", !.mails = {}])
    /\ excuses' = excuses \cup {"retried"}
    /\ UNCHANGED <<world, cron, mails, events, queued, again, delivered>>

RemoveJob(j) ==
    /\ j.st \in {"waiting", "failed"} /\ Event
    /\ jobs' = jobs \ {j}
    /\ excuses' = excuses \cup {"removed"}
    /\ UNCHANGED <<world, cron, mails, queued, again, delivered>>

-----------------------------------------------------------------------------
(* The queue of mails                                                      *)

(* sendTemplateEmail, sendEmail: the mail is next and the provider takes   *)
(* it...                                                                   *)
Send(e) ==
    /\ e.st = "waiting" /\ ~Busy(mails)
    /\ mails' = Replace(mails, e, [e EXCEPT !.st = "sent"])
    /\ delivered' = delivered \cup {e.mail}
    /\ again' = again \cup ({e.mail} \cap delivered)
    /\ UNCHANGED <<world, cron, jobs, events, queued, excuses>>

(* The first error of a mail counts as a fault, its further ones do not (bound). *)
Trouble(e) == IF e.tries = 0 THEN Event ELSE UNCHANGED events

(* ... or answers with an error, and it is tried again after a while. *)
SendFails(e) ==
    /\ e.st = "waiting" /\ ~Busy(mails) /\ Trouble(e)
    /\ mails' = Replace(mails, e, [e EXCEPT !.tries = @ + 1,
                                            !.st = IF e.tries + 1 < Attempts THEN "waiting"
                                                   ELSE "failed"])
    /\ UNCHANGED <<world, cron, jobs, queued, again, excuses, delivered>>

Sent(e) ==
    /\ e.st = "sent"
    /\ mails' = mails \ {e}
    /\ UNCHANGED <<world, cron, jobs, events, queued, again, excuses, delivered>>

-----------------------------------------------------------------------------
(* Faults, and the rest of the system                                      *)

Stall(j) == IF j.st \in {"active", "queued", "sent"} THEN [j EXCEPT !.st = "stalled"] ELSE j

(* The process dies: the jobs it works on stall, and a run of cron is over. *)
Crash ==
    /\ Event
    /\ jobs' = {Stall(j) : j \in jobs}
    /\ mails' = {Stall(e) : e \in mails}
    /\ cron' \in {cron, "done"} /\ cron' # "listed"
    /\ excuses' = excuses \cup {"crash"}
    /\ UNCHANGED <<world, queued, delivered, again>>

(* Faulty variant: a stalled job stays where it is. *)
MoveStalledNever(j) == j

(* A stalled job is taken up again, once. *)
MoveStalled(j) == [j EXCEPT !.st = IF j.stalls < 1 THEN "waiting" ELSE "failed",
                            !.stalls = @ + 1]

CheckStalled ==
    /\ \/ \E j \in jobs : /\ j.st = "stalled"
                           /\ jobs' = Replace(jobs, j, [MoveStalled(j) EXCEPT !.mails = {}])
                           /\ UNCHANGED mails
       \/ \E e \in mails : /\ e.st = "stalled"
                            /\ mails' = Replace(mails, e, MoveStalled(e))
                            /\ UNCHANGED jobs
    /\ UNCHANGED <<world, cron, events, queued, delivered, again, excuses>>

(* Faulty variant: no job is added for the alert. *)
RaiseAlertSkipped ==
    /\ alert = "none" /\ day = StartDay
    /\ alert' = "written"
    /\ UNCHANGED <<day, last, parent, cron, jobs, mails, events, queued, delivered, again, excuses>>

(* handleAlertTriggers: the alert is written and its job is added while    *)
(* the transaction of the inspection is still open.                        *)
RaiseAlert ==
    /\ alert = "none" /\ day = StartDay
    /\ alert' = "written"
    /\ jobs' = jobs \cup {Job("alert", day)}
    /\ UNCHANGED <<day, last, parent, cron, mails, events, queued, delivered, again, excuses>>

EndInspection(result) ==
    /\ alert = "written"
    /\ alert' = result
    /\ UNCHANGED <<day, last, parent, cron, jobs, mails, events, queued, delivered, again, excuses>>

Inspect(a, t) ==
    /\ Event
    /\ Unit * day + t > last[a]
    /\ last' = [last EXCEPT ![a] = Unit * day + t]
    /\ UNCHANGED <<day, parent, cron, jobs, mails, alert, queued, delivered, again, excuses>>

(* SitesService.update connects any parent, one below the site too. *)
MoveSite(m) ==
    /\ parent[m.site] # m.to /\ Event
    /\ parent' = [parent EXCEPT ![m.site] = m.to]
    /\ excuses' = excuses \cup {"moved"}
    /\ UNCHANGED <<day, last, cron, jobs, mails, alert, queued, delivered, again>>

(* The transaction of an inspection and the tries of a mail take seconds;  *)
(* a client job may be left for another day.                               *)
NextDay ==
    /\ day < MaxDay /\ cron = "done" /\ alert # "written"
    /\ Cardinality(jobs) <= MaxJobs /\ \A e \in mails : e.st = "failed"
    /\ day' = day + 1
    /\ cron' = "due"
    /\ UNCHANGED <<last, parent, jobs, mails, alert, events, queued, delivered, again, excuses>>

Worker == \E j \in jobs : Process(j) \/ AddBulk(j) \/ Complete(j)
Mailer == \E e \in mails : Send(e) \/ SendFails(e) \/ Sent(e)

Next ==
    \/ HandleDailyInspectionReminders \/ AddDailyJobs
    \/ Worker \/ Mailer
    \/ \E j \in jobs : RetryJob(j) \/ RemoveJob(j)
    \/ Crash \/ CheckStalled
    \/ RaiseAlert \/ \E r \in {"committed", "gone"} : EndInspection(r)
    \/ \E a \in DOMAIN Assets, t \in {0, Unit - 1} : Inspect(a, t)
    \/ \E m \in Moves : MoveSite(m)
    \/ NextDay

Spec == Init /\ [][Next]_vars

(* The workers poll, and look for stalled jobs, as long as the process runs. *)
FairSpec == Spec /\ WF_vars(Worker) /\ WF_vars(Mailer) /\ WF_vars(CheckStalled)

-----------------------------------------------------------------------------
(* Properties                                                              *)

(* An asset that is due has had its last warning, for every subscriber who *)
(* sees it, when each day's job ran on its day: thresholds are fractions   *)
(* of a day, two may meet on one day, and only one is mailed               *)
(* (isThresholdMetToday, the buckets, MINIMUM_INSPECTION_CYCLE).           *)
WarnedBeforeDue ==
    (excuses = {} /\ (\A j \in jobs : j.day = day)) =>
       \A a \in DOMAIN Assets, m \in DOMAIN Members :
          (Due(a) \div Unit <= day /\ LastWarning \in Members[m].groups /\ Sees(m, a))
             => [group |-> LastWarning, to |-> m, asset |-> a, since |-> last[a]] \in queued

(* A mail is queued or sent a second time only after a crash, a retry, or  *)
(* when the jobs of two days run on the same day.                          *)
SecondMailExplained == again # {} => excuses \cap {"crash", "retried", "late"} # {}

(* A mail that was queued has been sent or is still in the queue, as a     *)
(* failed job too.                                                         *)
NothingLost == queued \subseteq delivered \cup {e.mail : e \in mails}

(* A mail names an asset only to members who reach its site with one of    *)
(* their rows when the job runs.                                           *)
MailedWithinReach ==
    [][\A j \in jobs' \ jobs : j.st = "active" =>
         \A m \in j.mails : m.asset # None =>
            \E i \in DOMAIN Members[m.to].rows :
               Reaches(parent, Members[m.to].rows[i], Assets[m.asset].site)]_vars

(* An alert that is committed gets its mails, unless its job ran before    *)
(* the commit, the process crashed, or a job was failed or removed.        *)
AlertHeard ==
    alert = "committed" ~>
       \/ \E m \in queued : m.group = "inspection_alert_triggered"
       \/ excuses \cap {"early", "crash", "cycle", "moved", "removed"} # {}

(* The queues drain: every job ends or fails, whatever crashes. *)
Drained == <>[](\A j \in jobs \cup mails : j.st = "failed")

(* Every mail is accounted for: sent or kept in the queue, not twice       *)
(* without a crash, a retry or a delay behind it, and about an asset its   *)
(* reader can reach (BullMQ's attempts, processors of both queues).        *)
MailsAccounted == [](SecondMailExplained /\ NothingLost) /\ MailedWithinReach
=============================================================================
