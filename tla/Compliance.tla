----------------------------- MODULE Compliance -----------------------------
(* The compliance history by month (StatsService), asked for while assets  *)
(* are being inspected.  The history is put together from two queries, the *)
(* last inspection before a cutoff and all after it, which run on their    *)
(* own.  Four units of time make a day.  Inspections happen at even ones;  *)
(* the instants a request computes with, now and the last of a month, are  *)
(* odd ones: that an inspection has the very millisecond is left out.      *)
EXTENDS Integers, Sequences, FiniteSets
Sets == INSTANCE FiniteSetsExt

CONSTANTS
    Tracked,        \* assets
    OwnerOf,        \* asset -> client
    CycleOf,        \* asset -> its own inspection cycle in days, or NoCycle
    DefaultCycle,   \* client -> the cycle of its other assets
    MadeOn,         \* asset -> the time it was created
    FirstTimes,     \* asset -> the sets of times it may have been inspected at
    FirstInService, \* the sets of assets that may be active then
    MonthLength, StartTime, EndTime,
    MaxVisits,      \* bound on the inspections made while the model runs
    NoCycle

(* The units of time and the cycles; nothing was inspected in the future.  *)
ASSUME ComplianceAssumption ==
    /\ MonthLength \in Nat \ {0}
    /\ StartTime \in Nat /\ StartTime % 2 = 0
    /\ \A a \in Tracked : /\ CycleOf[a] \in Nat \cup {NoCycle}
                          /\ \A S \in FirstTimes[a] : S \subseteq {t \in 0..StartTime : t % 2 = 0}
    /\ \A c \in DOMAIN DefaultCycle : DefaultCycle[c] \in Nat
    /\ \A S \in FirstInService : S \subseteq Tracked

VARIABLES
    times,      \* asset -> when it was inspected
    inService,  \* the assets that are active
    clock,
    visits,
    query,      \* the request: what it has read
    touched,    \* assets whose activity changed since the request began
    answer      \* the history it returned

complianceVars == <<times, inService, clock, visits, query, touched, answer>>

NoQuery == [pc |-> "idle"]
StartOfMonth(t) == t - (t % MonthLength)
DaysBetween(x, y) == (x - y) \div 4

ComplianceInit ==
    /\ times \in {f \in [Tracked -> UNION {FirstTimes[a] : a \in Tracked}] :
                    \A a \in Tracked : f[a] \in FirstTimes[a]}
    /\ inService \in FirstInService
    /\ clock = StartTime /\ visits = 0
    /\ query = NoQuery /\ touched = {} /\ answer = <<>>

(* The assets the request sees: those of its client, or everyone's. *)
Seen == {a \in inService : query.client \in {OwnerOf[a], NoCycle}}

Cutoff(months) == IF months = 1 THEN clock + 1 ELSE StartOfMonth(clock) - months * MonthLength

(* getComplianceHistoryByMonth.  A request with the intent 'system' is for *)
(* no client (here NoCycle), and takes the default cycle of any one.       *)
AskHistory ==
    /\ query.pc = "idle" /\ answer = <<>>
    /\ \E months \in 1..3, c \in DOMAIN DefaultCycle \cup {NoCycle} :
       \E d \in IF c = NoCycle THEN DOMAIN DefaultCycle ELSE {c} :
         query' = [pc |-> "read", months |-> months, client |-> c, cycle |-> DefaultCycle[d],
                   cutoff |-> Cutoff(months), began |-> clock,
                   before |-> <<>>, after |-> <<>>,
                   todo |-> {"before"} \cup IF months > 1 THEN {"after"} ELSE {}]
    /\ touched' = {}
    /\ UNCHANGED <<times, inService, clock, visits, answer>>

Latest(S) == IF S = {} THEN {} ELSE {Sets!Max(S)}

(* getAssetInspections, latestOnlyBeforeCutoff or not. *)
ReadBefore ==
    /\ query.pc = "read" /\ "before" \in query.todo
    /\ query' = [query EXCEPT !.todo = @ \ {"before"},
                    !.before = [a \in Seen |-> Latest({t \in times[a] : t <= query.cutoff})]]
    /\ UNCHANGED <<times, inService, clock, visits, touched, answer>>

ReadAfter ==
    /\ query.pc = "read" /\ "after" \in query.todo
    /\ query' = [query EXCEPT !.todo = @ \ {"after"},
                              !.after = [a \in Seen |-> {t \in times[a] : t >= query.cutoff}]]
    /\ UNCHANGED <<times, inService, clock, visits, touched, answer>>

(* Faulty variant: the last inspection before the cutoff is left out when  *)
(* there are others.                                                       *)
MergedAfterOnly(a) ==
    IF a \in DOMAIN query.after /\ query.after[a] # {} THEN query.after[a] ELSE query.before[a]

Merged(a) == query.before[a] \cup IF a \in DOMAIN query.after THEN query.after[a] ELSE {}

(* The status of an asset on a date, of which S are the inspections known. *)
Status(S, cycle, date) ==
    LET past == {t \in S : t < date}
        days == DaysBetween(date, Sets!Max(past))
        soon == Sets!Max({cycle - 7, cycle \div 2})
    IN  IF past = {} THEN "NON_COMPLIANT_NEVER_INSPECTED"
        ELSE IF days < soon THEN "COMPLIANT_DUE_LATER"
        ELSE IF days < cycle THEN "COMPLIANT_DUE_SOON"
        ELSE "NON_COMPLIANT_INSPECTED"

InspectionCycle(a) == IF CycleOf[a] = NoCycle THEN query.cycle ELSE CycleOf[a]

(* The end of the n-th month of the history: now, and then ends of months. *)
DateOf(n) == IF n = 1 THEN clock + 1 ELSE StartOfMonth(clock) - (n - 2) * MonthLength - 1

Compile ==
    /\ query.pc = "read" /\ query.todo = {}
    /\ answer' = [n \in 1..query.months |->
                    [date |-> DateOf(n),
                     status |-> [a \in {b \in DOMAIN query.before : MadeOn[b] <= DateOf(n)} |->
                                   Status(Merged(a), InspectionCycle(a), DateOf(n))]]]
    /\ query' = [query EXCEPT !.pc = "done"]
    /\ UNCHANGED <<times, inService, clock, visits, touched>>

(* While the request runs assets are inspected, and taken out of service   *)
(* or put back.                                                            *)
Visit ==
    /\ visits < MaxVisits /\ query.pc = "read"
    /\ \E a \in inService : times' = [times EXCEPT ![a] = @ \cup {clock}]
    /\ visits' = visits + 1
    /\ UNCHANGED <<inService, clock, query, touched, answer>>

SetActive ==
    /\ query.pc = "read"
    /\ \E a \in Tracked \ touched :
         /\ inService' = IF a \in inService THEN inService \ {a} ELSE inService \cup {a}
         /\ touched' = touched \cup {a}
    /\ UNCHANGED <<times, clock, visits, query, answer>>

Later ==
    /\ clock < EndTime /\ query.pc = "read"
    /\ clock' = clock + 2
    /\ UNCHANGED <<times, inService, visits, query, touched, answer>>

ComplianceSteps ==
    AskHistory \/ ReadBefore \/ ReadAfter \/ Compile \/ Visit \/ SetActive \/ Later

ComplianceSpec == ComplianceInit /\ [][ComplianceSteps]_complianceVars
-----------------------------------------------------------------------------
(* The status of an asset on a date of the history is the one that all its *)
(* inspections before the request, and those while it ran until some time, *)
(* give: compliant unless all are too long ago.                            *)
Known(a, until) == {t \in times[a] : t < query.began \/ t < until}
Overdue(S, a, date) == \A t \in S : t < date => date - t >= 4 * InspectionCycle(a)
StatusTrue(a, n, until) ==
    LET S == Known(a, until)
        is == answer[n].status[a]
    IN  /\ is \in {"COMPLIANT_DUE_LATER", "COMPLIANT_DUE_SOON"} <=> ~Overdue(S, a, answer[n].date)
        /\ is = Status(S, InspectionCycle(a), answer[n].date)

(* On every date of a history the status of each asset is true, up to a    *)
(* time while the request ran, unless the asset went into or out of        *)
(* service meanwhile; and no asset in service is missing that had been     *)
(* made by then (stats.service.ts:116-236).                                *)
HistoryTrue ==
    query.pc = "done" =>
      \A n \in DOMAIN answer :
        /\ \A a \in Seen \ touched : a \in DOMAIN answer[n].status <=> MadeOn[a] <= answer[n].date
        /\ \A a \in DOMAIN answer[n].status \ touched :
             \E until \in query.began..(clock + 1) : StatusTrue(a, n, until)
=============================================================================
