----------------------------- MODULE AlertRules -----------------------------
(* The criteria of a question against the response to it (alert-utils.ts), *)
(* the alerts an inspection raises (AssetsService.handleAlertTriggers,     *)
(* within the transaction that creates it) and what becomes of them        *)
(* (AlertsService).  A text is the sequence of its letters in lower case,  *)
(* a date a number of half days, the even ones at midnight.  A response of *)
(* type NUMBER or DATE may be left blank or not be one at all.  Responses  *)
(* with images, and rules that count days on a question that does not ask  *)
(* for a date, are left out.  Mails about alerts are in Notifications.     *)
EXTENDS Integers, Sequences
Letters == INSTANCE SequencesExt

CONSTANTS
    Blank,          \* a response ''
    Garbled,        \* a text that is no number, or no date
    Now,            \* the time of the inspection
    Responses,      \* [type, value, asked]: asked, the type of the question
    CriteriaFor,    \* type -> the sets of criteria, [rule, auto], a question has
    Resolvers       \* the people who resolve alerts

(* What a clause of a criterion maps, by the type of the response: texts   *)
(* and numbers may be anything, counts of days are whole.                  *)
OnDays == {"beforeDaysPast", "afterDaysPast", "beforeDaysFuture", "afterDaysFuture"}
OnText == {"contains", "notContains", "startsWith", "endsWith"}
Compared == {"is", "equals", "not", "gt", "gte", "lt", "lte"}
Operand(type) == IF type = "TEXT" THEN Seq(Int) ELSE Int \cup {Blank, Garbled}
Clause(type, c) ==
    /\ DOMAIN c \subseteq Compared \cup OnText \cup {"empty", "notEmpty"}
                         \cup (IF type = "DATE" THEN OnDays ELSE {})
    /\ \A op \in DOMAIN c \cap Compared : c[op] \in Operand(type)
    /\ \A op \in DOMAIN c \cap OnText : c[op] \in Seq(Int)
    /\ \A op \in DOMAIN c \cap OnDays : c[op] \in Int

ASSUME AlertsAssumption ==
    /\ Now \in Int /\ Blank # Garbled /\ {Blank, Garbled} \cap Int = {}
    /\ \A r \in Responses :
          /\ r.type \in {"TEXT", "NUMBER", "DATE"} /\ r.value \in Operand(r.type)
          /\ r.asked \in {"SETUP", "INSPECTION", "SETUP_AND_INSPECTION"}
          /\ \A C \in CriteriaFor[r.type] : \A c \in C :
                /\ DOMAIN c.rule.parts \subseteq Nat
                /\ \A i \in DOMAIN c.rule.parts : Clause(r.type, c.rule.parts[i])

VARIABLES
    alerts,     \* [criterion, says, resolved, by, image]
    report      \* the inspection: [status, response, criteria, outcome]

alertVars == <<alerts, report>>

NoReport == [outcome |-> "none"]

(* A clause maps operators to operands; the plain text it may also be is   *)
(* the operator "is".  Whatever it maps, one operator is tested.           *)
Operators == <<"is", "contains", "empty", "endsWith", "equals", "gt", "gte", "lt", "lte", "not",
               "notContains", "notEmpty", "startsWith", "beforeDaysPast", "afterDaysPast",
               "beforeDaysFuture", "afterDaysFuture">>

(* The first of a set of positions. *)
First(S) == CHOOSE i \in S : \A j \in S : i <= j

Tested(clause) == Operators[First({i \in DOMAIN Operators : Operators[i] \in DOMAIN clause})]

(* compare: Number('') is 0, and nothing is in order with what is no       *)
(* number; letters are compared from the left.                             *)
ToNumber(x) == IF x = Blank THEN 0 ELSE x

Above(type, x, y) ==
    IF type = "NUMBER" THEN Garbled \notin {x, y} /\ x > y
    ELSE \/ Letters!IsStrictPrefix(y, x)
         \/ \E i \in DOMAIN x \cap DOMAIN y :
              SubSeq(x, 1, i - 1) = SubSeq(y, 1, i - 1) /\ x[i] > y[i]

Same(type, x, y) == x = y /\ (type = "NUMBER" => x # Garbled)

(* stringOrNumber: the operand t comes first, whatever the operator. *)
OrderTest(type, op, t, v) ==
    CASE op \in {"is", "equals"} -> Same(type, t, v)
      [] op = "not" -> ~Same(type, t, v)
      [] op = "gt"  -> Above(type, t, v)
      [] op = "gte" -> Above(type, t, v) \/ Same(type, t, v)
      [] op = "lt"  -> Above(type, v, t)
      [] op = "lte" -> Above(type, v, t) \/ Same(type, t, v)
      [] OTHER -> FALSE

IsDate(x) == x \notin {Blank, Garbled}
IsSameDay(x, y) == IsDate(x) /\ IsDate(y) /\ x \div 2 = y \div 2
IsAfter(x, y) == IsDate(x) /\ IsDate(y) /\ x > y
DifferenceInDays(x, y) == IF x >= y THEN (x - y) \div 2 ELSE -((y - x) \div 2)

(* Faulty variant: the operands of dates are swapped as those of numbers. *)
DateTestSwapped(op, t, v) ==
    CASE op \in {"is", "equals"} -> IsSameDay(t, v)
      [] op = "not" -> ~IsSameDay(t, v)
      [] op = "gt"  -> IsAfter(t, v)
      [] op = "gte" -> IsSameDay(t, v) \/ IsAfter(t, v)
      [] op = "lt"  -> IsAfter(v, t)
      [] op = "lte" -> IsSameDay(t, v) \/ IsAfter(v, t)
      [] OTHER -> FALSE

DateTest(op, t, v) ==
    CASE op \in {"is", "equals"} -> IsSameDay(t, v)
      [] op = "not" -> ~IsSameDay(t, v)
      [] op = "gt"  -> IsAfter(v, t)
      [] op = "gte" -> IsSameDay(t, v) \/ IsAfter(v, t)
      [] op = "lt"  -> IsAfter(t, v)
      [] op = "lte" -> IsSameDay(t, v) \/ IsAfter(t, v)
      [] OTHER -> FALSE

DaysTest(op, n, v) ==
    IsDate(v) /\ CASE op = "beforeDaysPast"   -> DifferenceInDays(Now, v) > n
                   [] op = "afterDaysPast"    -> DifferenceInDays(Now, v) < n
                   [] op = "beforeDaysFuture" -> DifferenceInDays(v, Now) < n
                   [] op = "afterDaysFuture"  -> DifferenceInDays(v, Now) > n
                   [] OTHER -> FALSE

Includes(v, t) == \E i \in 0..Len(v) : Letters!IsPrefix(t, SubSeq(v, i + 1, Len(v)))

(* The operators on texts alone; a response of another type fails them. *)
TextTest(op, t, v) ==
    CASE op = "contains"    -> Includes(v, t)
      [] op = "notContains" -> ~Includes(v, t)
      [] op = "startsWith"  -> Letters!IsPrefix(t, v)
      [] op = "endsWith"    -> Letters!IsSuffix(t, v)
      [] OTHER -> FALSE

IsEmpty(response) == response.value = IF response.type = "TEXT" THEN <<>> ELSE Blank

(* testAlertRuleClause: the fact the message states, if it holds. *)
TestAlertRuleClause(response, clause) ==
    LET op == Tested(clause)
        t == clause[op]
        v == response.value
    IN  CASE op = "empty"    -> IsEmpty(response)
          [] op = "notEmpty" -> ~IsEmpty(response)
          [] op \in OnText -> response.type = "TEXT" /\ TextTest(op, t, v)
          [] op \in OnDays -> DaysTest(op, t, v)
          [] OTHER -> CASE response.type = "DATE" -> DateTest(op, t, v)
                        [] response.type = "NUMBER" -> OrderTest("NUMBER", op, ToNumber(t), ToNumber(v))
                        [] OTHER -> OrderTest("TEXT", op, t, v)

(* rule.value is passed over when it is '' or absent. *)
PassedOver(response, clause) ==
    \/ DOMAIN clause = {}
    \/ DOMAIN clause = {"is"} /\ clause["is"] = IF response.type = "TEXT" THEN <<>> ELSE Blank

True(response, clause) == ~PassedOver(response, clause) /\ TestAlertRuleClause(response, clause)

(* testAlertRule.  The schema leaves rules of one level: a value, an AND   *)
(* or an OR of values.  The message of an AND is that of all, of an OR the *)
(* first that holds; an AND of nothing gives ''.                           *)
TestAlertRule(response, rule) ==
    LET holding == {i \in DOMAIN rule.parts : True(response, rule.parts[i])} IN
    IF rule.kind = "AND"
    THEN [hit |-> holding = DOMAIN rule.parts, says |-> rule.parts]
    ELSE [hit |-> holding # {}, says |-> IF holding = {} THEN <<>> ELSE <<rule.parts[First(holding)]>>]

(* The message of a comparison of dates is put together whether or not it  *)
(* is needed, and formatting what is no date throws.                       *)
Throws(response, rule) ==
    /\ response.type = "DATE"
    /\ \E i \in DOMAIN rule.parts :
         /\ ~PassedOver(response, rule.parts[i])
         /\ Tested(rule.parts[i]) \in {"equals", "gt", "gte", "lt", "lte", "not"}
         /\ ~IsDate(rule.parts[i][Tested(rule.parts[i])])

AlertsInit == alerts = {} /\ report = NoReport

(* InspectionsService.create with handleAlertTriggers: an exception undoes *)
(* the inspection.                                                         *)
HandleAlertTriggers ==
    /\ report = NoReport
    /\ \E response \in Responses, status \in {"COMPLETE", "PENDING"} :
       \E criteria \in CriteriaFor[response.type] :
         LET asked == status = "COMPLETE" /\ response.asked \in {"SETUP_AND_INSPECTION", "INSPECTION"}
             thrown == asked /\ \E c \in criteria : Throws(response, c.rule)
             raised == {c \in criteria : asked /\ ~thrown /\ TestAlertRule(response, c.rule).hit}
         IN  /\ report' = [outcome |-> IF thrown THEN "refused" ELSE "recorded",
                           status |-> status, response |-> response, criteria |-> criteria]
             /\ alerts' = {[criterion |-> c, says |-> TestAlertRule(response, c.rule).says,
                            resolved |-> c.auto, by |-> "nobody", image |-> FALSE] : c \in raised}

(* resolveAlert: one statement on the alert while it is not resolved. *)
ResolveAlert ==
    \E a \in alerts, p \in Resolvers :
      /\ ~a.resolved
      /\ alerts' = (alerts \ {a}) \cup {[a EXCEPT !.resolved = TRUE, !.by = p]}
      /\ UNCHANGED report

AttachInspectionImage ==
    \E a \in alerts : alerts' = (alerts \ {a}) \cup {[a EXCEPT !.image = TRUE]} /\ UNCHANGED report

AlertSteps == HandleAlertTriggers \/ ResolveAlert \/ AttachInspectionImage

AlertsSpec == AlertsInit /\ [][AlertSteps]_alertVars
-----------------------------------------------------------------------------
(* What the words of a message mean, said without the code's comparisons.  *)
(* Numbers and texts are compared the wrong way round: "more than" is said *)
(* of a value below the operand.  Days count when they are whole, and what *)
(* is less than a day away is no day away.                                 *)
MoreDays(span, n) == IF n >= 0 THEN span >= 2 * (n + 1) ELSE span > 2 * n

(* The response is below the operand, equal to it, or in an order with it. *)
Below(response, t) ==
    LET v == response.value IN
    CASE response.type = "DATE" -> IsDate(t) /\ IsDate(v) /\ v < t
      [] response.type = "NUMBER" -> Garbled \notin {t, v} /\ ToNumber(v) < ToNumber(t)
      [] OTHER -> v # t /\ \E i \in 1..Len(t) : /\ \A j \in 1..(i - 1) : j <= Len(v) /\ v[j] = t[j]
                                                /\ (i > Len(v) \/ v[i] < t[i])

Equal(response, t) ==
    LET v == response.value IN
    CASE response.type = "DATE" -> IsDate(t) /\ IsDate(v) /\ \E d \in {0, 1} : t - d = 2 * (v \div 2)
      [] response.type = "NUMBER" -> ToNumber(v) = ToNumber(t) /\ v # Garbled
      [] OTHER -> v = t

Ordered(response, t) ==
    CASE response.type = "DATE" -> IsDate(t) /\ IsDate(response.value)
      [] response.type = "NUMBER" -> Garbled \notin {t, response.value}
      [] OTHER -> TRUE

(* The text t occurs in v: at its start, at its end, or anywhere. *)
Occurs(v, t, start, end) ==
    \E i \in 0..Len(v) : /\ i + Len(t) <= Len(v)
                         /\ SubSeq(v, i + 1, i + Len(t)) = t
                         /\ (start => i = 0) /\ (end => i + Len(t) = Len(v))

Meaning(response, op, t) ==
    LET v == response.value
        date == response.type = "DATE"
        text == response.type = "TEXT"
    IN  CASE op \in {"is", "equals"} -> Equal(response, t)
          [] op = "not" -> ~Equal(response, t)
          [] op = "gt"  -> IF date THEN Ordered(response, t) /\ ~Below(response, t) /\ v # t
                           ELSE Below(response, t)
          [] op = "gte" -> IF date THEN Ordered(response, t) /\ (~Below(response, t) \/ Equal(response, t))
                           ELSE Below(response, t) \/ Equal(response, t)
          [] op = "lt"  -> IF date THEN Below(response, t)
                           ELSE Ordered(response, t) /\ ~Below(response, t) /\ ~Equal(response, t)
          [] op = "lte" -> IF date THEN Below(response, t) \/ Equal(response, t)
                           ELSE Ordered(response, t) /\ ~Below(response, t)
          [] op = "contains"    -> text /\ Occurs(v, t, FALSE, FALSE)
          [] op = "notContains" -> text /\ ~Occurs(v, t, FALSE, FALSE)
          [] op = "startsWith"  -> text /\ Occurs(v, t, TRUE, FALSE)
          [] op = "endsWith"    -> text /\ Occurs(v, t, FALSE, TRUE)
          [] op = "empty" -> IsEmpty(response)
          [] op = "notEmpty" -> ~IsEmpty(response)
          [] op = "beforeDaysPast"   -> IsDate(v) /\ MoreDays(Now - v, t)
          [] op = "afterDaysPast"    -> IsDate(v) /\ MoreDays(v - Now, -t)
          [] op = "beforeDaysFuture" -> IsDate(v) /\ MoreDays(Now - v, -t)
          [] op = "afterDaysFuture"  -> IsDate(v) /\ MoreDays(v - Now, t)

(* A clause that is not passed over means what the response is; a rule     *)
(* fits when all its clauses do, or one of them.                           *)
Means(response, c) == ~PassedOver(response, c) /\ Meaning(response, Tested(c), c[Tested(c)])
Fits(response, rule) ==
    IF rule.kind = "AND" THEN \A i \in DOMAIN rule.parts : Means(response, rule.parts[i])
    ELSE \E i \in DOMAIN rule.parts : Means(response, rule.parts[i])

(* A completed inspection raises an alert for a criterion exactly when the *)
(* clauses it combines mean what the response is, and each fact of the     *)
(* message is one of them: dates and counts of days as they read, numbers  *)
(* and texts with above and below exchanged (alert-utils.ts:91-129).  It   *)
(* is refused only for an operand of a criterion that is no date.          *)
AlertsExact ==
    report # NoReport =>
      LET r == report.response
          due == report.status = "COMPLETE" /\ r.asked # "SETUP"
      IN  /\ report.outcome = "recorded" =>
               {a.criterion : a \in alerts} = {c \in report.criteria : due /\ Fits(r, c.rule)}
          /\ \A a \in alerts : \A i \in DOMAIN a.says : Means(r, a.says[i])
          /\ report.outcome = "refused" =>
               \E c \in report.criteria : \E i \in DOMAIN c.rule.parts :
                 LET part == c.rule.parts[i] IN ~IsDate(part[Tested(part)])
=============================================================================
