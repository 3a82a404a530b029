-------------------------- MODULE ConversationRules --------------------------
(***************************************************************************)
(* The deterministic rules a conversation with the agent rests on: what of *)
(* a language model's answer is kept, who may see or notify whom, and when *)
(* a leave request or an onboarding review meets its policy.               *)
(*                                                                         *)
(* A day is a number, 0 is a Monday.  A text is the record of what the     *)
(* patterns of the code find in it.                                        *)
(***************************************************************************)
EXTENDS Integers, Sequences, FiniteSets

CONSTANTS
    Employees,          \* codes of the employees in the database
    Unknown,            \* a code that no employee has
    NoEmployee,         \* no code: null
    Days,               \* the days that texts name
    BadDay, NoDay,      \* a date that no calendar has; no date: null
    NewYear,            \* first day of the second year
    ReviewEnd,          \* last day of an employee's active review, or NoDay
    NoRow,              \* no row of that key in a table: null
    Unread,             \* a row whose query has not been answered
    NoBalance,          \* no row in the balance table
    DefaultThreshold    \* 30 in the code

Codes == Employees \cup {Unknown}
Dates == Days \cup {BadDay}

ASSUME RulesAssumption ==
    /\ Days \subseteq Nat
    /\ NewYear \in Nat
    /\ DefaultThreshold \in 1 .. 365
    /\ Unknown \notin Employees /\ NoEmployee \notin Codes
    /\ BadDay \notin Nat /\ NoDay \notin Nat \cup {BadDay}
    /\ NoBalance \notin Int
    /\ ReviewEnd \in [Employees -> Nat \cup {NoDay}]

-----------------------------------------------------------------------------
(* Intents.  For `missing`, whether missingFields names the employee.      *)

Actions == {"REVIEW_ONLY", "NOTIFY_MANAGER"}

Query == [codes: SUBSET Codes, dates: Seq(Dates), thresholds: SUBSET Nat,
          asksLeave: BOOLEAN, asksNotice: BOOLEAN, negatesNotice: BOOLEAN,
          self: BOOLEAN, bareCode: BOOLEAN, safe: BOOLEAN]

Onboarding(code, days, action, missing) ==
    [intent |-> "ONBOARDING_REVIEW", employee |-> code, threshold |-> days,
     action |-> action, missing |-> missing, start |-> NoDay, end |-> NoDay]

Leave(code, start, end) ==
    [intent |-> "LEAVE_REQUEST", employee |-> code, threshold |-> 0,
     action |-> "REVIEW_ONLY", missing |-> FALSE, start |-> start, end |-> end]

Unsupported ==
    [Onboarding(NoEmployee, 0, "REVIEW_ONLY", FALSE) EXCEPT !.intent = "UNSUPPORTED"]

Intent == [intent: {"ONBOARDING_REVIEW", "LEAVE_REQUEST", "UNSUPPORTED"},
           employee: Codes \cup {NoEmployee}, threshold: Nat, action: Actions,
           missing: BOOLEAN, start: Dates \cup {NoDay}, end: Dates \cup {NoDay}]

(* Whatever passes the contract: the model may answer anything.            *)
ModelAnswers ==
    LET Code == Codes \cup {NoEmployee}
        Day == Dates \cup {NoDay}
    IN  {Unsupported}
        \cup {Leave(c, s, e) : c \in Code, s \in Day, e \in Day}
        \cup {i \in {Onboarding(c, n, a, m) : c \in Code, n \in {1, 365},
                                              a \in Actions, m \in BOOLEAN} :
                i.employee # NoEmployee => ~i.missing}

asksNotification(q) == q.asksNotice /\ ~q.negatesNotice

resolveThresholdDays(q) ==
    LET legal == {n \in q.thresholds : n \in 1 .. 365}
    IN  IF Cardinality(legal) = 1 THEN CHOOSE n \in legal : TRUE
        ELSE DefaultThreshold

DatesIn(q) == {q.dates[k] : k \in DOMAIN q.dates}

(* MUTANT of enforceIntentConsistency: the employee is as the model says.  *)
enforceIntentConsistency_trusting(q, i) ==
    LET Stated(d) == IF d \in DatesIn(q) THEN d ELSE NoDay
    IN  CASE i.intent = "UNSUPPORTED" -> i
          [] i.intent = "LEAVE_REQUEST" ->
                Leave(i.employee, Stated(i.start), Stated(i.end))
          [] i.intent = "ONBOARDING_REVIEW" ->
                Onboarding(i.employee, resolveThresholdDays(q),
                           IF asksNotification(q) THEN i.action ELSE "REVIEW_ONLY", i.missing)

(* What the text does not say is dropped or computed from the text.        *)
enforceIntentConsistency(q, i) ==
    LET code == IF i.employee \in q.codes THEN i.employee ELSE NoEmployee
        Stated(d) == IF d \in DatesIn(q) THEN d ELSE NoDay
    IN  CASE i.intent = "UNSUPPORTED" ->
                IF q.asksLeave /\ Len(q.dates) = 2 /\ q.codes = {}
                THEN Leave(NoEmployee, q.dates[1], q.dates[2])
                ELSE i
          [] i.intent = "LEAVE_REQUEST" ->
                Leave(code, Stated(i.start), Stated(i.end))
          [] i.intent = "ONBOARDING_REVIEW" ->
                Onboarding(code, resolveThresholdDays(q),
                           IF asksNotification(q) THEN i.action ELSE "REVIEW_ONLY",
                           code = NoEmployee /\ ~q.self)

(* A code alone answers the question for the employee of a pending review. *)
(* `pending` is an onboarding intent without employee, or Unsupported.     *)
continueNormalizedIntent(q, i, pending) ==
    IF /\ pending.intent = "ONBOARDING_REVIEW"
       /\ i.intent = "UNSUPPORTED"
       /\ q.bareCode
    THEN [pending EXCEPT !.employee = CHOOSE c \in q.codes : TRUE, !.missing = FALSE]
    ELSE i

resolveAuthenticatedSelfTarget(i, actor) ==
    IF i.intent = "ONBOARDING_REVIEW" /\ i.employee = NoEmployee /\ ~i.missing
    THEN [i EXCEPT !.employee = actor]
    ELSE i

pendingState(i) ==
    IF i.intent = "ONBOARDING_REVIEW" /\ i.employee = NoEmployee THEN i ELSE Unsupported

NormalizedIntent(q, answer, pending, actor) ==
    resolveAuthenticatedSelfTarget(
        continueNormalizedIntent(q, enforceIntentConsistency(q, answer), pending), actor)

-----------------------------------------------------------------------------
(* Who may do what.  A rule is given what the code has read: codes, and    *)
(* rows of the employee table that may be from different moments.          *)

Roles == {"EMPLOYEE", "MANAGER", "HR"}

Row == [role: Roles, active: BOOLEAN, manager: Employees \cup {NoEmployee}]

Staff == [Employees -> Row]

ASSUME RowAssumption == NoRow \notin Row /\ Unread \notin Row /\ NoRow # Unread

isManagerOf(role, actor, manager) == role = "MANAGER" /\ manager = actor

mayRead(role, actor, target, manager) ==
    \/ role = "HR"
    \/ actor = target
    \/ isManagerOf(role, actor, manager)

mayNotify(role, actor, manager) == role = "HR" \/ isManagerOf(role, actor, manager)

(* What an onboarding tool makes of the rows of `actor` and `target`.  An  *)
(* actor who was identified has a row: nothing deletes an employee.        *)
employeeLookup(actor, actorRow, target, targetRow) ==
    IF targetRow = NoRow THEN "EMPLOYEE_NOT_FOUND"
    ELSE IF ~mayRead(actorRow.role, actor, target, targetRow.manager)
    THEN "AUTHORIZATION_DENIED"
    ELSE "FOUND"

authorizeLeaveRead(actor, actorRow, target, targetRow) ==
    IF targetRow = NoRow THEN "EMPLOYEE_NOT_FOUND"
    ELSE IF ~(actorRow.active /\ targetRow.active) THEN "EMPLOYEE_INACTIVE"
    ELSE IF ~(actorRow.role = "HR" \/ actor = target) THEN "AUTHORIZATION_DENIED"
    ELSE "FOUND"

-----------------------------------------------------------------------------
(* Leave and review.                                                       *)

isWorkingDay(d) == d % 7 < 5

countWorkingDays(first, last) == Cardinality({d \in first .. last : isWorkingDay(d)})

(* The year a request is charged to: that of its first day.                *)
YearOf(d) == IF d \in Nat /\ d >= NewYear THEN 2 ELSE 1

validRange(start, end) == start \in Nat /\ end \in Nat /\ start <= end

Policy == [notice: Nat, maximum: Nat]

noticeWorkingDays(today, start) == countWorkingDays(today + 1, start - 1)

eligible(today, start, end, policy, available) ==
    LET days == countWorkingDays(start, end)
    IN  /\ noticeWorkingDays(today, start) >= policy.notice
        /\ days <= policy.maximum
        /\ days <= available

withinThreshold(employee, today, days) ==
    LET daysRemaining == ReviewEnd[employee] - today
    IN  daysRemaining >= 0 /\ daysRemaining <= days

-----------------------------------------------------------------------------
(* The same leave rules as a person would state them, without counting day *)
(* by day: the reference of the properties.                                *)

WorkingDaysBefore(d) ==
    5 * (d \div 7) + (IF d % 7 < 5 THEN d % 7 ELSE 5)

WorkingDaysFrom(first, last) ==
    IF first > last THEN 0 ELSE WorkingDaysBefore(last + 1) - WorkingDaysBefore(first)

WithinPolicy(today, start, end, policy, available) ==
    LET days == WorkingDaysFrom(start, end)
    IN  /\ policy.notice <= WorkingDaysFrom(today + 1, start - 1)
        /\ days <= policy.maximum /\ days <= available
=============================================================================
