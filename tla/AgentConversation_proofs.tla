---------------------- MODULE AgentConversation_proofs ----------------------
(***************************************************************************)
(* Proofs about AgentConversation, for every number of employees, threads, *)
(* calls, queries and tables, and whatever the model answers.              *)
(***************************************************************************)
EXTENDS AgentConversation, FiniteSetTheorems, WellFoundedInduction, TLAPS

-----------------------------------------------------------------------------
(* The inductive invariant, of a call `c`, the checkpoint `k`, the audited *)
(* owner `a` and the request `r` of its thread, and the snapshot `s`.      *)

(* What a pending intent stands for: an onboarding review that still lacks *)
(* its employee, as the query `q` asked for it.                            *)
PendingOf(i, q) ==
    \/ i = Unsupported
    \/ /\ i.intent = "ONBOARDING_REVIEW" /\ i.employee = NoEmployee
       /\ i.start = NoDay /\ i.end = NoDay
       /\ i.threshold = resolveThresholdDays(q)
       /\ i.action = "NOTIFY_MANAGER" => asksNotification(q)

Counted(p) == p # NoProposal => p.days = WorkingDaysFrom(p.start, p.end)

(* A checkpoint has an owner, and a proposal exactly where a run waits.    *)
Kept(k) ==
    /\ k.at # "NONE" => k.owner \in Employees
    /\ k.at = "leave_approval" <=> k.proposal # NoProposal
    /\ Counted(k.proposal)
    /\ PendingOf(k.pending, k.origin)

(* The places of a call in the graph, with those between two reads, and    *)
(* those where it reads for a leave request.                               *)
AtWork == Nodes \cup {"looking_up", "calculating", "notifying", "revalidation", "submit"}

Running ==
    Nodes \cup {"looking_up", "calculating", "notifying", "revalidation", "submit",
                "interrupted", "finish"}

LoadingAt == {"parallel_leave_context", "revalidation"}

Entered(c, k) ==
    /\ c.pc = "idle" => c = Idle
    /\ c.pc = "identity" =>
        /\ c.intent = NoIntent /\ c.review = "NONE" /\ c.proposal = NoProposal
        /\ c.notified = NoEmployee /\ c.outcome = "NONE" /\ c.trail = {}
    /\ c.pc \in {"identity", "request_guard", "intent_normalization"} => c.behind = k.origin
    /\ c.query \in Queries \cup {EmptyQuery}
    /\ c.decision # "NONE" => c.query = EmptyQuery
    /\ PendingOf(c.pending, c.origin)

Owned(c, k, a) ==
    c.pc \in Running =>
        /\ c.actor \in Employees
        /\ k.owner \in {NoEmployee, c.actor}
        /\ a \in {NoEmployee, c.actor}

Named(c) ==
    c.intent # NoIntent =>
        /\ \/ c.intent.employee \in c.query.codes \cup {NoEmployee}
           \/ c.intent.employee = c.actor /\ c.query.self
        /\ {c.intent.start, c.intent.end} \subseteq DatesIn(c.query) \cup {NoDay}

(* The query an onboarding intent is of.                                   *)
Behind(c) == {c.query} \cup (IF c.query.bareCode THEN {c.behind} ELSE {})

Asked(c) ==
    c.intent # NoIntent /\ c.intent.intent = "ONBOARDING_REVIEW" =>
        \E q \in Behind(c) :
            /\ c.intent.threshold = resolveThresholdDays(q)
            /\ c.intent.action = "NOTIFY_MANAGER" => asksNotification(q)

Onboards(c) ==
    /\ /\ c.pc \in {"employee_lookup", "looking_up", "onboarding_calculation",
                    "calculating", "manager_notification", "notifying"}
       /\ c.intent # NoIntent
       => c.intent.intent = "ONBOARDING_REVIEW"
    /\ c.pc \in {"looking_up", "calculating", "notifying"} =>
        /\ c.intent # NoIntent
        /\ \E s \in c.seen : c.actorRow = s.tables.staff[c.actor]
    /\ c.pc = "calculating" => \E s \in c.seen : c.day = s.today
    /\ c.pc \in {"manager_notification", "notifying"} /\ c.intent # NoIntent =>
        /\ c.intent.action = "NOTIFY_MANAGER"
        /\ c.review \in {"WITHIN", "OUTSIDE"}
        /\ \E s \in c.seen : s.tables.staff[c.intent.employee].active
        /\ c.review = "WITHIN" => \E s \in c.seen :
            ReviewEnd[c.intent.employee] \in s.today .. (s.today + c.intent.threshold)

Notifies(c) ==
    c.notified # NoEmployee =>
        \E q \in Behind(c) :
            /\ asksNotification(q)
            /\ \E s, later \in c.seen :
                mayNotify(s.tables.staff[c.actor].role, c.actor,
                          later.tables.staff[c.notified].manager)
            /\ \E s \in c.seen : s.tables.staff[c.notified].active
            /\ \E s \in c.seen :
                ReviewEnd[c.notified] \in s.today .. (s.today + resolveThresholdDays(q))

(* The moments at which the actor might ask for leave of an employee, and  *)
(* those of which the policy and the balance have been read.               *)
MayRequest(c, employee) ==
    /\ \E s \in c.seen :
        /\ s.tables.staff[c.actor].active
        /\ c.actor = employee \/ s.tables.staff[c.actor].role = "HR"
    /\ \E s \in c.seen : s.tables.staff[employee].active

PolicyRead(c) == \E s \in c.seen : c.terms.policy = s.tables.policy

BalanceRead(c, employee, start) ==
    \E s \in c.seen :
        /\ c.terms.available = s.tables.balance[employee][YearOf(start)]
        /\ c.terms.available # NoBalance

(* What a tool has read for a leave request.                               *)
ToolRead(c, x) ==
    LET rows == c.tools[x]
    IN  /\ rows.actor # Unread => \E s \in c.seen : rows.actor = s.tables.staff[c.actor]
        /\ rows.target # Unread =>
            IF LeaveOf(c) \in Employees
            THEN \E s \in c.seen : rows.target = s.tables.staff[LeaveOf(c)]
            ELSE rows.target = NoRow
        /\ rows.step # "authorizing" => LeaveOf(c) \in Employees /\ MayRequest(c, LeaveOf(c))
        /\ x = "policy" /\ rows.step = "done" => PolicyRead(c)
        /\ x = "balance" /\ rows.step = "done" => BalanceRead(c, LeaveOf(c), StartOf(c))

Loads(c) ==
    /\ c.pc \notin LoadingAt \cup {"answered"} => c.tools = NothingRead
    /\ Loading(c) => \A x \in Tools : ToolRead(c, x)

Decides(c, k, r) ==
    /\ c.pc \in {"parallel_leave_context", "leave_proposal_calculation"}
            /\ c.intent # NoIntent =>
        /\ c.intent.intent = "LEAVE_REQUEST"
        /\ NoDay \notin {c.intent.start, c.intent.end}
    /\ c.pc = "leave_proposal_calculation" /\ c.intent # NoIntent => Target(c) \in Employees
    /\ c.pc \in {"leave_approval", "interrupted", "revalidation", "submit"}
            \/ "leave_approval" \in c.trail =>
        c.proposal # NoProposal
    /\ Counted(c.proposal)
    /\ c.pc \in {"leave_approval", "revalidation", "submit"} /\ c.decision # "NONE" =>
        c.proposal = k.proposal /\ r = NoRequest
    /\ c.pc \in {"revalidation", "submit"} => c.decision = "APPROVE"
    /\ c.pc = "submit" =>
        /\ MayRequest(c, c.proposal.employee)
        /\ PolicyRead(c) /\ BalanceRead(c, c.proposal.employee, c.proposal.start)

DecisionTrue(c, r) ==
    /\ c.outcome = "SUBMITTED" =>
        /\ r = [proposal |-> c.proposal, by |-> c.actor]
        /\ c.proposal # NoProposal
        /\ MayRequest(c, c.proposal.employee)
        /\ \E s, next, last \in c.seen :
            LET p == c.proposal
                available == next.tables.balance[p.employee][YearOf(p.start)]
            IN  /\ available # NoBalance
                /\ WithinPolicy(last.today, p.start, p.end, s.tables.policy, available)
    /\ c.outcome \in {"LEAVE_REQUEST_REJECTED", "LEAVE_PROPOSAL_CHANGED"} => r = NoRequest
    /\ c.outcome = "ALREADY_SUBMITTED" => r # NoRequest

Recorded(c, a) ==
    /\ c.outcome # "NONE" => c.pc \in {"response_audit", "finish", "answered"}
    /\ c.pc \in {"finish", "answered"} => c.outcome # "NONE"
    /\ c.pc \in {"finish", "answered"}
            /\ c.outcome \notin {"INTERNAL_ERROR", "AUTHENTICATION_REQUIRED"} =>
        c.audited /\ a # NoEmployee

CallInv(c, k, a, r, s) ==
    /\ Kept(k)
    /\ Entered(c, k)
    /\ Owned(c, k, a)
    /\ Named(c) /\ Asked(c)
    /\ Onboards(c) /\ Notifies(c)
    /\ Loads(c) /\ Decides(c, k, r) /\ DecisionTrue(c, r)
    /\ Recorded(c, a)
    /\ c.pc \notin {"idle", "answered"} => s \in c.seen

ConversationInv ==
    \A t \in Threads : CallInv(call[t], checkpoint[t], auditOwner[t], request[t], Now)

-----------------------------------------------------------------------------
(* Working days.                                                           *)

(* A set of naturals has a least element.                                  *)
LEMMA LeastNumber ==
    ASSUME NEW T \in SUBSET Nat, T # {}
    PROVE  \E n \in T : \A m \in T : n <= m
<1> DEFINE R == OpToRel(<, Nat)
<1>1. PICK n \in T : \A m \in T : <<m, n>> \notin R
  <2>1. IsWellFoundedOn(R, Nat)
    BY NatLessThanWellFounded
  <2> HIDE DEF R
  <2> QED
    BY <2>1, WFMin
<1>2. ASSUME NEW m \in T PROVE n <= m
  <2>1. m \in Nat /\ n \in Nat /\ <<m, n>> \notin R
    BY <1>1
  <2> QED
    BY <2>1 DEF OpToRel
<1> QED
  BY <1>2

(* One day more is one working day more, if it is one.                     *)
LEMMA OneDayMore ==
    ASSUME NEW d \in Nat
    PROVE  /\ WorkingDaysBefore(d) \in Nat
           /\ WorkingDaysBefore(d + 1) =
                WorkingDaysBefore(d) + (IF isWorkingDay(d) THEN 1 ELSE 0)
<1>1. d % 7 \in 0 .. 6 /\ d \div 7 \in Nat
  <2>1. d % 7 \in 0 .. 6
    OBVIOUS
  <2>2. d \div 7 \in Nat
    OBVIOUS
  <2> QED
    BY <2>1, <2>2
<1>2. CASE d % 7 = 6
  <2>1. (d + 1) % 7 = 0 /\ (d + 1) \div 7 = d \div 7 + 1
    BY <1>2
  <2> QED
    BY <1>1, <1>2, <2>1 DEF WorkingDaysBefore, isWorkingDay
<1>3. CASE d % 7 # 6
  <2>1. (d + 1) % 7 = (d % 7) + 1 /\ (d + 1) \div 7 = d \div 7
    BY <1>1, <1>3
  <2> QED
    BY <1>1, <1>3, <2>1 DEF WorkingDaysBefore, isWorkingDay
<1> QED
  BY <1>2, <1>3

(* Counting day by day agrees with the reference, for every range.         *)
LEMMA DaysCounted ==
    ASSUME NEW first \in Nat, NEW last \in Int, last >= -1
    PROVE  /\ countWorkingDays(first, last) = WorkingDaysFrom(first, last)
           /\ countWorkingDays(first, last) \in Nat
<1> DEFINE Working(n) == {d \in first .. (first + n - 1) : isWorkingDay(d)}
           Right(n) == Cardinality(Working(n)) =
                        WorkingDaysBefore(first + n) - WorkingDaysBefore(first)
           Wrong == {n \in Nat : ~Right(n)}
<1>1. ASSUME NEW n \in Nat
      PROVE  IsFiniteSet(Working(n)) /\ Cardinality(Working(n)) \in Nat
  <2>1. IsFiniteSet(first .. (first + n - 1))
    BY FS_Interval
  <2>2. Working(n) \in SUBSET (first .. (first + n - 1))
    OBVIOUS
  <2> HIDE DEF Working
  <2>3. IsFiniteSet(Working(n))
    BY <2>1, <2>2, FS_Subset
  <2> QED
    BY <2>3, FS_CardinalityType
<1>2. Right(0)
  <2>1. Working(0) = {}
    OBVIOUS
  <2>2. WorkingDaysBefore(first) \in Nat
    BY OneDayMore
  <2> QED
    BY <2>1, <2>2, FS_EmptySet
<1>3. ASSUME NEW n \in Nat, Right(n) PROVE Right(n + 1)
  <2> DEFINE day == first + n
  <2>1. /\ WorkingDaysBefore(day + 1) =
            WorkingDaysBefore(day) + (IF isWorkingDay(day) THEN 1 ELSE 0)
        /\ WorkingDaysBefore(day) \in Nat /\ WorkingDaysBefore(first) \in Nat
    BY OneDayMore
  <2>2. CASE isWorkingDay(day)
    <3>1. Working(n + 1) = Working(n) \cup {day} /\ day \notin Working(n)
      BY <2>2
    <3> HIDE DEF Working
    <3>2. Cardinality(Working(n + 1)) = Cardinality(Working(n)) + 1
      BY <1>1, <3>1, FS_AddElement
    <3> QED
      BY <1>1, <1>3, <2>1, <2>2, <3>2
  <2>3. CASE ~isWorkingDay(day)
    <3>1. Working(n + 1) = Working(n)
      BY <2>3
    <3> HIDE DEF Working
    <3> QED
      BY <1>1, <1>3, <2>1, <2>3, <3>1
  <2> QED
    BY <2>2, <2>3
<1>4. \A n \in Nat : Right(n)
  <2> HIDE DEF Right
  <2> SUFFICES ASSUME Wrong # {} PROVE FALSE
    OBVIOUS
  <2>1. PICK n \in Wrong : \A m \in Wrong : n <= m
    BY LeastNumber
  <2>2. n # 0 /\ n - 1 \in Nat /\ ~Right(n)
    BY <1>2, <2>1
  <2>3. Right(n - 1)
    BY <2>1, <2>2
  <2> QED
    BY <1>3, <2>2, <2>3
<1>5. CASE first > last
  <2>1. first .. last = {}
    BY <1>5
  <2> QED
    BY <1>5, <2>1, FS_EmptySet DEF countWorkingDays, WorkingDaysFrom
<1>6. CASE first <= last
  <2> DEFINE n == last + 1 - first
  <2>1. n \in Nat /\ first + n = last + 1 /\ first + n - 1 = last
    BY <1>6
  <2>2. Working(n) = {d \in first .. last : isWorkingDay(d)}
    BY <2>1
  <2>3. countWorkingDays(first, last) = Cardinality(Working(n))
    BY <2>2 DEF countWorkingDays
  <2> HIDE DEF Working, n
  <2>4. Cardinality(Working(n)) = WorkingDaysBefore(last + 1) - WorkingDaysBefore(first)
    BY <1>4, <2>1
  <2> QED
    BY <1>1, <1>6, <2>1, <2>3, <2>4 DEF WorkingDaysFrom
<1> QED
  BY <1>5, <1>6
-----------------------------------------------------------------------------
(* What is kept of a model's answer.                                       *)

LEMMA AnswerShapes ==
    ASSUME NEW i \in ModelAnswers
    PROVE  \/ i = Unsupported
           \/ \E c \in Codes \cup {NoEmployee}, first \in Dates \cup {NoDay},
                 last \in Dates \cup {NoDay} : i = Leave(c, first, last)
           \/ \E c \in Codes \cup {NoEmployee}, n \in {1, 365}, action \in Actions,
                 m \in BOOLEAN : i = Onboarding(c, n, action, m)
BY DEF ModelAnswers

LEMMA ThresholdType ==
    ASSUME NEW q
    PROVE  resolveThresholdDays(q) \in Nat
<1> DEFINE legal == {n \in q.thresholds : n \in 1 .. 365}
<1>1. CASE Cardinality(legal) = 1
  <2>1. legal # {}
    BY <1>1, FS_EmptySet
  <2>2. \A n \in legal : n \in Nat
    OBVIOUS
  <2> QED
    BY <1>1, <2>1, <2>2 DEF resolveThresholdDays
<1>2. CASE Cardinality(legal) # 1
  BY <1>2, RulesAssumption DEF resolveThresholdDays
<1> QED
  BY <1>1, <1>2

LEMMA ConstantIntents ==
    /\ Unsupported \in Intent /\ NoIntent \notin Intent
    /\ Unsupported.intent = "UNSUPPORTED" /\ Unsupported.employee = NoEmployee
    /\ Unsupported.start = NoDay /\ Unsupported.end = NoDay
BY DEF Unsupported, NoIntent, Onboarding, Intent, Actions

LEMMA LeaveFields ==
    ASSUME NEW c \in Codes \cup {NoEmployee}, NEW first \in Dates \cup {NoDay},
           NEW last \in Dates \cup {NoDay}
    PROVE  LET i == Leave(c, first, last)
           IN  /\ i \in Intent /\ i.intent = "LEAVE_REQUEST"
               /\ i.employee = c /\ i.start = first /\ i.end = last
BY DEF Leave, Intent, Actions

LEMMA OnboardingFields ==
    ASSUME NEW c \in Codes \cup {NoEmployee}, NEW n \in Nat, NEW action \in Actions,
           NEW m \in BOOLEAN
    PROVE  LET i == Onboarding(c, n, action, m)
           IN  /\ i \in Intent /\ i.intent = "ONBOARDING_REVIEW"
               /\ i.employee = c /\ i.threshold = n /\ i.action = action
               /\ i.missing = m /\ i.start = NoDay /\ i.end = NoDay
BY DEF Onboarding, Intent, Actions

(* The employee, the dates and the terms of an answer, once it is checked. *)
LEMMA Enforced ==
    ASSUME NEW q \in Query, NEW answer \in ModelAnswers
    PROVE  LET i == enforceIntentConsistency(q, answer)
           IN  /\ i \in Intent
               /\ \/ i = Unsupported
                  \/ /\ i.intent = "LEAVE_REQUEST"
                     /\ i.employee \in q.codes \cup {NoEmployee}
                     /\ {i.start, i.end} \subseteq DatesIn(q) \cup {NoDay}
                  \/ /\ i.intent = "ONBOARDING_REVIEW"
                     /\ i.employee \in q.codes \cup {NoEmployee}
                     /\ i.start = NoDay /\ i.end = NoDay
                     /\ i.threshold = resolveThresholdDays(q)
                     /\ i.action = "NOTIFY_MANAGER" => asksNotification(q)
                     /\ i.employee = NoEmployee /\ ~i.missing => q.self
<1> DEFINE code == IF answer.employee \in q.codes THEN answer.employee ELSE NoEmployee
           Stated(d) == IF d \in DatesIn(q) THEN d ELSE NoDay
<1>1. /\ q.codes \subseteq Codes /\ q.self \in BOOLEAN
      /\ DatesIn(q) \subseteq Dates
      /\ Len(q.dates) = 2 => q.dates[1] \in DatesIn(q) /\ q.dates[2] \in DatesIn(q)
  BY DEF Query, DatesIn
<1>2. /\ code \in q.codes \cup {NoEmployee} /\ code \in Codes \cup {NoEmployee}
      /\ \A d : Stated(d) \in DatesIn(q) \cup {NoDay} /\ Stated(d) \in Dates \cup {NoDay}
  BY <1>1
<1>3. CASE answer.intent = "UNSUPPORTED"
  <2>1. answer = Unsupported
    <3>1. \A c \in Codes \cup {NoEmployee}, first \in Dates \cup {NoDay},
             last \in Dates \cup {NoDay} : Leave(c, first, last).intent = "LEAVE_REQUEST"
      BY DEF Leave
    <3>2. \A c \in Codes \cup {NoEmployee}, n \in {1, 365}, action \in Actions,
             m \in BOOLEAN : Onboarding(c, n, action, m).intent = "ONBOARDING_REVIEW"
      BY DEF Onboarding
    <3> QED
      BY <1>3, <3>1, <3>2, AnswerShapes
  <2>2. CASE q.asksLeave /\ Len(q.dates) = 2 /\ q.codes = {}
    <3>1. enforceIntentConsistency(q, answer) = Leave(NoEmployee, q.dates[1], q.dates[2])
      BY <1>3, <2>2 DEF enforceIntentConsistency
    <3> QED
      BY <1>1, <2>2, <3>1, LeaveFields
  <2>3. CASE ~(q.asksLeave /\ Len(q.dates) = 2 /\ q.codes = {})
    <3>1. enforceIntentConsistency(q, answer) = answer
      BY <1>3, <2>3 DEF enforceIntentConsistency
    <3> QED
      BY <2>1, <3>1, ConstantIntents
  <2> QED
    BY <2>2, <2>3
<1>4. CASE answer.intent = "LEAVE_REQUEST"
  <2> DEFINE first == Stated(answer.start)
             last == Stated(answer.end)
  <2>1. enforceIntentConsistency(q, answer)
            = Leave(code, first, last)
    BY <1>4 DEF enforceIntentConsistency
  <2>2. /\ {first, last} \subseteq DatesIn(q) \cup {NoDay}
        /\ first \in Dates \cup {NoDay} /\ last \in Dates \cup {NoDay}
    BY <1>2
  <2> HIDE DEF code, first, last
  <2> QED
    BY <1>2, <2>1, <2>2, LeaveFields
<1>5. CASE answer.intent = "ONBOARDING_REVIEW"
  <2> DEFINE action == IF asksNotification(q) THEN answer.action ELSE "REVIEW_ONLY"
             missing == code = NoEmployee /\ ~q.self
  <2>1. enforceIntentConsistency(q, answer)
            = Onboarding(code, resolveThresholdDays(q), action, missing)
    BY <1>5 DEF enforceIntentConsistency
  <2>2. answer.action \in Actions
    <3>1. \A c \in Codes \cup {NoEmployee}, first \in Dates \cup {NoDay},
             last \in Dates \cup {NoDay} : Leave(c, first, last).intent = "LEAVE_REQUEST"
      BY DEF Leave
    <3>2. PICK c \in Codes \cup {NoEmployee}, n \in {1, 365}, a \in Actions, m \in BOOLEAN :
            answer = Onboarding(c, n, a, m)
      BY <1>5, <3>1, AnswerShapes, ConstantIntents
    <3> QED
      BY <3>2 DEF Onboarding
  <2>3. action \in Actions /\ (action = "NOTIFY_MANAGER" => asksNotification(q))
    BY <2>2 DEF Actions
  <2>4. missing \in BOOLEAN /\ (code = NoEmployee /\ ~missing => q.self)
    BY <1>1
  <2> HIDE DEF code, action, missing
  <2> QED
    BY <1>2, <2>1, <2>3, <2>4, OnboardingFields, ThresholdType
<1> QED
  <2>1. answer.intent \in {"UNSUPPORTED", "LEAVE_REQUEST", "ONBOARDING_REVIEW"}
    BY AnswerShapes, ConstantIntents DEF Leave, Onboarding
  <2> QED
    BY <1>3, <1>4, <1>5, <2>1

(* The intent of a query, with what an earlier one has left open: it keeps *)
(* to what the two texts say.                                              *)
LEMMA Normalized ==
    ASSUME NEW q \in Query, q.bareCode => q.codes # {}, NEW answer \in ModelAnswers,
           NEW pending \in Intent, NEW origin, PendingOf(pending, origin),
           NEW actor \in Employees
    PROVE  LET i == NormalizedIntent(q, answer, pending, actor)
           IN  /\ i \in Intent
               /\ i.employee \in q.codes \cup {NoEmployee} \/ (i.employee = actor /\ q.self)
               /\ {i.start, i.end} \subseteq DatesIn(q) \cup {NoDay}
               /\ i.intent = "ONBOARDING_REVIEW" =>
                    \E p \in {q} \cup (IF q.bareCode THEN {origin} ELSE {}) :
                        /\ i.threshold = resolveThresholdDays(p)
                        /\ i.action = "NOTIFY_MANAGER" => asksNotification(p)
               /\ pendingState(i) \in Intent
               /\ PendingOf(pendingState(i), q)
<1> DEFINE first == enforceIntentConsistency(q, answer)
           second == continueNormalizedIntent(q, first, pending)
           third == resolveAuthenticatedSelfTarget(second, actor)
           chosen == CHOOSE c \in q.codes : TRUE
           Texts == {q} \cup (IF q.bareCode THEN {origin} ELSE {})
           Fits(i) == i.intent = "ONBOARDING_REVIEW" =>
                /\ i.start = NoDay /\ i.end = NoDay
                /\ \E p \in Texts :
                    /\ i.threshold = resolveThresholdDays(p)
                    /\ i.action = "NOTIFY_MANAGER" => asksNotification(p)
                /\ i.employee = NoEmployee =>
                    /\ ~i.missing => q.self
                    /\ i.threshold = resolveThresholdDays(q)
                    /\ i.action = "NOTIFY_MANAGER" => asksNotification(q)
<1>1. /\ first \in Intent /\ Fits(first)
      /\ first.employee \in q.codes \cup {NoEmployee}
      /\ {first.start, first.end} \subseteq DatesIn(q) \cup {NoDay}
  <2>1. q \in Texts
    OBVIOUS
  <2> HIDE DEF first, Texts
  <2>2. /\ first \in Intent
        /\ \/ first = Unsupported
           \/ /\ first.intent = "LEAVE_REQUEST"
              /\ first.employee \in q.codes \cup {NoEmployee}
              /\ {first.start, first.end} \subseteq DatesIn(q) \cup {NoDay}
           \/ /\ first.intent = "ONBOARDING_REVIEW"
              /\ first.employee \in q.codes \cup {NoEmployee}
              /\ first.start = NoDay /\ first.end = NoDay
              /\ first.threshold = resolveThresholdDays(q)
              /\ first.action = "NOTIFY_MANAGER" => asksNotification(q)
              /\ first.employee = NoEmployee /\ ~first.missing => q.self
    BY Enforced DEF first
  <2> QED
    BY <2>1, <2>2, ConstantIntents
<1>2. /\ second \in Intent /\ Fits(second)
      /\ second.employee \in q.codes \cup {NoEmployee}
      /\ {second.start, second.end} \subseteq DatesIn(q) \cup {NoDay}
  <2>1. CASE pending.intent = "ONBOARDING_REVIEW" /\ first.intent = "UNSUPPORTED" /\ q.bareCode
    <3>1. second = [pending EXCEPT !.employee = chosen, !.missing = FALSE]
      BY <2>1 DEF continueNormalizedIntent
    <3>2. chosen \in q.codes /\ chosen \in Codes /\ chosen # NoEmployee
      BY <2>1, RulesAssumption DEF Query
    <3>3. /\ pending.start = NoDay /\ pending.end = NoDay
          /\ pending.threshold = resolveThresholdDays(origin)
          /\ pending.action = "NOTIFY_MANAGER" => asksNotification(origin)
      BY <2>1, ConstantIntents DEF PendingOf
    <3> HIDE DEF first, second, chosen
    <3>4. /\ second \in Intent /\ second.employee = chosen /\ second.intent = pending.intent
          /\ second.start = pending.start /\ second.end = pending.end
          /\ second.threshold = pending.threshold /\ second.action = pending.action
      BY <3>1, <3>2 DEF Intent
    <3>5. origin \in Texts
      BY <2>1
    <3> QED
      BY <3>2, <3>3, <3>4, <3>5
  <2>2. CASE ~(pending.intent = "ONBOARDING_REVIEW" /\ first.intent = "UNSUPPORTED"
               /\ q.bareCode)
    <3>1. second = first
      BY <2>2 DEF continueNormalizedIntent
    <3> QED
      BY <1>1, <3>1
  <2> QED
    BY <2>1, <2>2
<1>3. /\ third \in Intent /\ Fits(third)
      /\ third.employee \in q.codes \cup {NoEmployee} \/ (third.employee = actor /\ q.self)
      /\ {third.start, third.end} \subseteq DatesIn(q) \cup {NoDay}
  <2>1. CASE second.intent = "ONBOARDING_REVIEW" /\ second.employee = NoEmployee
             /\ ~second.missing
    <3>1. third = [second EXCEPT !.employee = actor]
      BY <2>1 DEF resolveAuthenticatedSelfTarget
    <3>2. actor \in Codes /\ actor # NoEmployee
      BY RulesAssumption DEF Codes
    <3> HIDE DEF second, third
    <3>3. /\ third \in Intent /\ third.employee = actor /\ third.intent = second.intent
          /\ third.start = second.start /\ third.end = second.end
          /\ third.threshold = second.threshold /\ third.action = second.action
      BY <1>2, <3>1, <3>2 DEF Intent
    <3> HIDE DEF Texts
    <3> QED
      BY <1>2, <2>1, <3>2, <3>3
  <2>2. CASE ~(second.intent = "ONBOARDING_REVIEW" /\ second.employee = NoEmployee
               /\ ~second.missing)
    <3>1. third = second
      BY <2>2 DEF resolveAuthenticatedSelfTarget
    <3> QED
      BY <1>2, <3>1
  <2> QED
    BY <2>1, <2>2
<1>4. NormalizedIntent(q, answer, pending, actor) = third
  BY DEF NormalizedIntent
<1> HIDE DEF first, second, third, Texts
<1>5. pendingState(third) \in Intent /\ PendingOf(pendingState(third), q)
  <2>1. CASE third.intent = "ONBOARDING_REVIEW" /\ third.employee = NoEmployee
    <3>1. pendingState(third) = third
      BY <2>1 DEF pendingState
    <3> QED
      BY <1>3, <2>1, <3>1 DEF PendingOf
  <2>2. CASE ~(third.intent = "ONBOARDING_REVIEW" /\ third.employee = NoEmployee)
    <3>1. pendingState(third) = Unsupported
      BY <2>2 DEF pendingState
    <3> QED
      BY <3>1, ConstantIntents DEF PendingOf
  <2> QED
    BY <2>1, <2>2
<1> QED
  BY <1>3, <1>4, <1>5 DEF Texts

-----------------------------------------------------------------------------
(* The shapes of a call.                                                   *)

(* Two states of a call that differ in place, outcome and records only.    *)
SameTurn(c, d) ==
    /\ d.actor = c.actor /\ d.decision = c.decision /\ d.query = c.query
    /\ d.intent = c.intent /\ d.pending = c.pending /\ d.origin = c.origin
    /\ d.behind = c.behind /\ d.review = c.review /\ d.terms = c.terms
    /\ d.proposal = c.proposal /\ d.notified = c.notified /\ d.seen = c.seen

LEMMA IdleShape == Idle \in Calls /\ Idle.tools = NothingRead
<1>1. EmptyQuery \in Query /\ FirstDay \in Nat
  BY ConversationAssumption
<1>2. NothingRead \in [Tools -> Reading]
  BY DEF NothingRead, Reading
<1>3. NoTerms \in Terms
  BY DEF NoTerms, Terms, Policy
<1> HIDE DEF NothingRead, NoTerms
<1> QED
  BY <1>1, <1>2, <1>3, ConstantIntents DEF Idle, Calls, PCs, Outcomes, Decisions

LEMMA GoShape ==
    ASSUME NEW c \in Calls, NEW node \in Nodes
    PROVE  LET d == Go(c, node)
           IN  /\ d \in Calls /\ SameTurn(c, d) /\ d.pc = node /\ d.tools = c.tools
               /\ d.trail = c.trail \cup {node}
               /\ d.outcome = c.outcome /\ d.audited = c.audited
<1>1. c.trail \cup {node} \in SUBSET Nodes /\ node \in PCs
  BY DEF Calls, PCs
<1> QED
  BY <1>1 DEF Go, Calls, SameTurn

LEMMA RespondShape ==
    ASSUME NEW c \in Calls, NEW o \in Outcomes
    PROVE  LET d == Respond(c, o)
           IN  /\ d \in Calls /\ SameTurn(c, d) /\ d.pc = "response_audit"
               /\ d.trail = c.trail \cup {"response_audit"} /\ d.tools = c.tools
               /\ d.outcome = o /\ d.audited = c.audited
<1> DEFINE e == Go(c, "response_audit")
<1>1. /\ e \in Calls /\ SameTurn(c, e) /\ e.pc = "response_audit" /\ e.tools = c.tools
      /\ e.trail = c.trail \cup {"response_audit"} /\ e.audited = c.audited
  BY GoShape DEF Nodes
<1>2. Respond(c, o) = [e EXCEPT !.outcome = o]
  BY DEF Respond
<1> HIDE DEF e
<1> QED
  BY <1>1, <1>2 DEF Calls, SameTurn

LEMMA UnloadedShape ==
    ASSUME NEW c \in Calls, NEW o \in Outcomes
    PROVE  LET d == Unloaded(c, o)
           IN  /\ d \in Calls /\ SameTurn(c, d) /\ d.pc = "response_audit"
               /\ d.trail = c.trail \cup {"response_audit"} /\ d.tools = NothingRead
               /\ d.outcome = o
<1> DEFINE e == Respond(c, o)
<1>1. /\ e \in Calls /\ SameTurn(c, e) /\ e.pc = "response_audit"
      /\ e.trail = c.trail \cup {"response_audit"} /\ e.outcome = o
  BY RespondShape
<1>2. NothingRead \in [Tools -> Reading]
  BY DEF NothingRead, Reading
<1>3. Unloaded(c, o) = [e EXCEPT !.tools = NothingRead]
  BY DEF Unloaded
<1> HIDE DEF e, NothingRead
<1> QED
  BY <1>1, <1>2, <1>3 DEF Calls, SameTurn

LEMMA AnswerShape ==
    ASSUME NEW c \in Calls, NEW o \in Outcomes
    PROVE  LET d == Answer(c, o)
           IN  /\ d \in Calls /\ SameTurn(c, d) /\ d.pc = "answered"
               /\ d.trail = c.trail /\ d.outcome = o
<1>1. "answered" \in PCs
  BY DEF PCs
<1> QED
  BY <1>1 DEF Answer, Calls, SameTurn

LEMMA AuditedShape ==
    ASSUME NEW c \in Calls, NEW o \in Outcomes
    PROVE  LET d == [Answer(c, o) EXCEPT !.audited = TRUE]
           IN  /\ d \in Calls /\ SameTurn(c, d) /\ d.pc = "answered"
               /\ d.trail = c.trail /\ d.outcome = o /\ d.audited = TRUE
<1> DEFINE plain == Answer(c, o)
<1>1. /\ plain \in Calls /\ SameTurn(c, plain) /\ plain.pc = "answered"
      /\ plain.trail = c.trail /\ plain.outcome = o
  BY AnswerShape
<1> HIDE DEF plain
<1>2. LET d == [plain EXCEPT !.audited = TRUE]
      IN  /\ d \in Calls /\ SameTurn(c, d) /\ d.pc = "answered"
          /\ d.trail = c.trail /\ d.outcome = o /\ d.audited = TRUE
  BY <1>1 DEF Calls, SameTurn
<1> QED
  BY <1>2 DEF plain

-----------------------------------------------------------------------------
(* The invariant of a call, in the steps that several actions share.       *)

(* Two states of a call that asks for the same, of the same employee.      *)
SameMatter(c, d) ==
    /\ d.actor = c.actor /\ d.decision = c.decision /\ d.query = c.query
    /\ d.intent = c.intent /\ d.pending = c.pending /\ d.origin = c.origin
    /\ d.behind = c.behind /\ d.seen = c.seen

(* A call that has read nothing for a leave request.                       *)
LEMMA NothingLoaded ==
    ASSUME NEW c, c.tools = NothingRead
    PROVE  Loads(c)
BY DEF Loads, ToolRead, NothingRead

LEMMA NotLoading ==
    ASSUME NEW c, c.pc \notin LoadingAt, c.pc = "answered" \/ c.tools = NothingRead
    PROVE  Loads(c)
BY DEF Loads, Loading, LoadingAt

(* A call that goes on to another node, with what it has found.            *)
LEMMA Proceeds ==
    ASSUME NEW c \in Calls, NEW k \in Checkpoints, NEW a, NEW r, NEW s,
           CallInv(c, k, a, r, s), c.pc \in AtWork, c.outcome = "NONE",
           NEW d \in Calls, SameMatter(c, d), d.outcome = "NONE",
           d.pc \in AtWork, d.pc # "request_guard",
           d.pc = "intent_normalization" => c.pc = "request_guard",
           Onboards(d), Loads(d), Decides(d, k, r), Notifies(d)
    PROVE  CallInv(d, k, a, r, s)
<1>1. Entered(d, k) /\ Owned(d, k, a) /\ Recorded(d, a)
  BY DEF CallInv, Entered, Owned, Recorded, SameMatter, Nodes, Running, AtWork
<1>2. Named(d) /\ Asked(d) /\ DecisionTrue(d, r)
  BY DEF CallInv, Named, Asked, DecisionTrue, Behind, SameMatter
<1>3. s \in d.seen
  BY DEF CallInv, SameMatter, Nodes, AtWork
<1> QED
  BY <1>1, <1>2, <1>3 DEF CallInv

(* The same without a finding.                                             *)
LEMMA Moves ==
    ASSUME NEW c \in Calls, NEW k \in Checkpoints, NEW a, NEW r, NEW s,
           CallInv(c, k, a, r, s), c.pc \in AtWork \ LoadingAt, c.outcome = "NONE",
           NEW node \in Nodes, node # "request_guard",
           node = "intent_normalization" => c.pc = "request_guard",
           Onboards(Go(c, node)), Decides(Go(c, node), k, r)
    PROVE  Go(c, node) \in Calls /\ CallInv(Go(c, node), k, a, r, s)
<1> DEFINE d == Go(c, node)
<1>1. /\ d \in Calls /\ SameTurn(c, d) /\ d.pc = node /\ d.outcome = c.outcome
      /\ d.tools = c.tools
  BY GoShape
<1>2. Onboards(d) /\ Decides(d, k, r)
  OBVIOUS
<1> HIDE DEF d
<1>3. SameMatter(c, d)
  BY <1>1 DEF SameTurn, SameMatter
<1>4. Notifies(d)
  BY <1>1 DEF CallInv, Notifies, Behind, SameTurn
<1>5. Loads(d)
  <2>1. c.tools = NothingRead
    BY DEF CallInv, Loads, AtWork, Nodes
  <2> QED
    BY <1>1, <2>1, NothingLoaded
<1>6. d.pc \in AtWork
  BY <1>1 DEF AtWork
<1>7. CallInv(d, k, a, r, s)
  BY <1>1, <1>2, <1>3, <1>4, <1>5, <1>6, Proceeds
<1> QED
  BY <1>1, <1>7 DEF d

(* A node that ends the work with a response.                              *)
LEMMA EndsWork ==
    ASSUME NEW c \in Calls, NEW k \in Checkpoints, NEW a, NEW r, NEW s,
           CallInv(c, k, a, r, s), c.pc \in AtWork,
           NEW d \in Calls, SameTurn(c, d), d.pc = "response_audit",
           d.trail = c.trail \cup {"response_audit"}, d.tools = NothingRead,
           d.outcome # "NONE", NEW new, DecisionTrue(d, new)
    PROVE  CallInv(d, k, a, new, s)
<1>1. Entered(d, k) /\ Owned(d, k, a) /\ Recorded(d, a)
  BY DEF CallInv, Entered, Owned, Recorded, SameTurn, Nodes, Running, AtWork
<1>2. Named(d) /\ Asked(d) /\ Notifies(d)
  BY DEF CallInv, Named, Asked, Notifies, Behind, SameTurn
<1>3. Onboards(d) /\ Decides(d, k, new)
  BY DEF CallInv, Onboards, Decides, SameTurn
<1>4. s \in d.seen
  BY DEF CallInv, SameTurn, Nodes, AtWork
<1> QED
  BY <1>1, <1>2, <1>3, <1>4, NothingLoaded DEF CallInv

LEMMA Responds ==
    ASSUME NEW c \in Calls, NEW k \in Checkpoints, NEW a, NEW r, NEW s,
           CallInv(c, k, a, r, s), c.pc \in AtWork \ LoadingAt,
           NEW o \in Outcomes \ {"NONE"}, NEW new, DecisionTrue(Respond(c, o), new)
    PROVE  Respond(c, o) \in Calls /\ CallInv(Respond(c, o), k, a, new, s)
<1> DEFINE d == Respond(c, o)
<1>1. /\ d \in Calls /\ SameTurn(c, d) /\ d.pc = "response_audit"
      /\ d.trail = c.trail \cup {"response_audit"} /\ d.outcome = o /\ d.tools = c.tools
  BY RespondShape
<1>2. DecisionTrue(d, new)
  OBVIOUS
<1>3. c.tools = NothingRead
  BY DEF CallInv, Loads, AtWork, Nodes
<1> HIDE DEF d
<1>4. CallInv(d, k, a, new, s)
  BY <1>1, <1>2, <1>3, EndsWork
<1> QED
  BY <1>1, <1>4 DEF d

(* Outcomes that say nothing about a decision.                             *)
Plain == Outcomes \ {"NONE", "SUBMITTED", "LEAVE_REQUEST_REJECTED",
                     "LEAVE_PROPOSAL_CHANGED", "ALREADY_SUBMITTED"}

LEMMA RespondsPlainly ==
    ASSUME NEW c \in Calls, NEW k \in Checkpoints, NEW a, NEW r, NEW s,
           CallInv(c, k, a, r, s), c.pc \in AtWork \ LoadingAt, NEW o \in Plain
    PROVE  Respond(c, o) \in Calls /\ CallInv(Respond(c, o), k, a, r, s)
<1>1. Respond(c, o).outcome = o /\ o \in Outcomes \ {"NONE"}
  BY RespondShape DEF Plain
<1>2. DecisionTrue(Respond(c, o), r)
  BY <1>1 DEF DecisionTrue, Plain
<1> QED
  BY <1>1, <1>2, Responds

LEMMA UnloadsPlainly ==
    ASSUME NEW c \in Calls, NEW k \in Checkpoints, NEW a, NEW r, NEW s,
           CallInv(c, k, a, r, s), c.pc \in LoadingAt, NEW o \in Plain
    PROVE  Unloaded(c, o) \in Calls /\ CallInv(Unloaded(c, o), k, a, r, s)
<1> DEFINE d == Unloaded(c, o)
<1>1. o \in Outcomes /\ o # "NONE" /\ c.pc \in AtWork
  BY DEF Plain, LoadingAt, AtWork, Nodes
<1>2. /\ d \in Calls /\ SameTurn(c, d) /\ d.pc = "response_audit"
      /\ d.trail = c.trail \cup {"response_audit"} /\ d.tools = NothingRead
      /\ d.outcome = o
  BY <1>1, UnloadedShape
<1> HIDE DEF d
<1>3. DecisionTrue(d, r)
  BY <1>2 DEF DecisionTrue, Plain
<1>4. CallInv(d, k, a, r, s)
  BY <1>1, <1>2, <1>3, EndsWork
<1> QED
  BY <1>2, <1>4 DEF d

(* A call that is answered.                                                *)
LEMMA Answers ==
    ASSUME NEW c \in Calls, NEW k \in Checkpoints, NEW a, NEW r, NEW s,
           CallInv(c, k, a, r, s), c.pc \in Running \cup {"identity"},
           NEW d \in Calls, SameTurn(c, d), d.pc = "answered", d.trail = c.trail,
           d.outcome # "NONE", DecisionTrue(d, r), NEW b,
           d.outcome \notin {"INTERNAL_ERROR", "AUTHENTICATION_REQUIRED"} =>
                d.audited /\ b # NoEmployee
    PROVE  CallInv(d, k, b, r, s)
<1>1. Entered(d, k) /\ Owned(d, k, b) /\ Recorded(d, b)
  BY DEF CallInv, Entered, Owned, Recorded, SameTurn, Nodes, Running
<1>2. Named(d) /\ Asked(d) /\ Notifies(d)
  BY DEF CallInv, Named, Asked, Notifies, Behind, SameTurn
<1>3. Onboards(d) /\ Decides(d, k, r)
  <2>1. "leave_approval" \in d.trail => d.proposal # NoProposal
    BY DEF CallInv, Decides, SameTurn
  <2> QED
    BY <2>1 DEF CallInv, Onboards, Decides, SameTurn
<1>4. Loads(d)
  BY NotLoading DEF LoadingAt
<1> QED
  BY <1>1, <1>2, <1>3, <1>4 DEF CallInv

(* A call that has not begun.                                              *)
LEMMA Rests ==
    ASSUME NEW k \in Checkpoints, NEW a, NEW r, NEW s, Kept(k)
    PROVE  CallInv(Idle, k, a, r, s)
<1>1. /\ Idle.pc = "idle" /\ Idle.intent = NoIntent /\ Idle.notified = NoEmployee
      /\ Idle.outcome = "NONE" /\ Idle.decision = "NONE" /\ Idle.pending = Unsupported
      /\ Idle.proposal = NoProposal /\ Idle.trail = {} /\ Idle.query = EmptyQuery
  BY DEF Idle
<1>2. Entered(Idle, k) /\ Owned(Idle, k, a) /\ Recorded(Idle, a)
  BY <1>1 DEF Entered, Owned, Recorded, Running, Nodes, PendingOf
<1>3. Named(Idle) /\ Asked(Idle) /\ Notifies(Idle)
  BY <1>1 DEF Named, Asked, Notifies
<1>4. Onboards(Idle) /\ Decides(Idle, k, r) /\ DecisionTrue(Idle, r)
  BY <1>1 DEF Onboards, Decides, DecisionTrue, Counted
<1>5. Loads(Idle)
  BY IdleShape, NothingLoaded
<1> QED
  BY <1>1, <1>2, <1>3, <1>4, <1>5 DEF CallInv

(* The world changes around a call.                                        *)
LEMMA Witnesses ==
    ASSUME NEW c \in Calls, NEW k \in Checkpoints, NEW a, NEW r, NEW s,
           CallInv(c, k, a, r, s), c.pc \notin {"idle", "answered"},
           NEW new \in Snapshot
    PROVE  LET d == [c EXCEPT !.seen = @ \cup {new}]
           IN  d \in Calls /\ CallInv(d, k, a, r, new)
<1> DEFINE d == [c EXCEPT !.seen = @ \cup {new}]
<1>1. /\ d \in Calls /\ d.pc = c.pc /\ d.trail = c.trail /\ d.outcome = c.outcome
      /\ d.audited = c.audited /\ d.seen = c.seen \cup {new}
      /\ d.actor = c.actor /\ d.decision = c.decision /\ d.query = c.query
      /\ d.intent = c.intent /\ d.pending = c.pending /\ d.origin = c.origin
      /\ d.behind = c.behind /\ d.review = c.review /\ d.terms = c.terms
      /\ d.proposal = c.proposal /\ d.notified = c.notified
      /\ d.actorRow = c.actorRow /\ d.day = c.day /\ d.tools = c.tools
  BY DEF Calls
<1> HIDE DEF d
<1>2. Entered(d, k) /\ Owned(d, k, a) /\ Recorded(d, a)
  BY <1>1 DEF CallInv, Entered, Owned, Recorded
<1>3. Named(d) /\ Asked(d)
  BY <1>1 DEF CallInv, Named, Asked, Behind
<1>4. Notifies(d)
  <2>1. Behind(d) = Behind(c)
    BY <1>1 DEF Behind
  <2> QED
    BY <1>1, <2>1 DEF CallInv, Notifies
<1>5. Onboards(d)
  BY <1>1 DEF CallInv, Onboards
<1>6. /\ \A e : MayRequest(c, e) => MayRequest(d, e)
      /\ PolicyRead(c) => PolicyRead(d)
      /\ \A e, first : BalanceRead(c, e, first) => BalanceRead(d, e, first)
  BY <1>1 DEF MayRequest, PolicyRead, BalanceRead
<1>7. Target(d) = Target(c)
  BY <1>1 DEF Target
<1>8. Decides(d, k, r)
  BY <1>1, <1>6, <1>7 DEF CallInv, Decides
<1>9. Loads(d)
  <2>1. LeaveOf(d) = LeaveOf(c) /\ StartOf(d) = StartOf(c) /\ (Loading(d) <=> Loading(c))
    BY <1>1, <1>7 DEF LeaveOf, StartOf, Loading
  <2>2. ASSUME NEW x \in Tools, ToolRead(c, x) PROVE ToolRead(d, x)
    BY <1>1, <1>6, <2>1, <2>2 DEF ToolRead
  <2> QED
    BY <1>1, <2>1, <2>2 DEF CallInv, Loads
<1>10. DecisionTrue(d, r)
  BY <1>1, <1>6 DEF CallInv, DecisionTrue
<1> QED
  BY <1>1, <1>2, <1>3, <1>4, <1>5, <1>8, <1>9, <1>10 DEF CallInv, d

-----------------------------------------------------------------------------
(* The invariant of the system, when one call takes a step.                *)

IInv == TypeOK /\ ConversationInv

LEMMA OfThread ==
    ASSUME IInv, NEW t \in Threads
    PROVE  /\ call[t] \in Calls /\ checkpoint[t] \in Checkpoints
           /\ auditOwner[t] \in Employees \cup {NoEmployee} /\ request[t] \in Requests
           /\ CallInv(call[t], checkpoint[t], auditOwner[t], request[t], Now)
           /\ Now \in Snapshot
BY DEF IInv, TypeOK, ConversationInv, Now, Snapshot

LEMMA OnThread ==
    ASSUME IInv, NEW t \in Threads, NEW d \in Calls, NEW k \in Checkpoints,
           NEW a \in Employees \cup {NoEmployee}, NEW r \in Requests,
           call' = [call EXCEPT ![t] = d], checkpoint' = [checkpoint EXCEPT ![t] = k],
           auditOwner' = [auditOwner EXCEPT ![t] = a], request' = [request EXCEPT ![t] = r],
           tables' = tables, today' = today, changes' \in Nat, calls' \in Nat,
           CallInv(d, k, a, r, Now)
    PROVE  IInv'
<1>1. Now' = Now
  BY DEF Now
<1>2. ConversationInv'
  <2> SUFFICES ASSUME NEW u \in Threads
               PROVE  CallInv(call'[u], checkpoint'[u], auditOwner'[u], request'[u], Now)
    BY <1>1 DEF ConversationInv
  <2> QED
    BY DEF IInv, TypeOK, ConversationInv
<1>3. TypeOK'
  <2>1. \A u \in Threads : call'[u].pc \in {"finish", "answered"} => call'[u].outcome # "NONE"
    BY DEF IInv, TypeOK, CallInv, Recorded
  <2> QED
    BY <2>1 DEF IInv, TypeOK
<1> QED
  BY <1>2, <1>3 DEF IInv

LEMMA OnCall ==
    ASSUME IInv, NEW t \in Threads, NEW d \in Calls, Become(t, d),
           UNCHANGED <<tables, today, checkpoint, auditOwner, request>>,
           changes' \in Nat, calls' \in Nat,
           CallInv(d, checkpoint[t], auditOwner[t], request[t], Now)
    PROVE  IInv'
<1>1. /\ checkpoint' = [checkpoint EXCEPT ![t] = checkpoint[t]]
      /\ auditOwner' = [auditOwner EXCEPT ![t] = auditOwner[t]]
      /\ request' = [request EXCEPT ![t] = request[t]]
  BY DEF IInv, TypeOK
<1>2. call' = [call EXCEPT ![t] = d]
  BY DEF Become
<1> QED
  BY <1>1, <1>2, OfThread, OnThread

LEMMA Counters ==
    ASSUME IInv PROVE changes \in Nat /\ calls \in Nat
BY DEF IInv, TypeOK

-----------------------------------------------------------------------------
(* From the call to the graph.                                             *)

(* A call before and in the graph has no outcome yet.                      *)
LEMMA Unsettled ==
    ASSUME IInv, NEW t \in Threads, call[t].pc \notin {"response_audit", "finish", "answered"}
    PROVE  call[t].outcome = "NONE"
BY OfThread DEF CallInv, Recorded

LEMMA Throws ==
    ASSUME IInv, NEW t \in Threads, call[t].pc \in Running \cup {"identity"}, Throw(t),
           UNCHANGED <<world, calls>>
    PROVE  IInv'
<1> DEFINE d == Answer(call[t], "INTERNAL_ERROR")
<1>1. /\ d \in Calls /\ SameTurn(call[t], d) /\ d.pc = "answered"
      /\ d.trail = call[t].trail /\ d.outcome = "INTERNAL_ERROR"
  BY OfThread, AnswerShape DEF Outcomes
<1>2. Become(t, d) /\ UNCHANGED <<checkpoint, auditOwner, request>>
  BY DEF Throw
<1> HIDE DEF d
<1>3. DecisionTrue(d, request[t])
  BY <1>1 DEF DecisionTrue
<1>4. CallInv(d, checkpoint[t], auditOwner[t], request[t], Now)
  BY <1>1, <1>3, OfThread, Answers
<1> QED
  BY <1>1, <1>2, <1>4, OnCall, Counters DEF world

LEMMA Records ==
    ASSUME IInv, NEW t \in Threads, call[t].pc \in Running \cup {"identity"},
           call[t].actor \in Employees, NEW o \in Outcomes \ {"NONE"}, RecordAndAnswer(t, o),
           \A d : SameTurn(call[t], d) /\ d.outcome = o => DecisionTrue(d, request[t]),
           UNCHANGED <<world, calls>>
    PROVE  IInv'
<1>1. CASE RecordRun(t) /\ Become(t, [Answer(call[t], o) EXCEPT !.audited = TRUE])
  <2> DEFINE d == [Answer(call[t], o) EXCEPT !.audited = TRUE]
             b == IF auditOwner[t] = NoEmployee THEN call[t].actor ELSE auditOwner[t]
  <2>1. /\ d \in Calls /\ SameTurn(call[t], d) /\ d.pc = "answered"
        /\ d.trail = call[t].trail /\ d.outcome = o /\ d.audited = TRUE
    BY OfThread, AuditedShape
  <2>2. /\ call' = [call EXCEPT ![t] = d]
        /\ checkpoint' = [checkpoint EXCEPT ![t] = checkpoint[t]]
        /\ auditOwner' = [auditOwner EXCEPT ![t] = b]
        /\ request' = [request EXCEPT ![t] = request[t]]
    BY <1>1 DEF RecordAndAnswer, RecordRun, Become, IInv, TypeOK
  <2>3. b \in Employees \cup {NoEmployee} /\ b # NoEmployee
    BY OfThread, RulesAssumption DEF Codes
  <2> HIDE DEF d, b
  <2>4. DecisionTrue(d, request[t])
    BY <2>1
  <2>5. CallInv(d, checkpoint[t], b, request[t], Now)
    BY <2>1, <2>3, <2>4, OfThread, Answers
  <2> QED
    BY <2>1, <2>2, <2>3, <2>5, OfThread, OnThread, Counters DEF world
<1>2. CASE Become(t, Answer(call[t], "INTERNAL_ERROR")) /\ UNCHANGED auditOwner
  <2>1. Throw(t)
    BY <1>2 DEF RecordAndAnswer, Throw
  <2> QED
    BY <2>1, Throws
<1> QED
  BY <1>1, <1>2 DEF RecordAndAnswer

LEMMA AskStep ==
    ASSUME IInv, NEW t \in Threads, NEW actor \in Codes, NEW decision \in Decisions,
           NEW query \in Queries \cup {EmptyQuery},
           decision # "NONE" => query = EmptyQuery, Ask(t, actor, decision, query)
    PROVE  IInv'
<1> DEFINE k == checkpoint[t]
           d == [Idle EXCEPT !.pc = "identity", !.actor = actor, !.decision = decision,
                             !.query = query, !.pending = k.pending, !.origin = k.origin,
                             !.behind = k.origin, !.seen = {Now}]
<1>1. k \in Checkpoints /\ Kept(k) /\ Now \in Snapshot
  BY OfThread DEF CallInv
<1>2. query \in Query
  BY ConversationAssumption
<1>3. k.pending \in Intent /\ k.origin \in Query /\ PendingOf(k.pending, k.origin)
  BY <1>1 DEF Checkpoints, Kept
<1>4. /\ d \in Calls /\ d.pc = "identity" /\ d.actor = actor /\ d.decision = decision
      /\ d.query = query /\ d.pending = k.pending /\ d.origin = k.origin
      /\ d.behind = k.origin /\ d.seen = {Now}
      /\ d.intent = NoIntent /\ d.review = "NONE" /\ d.proposal = NoProposal
      /\ d.notified = NoEmployee /\ d.outcome = "NONE" /\ d.trail = {}
      /\ d.tools = NothingRead
  <2> HIDE DEF k
  <2>1. "identity" \in PCs
    BY DEF PCs
  <2>2. /\ Idle.intent = NoIntent /\ Idle.review = "NONE" /\ Idle.proposal = NoProposal
        /\ Idle.notified = NoEmployee /\ Idle.outcome = "NONE" /\ Idle.trail = {}
    BY DEF Idle
  <2> QED
    BY <1>1, <1>2, <1>3, <2>1, <2>2, IdleShape DEF Calls
<1>5. Become(t, d) /\ UNCHANGED <<world, checkpoint, auditOwner, request>> /\ calls' \in Nat
  BY Counters DEF Ask
<1> HIDE DEF d
<1>6. Entered(d, k) /\ Owned(d, k, auditOwner[t]) /\ Recorded(d, auditOwner[t])
  BY <1>3, <1>4 DEF Entered, Owned, Recorded, Running, Nodes
<1>7. Named(d) /\ Asked(d) /\ Notifies(d)
  BY <1>4 DEF Named, Asked, Notifies
<1>8. Onboards(d) /\ Loads(d) /\ Decides(d, k, request[t]) /\ DecisionTrue(d, request[t])
  BY <1>4, NothingLoaded DEF Onboards, Decides, DecisionTrue, Counted
<1>9. CallInv(d, k, auditOwner[t], request[t], Now)
  BY <1>1, <1>4, <1>6, <1>7, <1>8 DEF CallInv
<1> QED
  BY <1>4, <1>5, <1>9, OnCall, Counters DEF world

(* The graph starts, or goes on where a checkpoint has left it.            *)
LEMMA Starts ==
    ASSUME NEW c \in Calls, NEW k \in Checkpoints, NEW a, NEW r, NEW s,
           CallInv(c, k, a, r, s), c.pc = "identity", c.actor \in Employees,
           k.owner \in {NoEmployee, c.actor}, a \in {NoEmployee, c.actor},
           NEW d \in Calls, SameMatter(c, d), d.pc \in Nodes, d.trail = {d.pc},
           d.review = c.review, d.notified = c.notified, d.outcome = c.outcome,
           d.tools = c.tools,
           \/ d.pc = "request_guard" /\ d.proposal = NoProposal
           \/ d.pc = k.at /\ d.proposal = k.proposal /\ r = NoRequest
    PROVE  CallInv(d, k, a, r, s)
<1>1. /\ c.intent = NoIntent /\ c.review = "NONE" /\ c.notified = NoEmployee
      /\ c.outcome = "NONE" /\ c.behind = k.origin
  BY DEF CallInv, Entered
<1>2. Entered(d, k) /\ Owned(d, k, a) /\ Recorded(d, a)
  BY <1>1 DEF CallInv, Entered, Owned, Recorded, SameMatter, Nodes, Running
<1>3. Named(d) /\ Asked(d) /\ Notifies(d) /\ Onboards(d)
  BY <1>1 DEF Named, Asked, Notifies, Onboards, SameMatter, Nodes
<1>4. Decides(d, k, r) /\ DecisionTrue(d, r)
  <2>1. d.pc = "leave_approval" => d.proposal # NoProposal /\ d.proposal = k.proposal
                                   /\ r = NoRequest
    BY DEF CallInv, Kept
  <2>2. Counted(d.proposal)
    BY DEF CallInv, Kept, Counted
  <2> QED
    BY <1>1, <2>1, <2>2 DEF Decides, DecisionTrue, SameMatter, Nodes
<1>5. s \in d.seen
  BY DEF CallInv, SameMatter
<1>6. Loads(d)
  <2>1. c.tools = NothingRead
    BY DEF CallInv, Loads, LoadingAt
  <2> QED
    BY <2>1, NothingLoaded
<1> QED
  BY <1>2, <1>3, <1>4, <1>5, <1>6 DEF CallInv

LEMMA StartGraphStep ==
    ASSUME IInv, NEW t \in Threads, call[t].pc = "identity", StartGraph(t),
           UNCHANGED <<world, calls>>
    PROVE  IInv'
<1> DEFINE c == call[t]
           k == checkpoint[t]
<1>1. /\ c.actor \in Employees
      /\ auditOwner[t] \in {NoEmployee, c.actor} /\ k.owner \in {NoEmployee, c.actor}
      /\ c.decision # "NONE" => request[t] = NoRequest
  BY DEF StartGraph, ownsThread, Decided
<1>2. c \in Calls /\ k \in Checkpoints /\ CallInv(c, k, auditOwner[t], request[t], Now)
  BY OfThread
<1>3. c.trail = {} /\ c.proposal = NoProposal
  BY <1>2 DEF CallInv, Entered
<1>4. CASE Become(t, Go(c, "request_guard")) /\ UNCHANGED <<checkpoint, auditOwner, request>>
  <2> DEFINE d == Go(c, "request_guard")
  <2>1. /\ d \in Calls /\ SameTurn(c, d) /\ d.pc = "request_guard" /\ d.trail = {d.pc}
        /\ d.outcome = c.outcome /\ d.tools = c.tools
    BY <1>2, <1>3, GoShape DEF Nodes
  <2> HIDE DEF d
  <2>2. CallInv(d, k, auditOwner[t], request[t], Now)
    <3>1. d.pc \in Nodes /\ d.proposal = NoProposal /\ SameMatter(c, d)
          /\ d.review = c.review /\ d.notified = c.notified
      BY <1>3, <2>1 DEF SameTurn, SameMatter, Nodes
    <3> HIDE DEF c, k
    <3> QED
      BY <1>1, <1>2, <2>1, <3>1, Starts DEF c
  <2> QED
    BY <1>4, <2>1, <2>2, OnCall, Counters DEF world, d
<1>5. CASE /\ c.decision # "NONE" /\ k.at \in Nodes
           /\ Become(t, [Go(c, k.at) EXCEPT !.proposal = k.proposal])
           /\ UNCHANGED <<checkpoint, auditOwner, request>>
  <2> DEFINE e == Go(c, k.at)
             d == [e EXCEPT !.proposal = k.proposal]
  <2>1. /\ e \in Calls /\ SameTurn(c, e) /\ e.pc = k.at /\ e.trail = {k.at}
        /\ e.outcome = c.outcome /\ e.tools = c.tools
    BY <1>2, <1>3, <1>5, GoShape
  <2>2. k.proposal \in Proposals \cup {NoProposal}
    BY <1>2 DEF Checkpoints
  <2>3. Become(t, d)
    BY <1>5
  <2> HIDE DEF e, k, c
  <2>4. /\ d \in Calls /\ SameMatter(c, d) /\ d.pc = k.at /\ d.trail = {d.pc}
        /\ d.proposal = k.proposal /\ d.review = c.review /\ d.notified = c.notified
        /\ d.outcome = c.outcome /\ d.tools = c.tools
    BY <2>1, <2>2 DEF Calls, SameTurn, SameMatter
  <2> HIDE DEF d
  <2>5. CallInv(d, k, auditOwner[t], request[t], Now)
    BY <1>1, <1>2, <1>5, <2>4, Starts DEF c
  <2> QED
    BY <1>5, <2>3, <2>4, <2>5, OnCall, Counters DEF world, k
<1>6. CASE Throw(t)
  BY <1>6, Throws
<1> QED
  BY <1>4, <1>5, <1>6 DEF StartGraph

LEMMA IdentifyStep ==
    ASSUME IInv, NEW t \in Threads, Identify(t)
    PROVE  IInv'
<1>1. call[t].pc = "identity" /\ UNCHANGED <<world, calls>>
  BY DEF Identify
<1>2. CASE RejectUnknown(t)
  <2> DEFINE d == Answer(call[t], "AUTHENTICATION_REQUIRED")
  <2>1. /\ d \in Calls /\ SameTurn(call[t], d) /\ d.pc = "answered"
        /\ d.trail = call[t].trail /\ d.outcome = "AUTHENTICATION_REQUIRED"
    BY OfThread, AnswerShape DEF Outcomes
  <2>2. Become(t, d) /\ UNCHANGED <<checkpoint, auditOwner, request>>
    BY <1>2 DEF RejectUnknown
  <2> HIDE DEF d
  <2>3. CallInv(d, checkpoint[t], auditOwner[t], request[t], Now)
    <3>1. DecisionTrue(d, request[t])
      BY <2>1 DEF DecisionTrue
    <3> QED
      BY <1>1, <2>1, <3>1, OfThread, Answers
  <2> QED
    BY <1>1, <2>1, <2>2, <2>3, OnCall, Counters DEF world
<1>3. CASE RejectThreadIdentityMismatch(t)
  BY <1>1, <1>3, Records DEF RejectThreadIdentityMismatch, DecisionTrue, Outcomes
<1>4. CASE AnswerExisting(t)
  <2> DEFINE o == IF call[t].decision = "APPROVE" THEN "ALREADY_SUBMITTED"
                  ELSE "LEAVE_REQUEST_ALREADY_SUBMITTED"
  <2>1. /\ RecordAndAnswer(t, o) /\ call[t].actor \in Employees /\ request[t] # NoRequest
    BY <1>4 DEF AnswerExisting, Decided
  <2>2. o \in Outcomes \ {"NONE"}
    BY DEF Outcomes
  <2>3. o \in {"ALREADY_SUBMITTED", "LEAVE_REQUEST_ALREADY_SUBMITTED"}
    OBVIOUS
  <2> HIDE DEF o
  <2>4. \A d : SameTurn(call[t], d) /\ d.outcome = o => DecisionTrue(d, request[t])
    BY <2>1, <2>3 DEF DecisionTrue
  <2> QED
    BY <1>1, <2>1, <2>2, <2>4, Records
<1>5. CASE StartGraph(t)
  BY <1>1, <1>5, StartGraphStep
<1>6. CASE Throw(t)
  BY <1>1, <1>6, Throws
<1> QED
  BY <1>2, <1>3, <1>4, <1>5, <1>6 DEF Identify

-----------------------------------------------------------------------------
(* The shared nodes.                                                       *)

(* A node of the graph, and what it makes of its call.                     *)
LEMMA AtNode ==
    ASSUME IInv, NEW t \in Threads, NEW d, d \in Calls,
           CallInv(d, checkpoint[t], auditOwner[t], request[t], Now), Become(t, d),
           UNCHANGED <<world, checkpoint, auditOwner, request, calls>>
    PROVE  IInv'
BY OnCall, Counters DEF world

LEMMA RespondsAt ==
    ASSUME IInv, NEW t \in Threads, call[t].pc \in AtWork \ LoadingAt, NEW o \in Plain,
           Become(t, Respond(call[t], o)),
           UNCHANGED <<world, checkpoint, auditOwner, request, calls>>
    PROVE  IInv'
<1>1. /\ Respond(call[t], o) \in Calls
      /\ CallInv(Respond(call[t], o), checkpoint[t], auditOwner[t], request[t], Now)
  BY OfThread, RespondsPlainly
<1> QED
  BY <1>1, AtNode

LEMMA UnloadsAt ==
    ASSUME IInv, NEW t \in Threads, call[t].pc \in LoadingAt, NEW o \in Plain,
           Become(t, Unloaded(call[t], o)),
           UNCHANGED <<world, checkpoint, auditOwner, request, calls>>
    PROVE  IInv'
<1>1. /\ Unloaded(call[t], o) \in Calls
      /\ CallInv(Unloaded(call[t], o), checkpoint[t], auditOwner[t], request[t], Now)
  BY OfThread, UnloadsPlainly
<1> QED
  BY <1>1, AtNode

LEMMA GoesTo ==
    ASSUME IInv, NEW t \in Threads,
           call[t].pc \in AtWork \ (LoadingAt \cup {"response_audit"}),
           NEW node \in Nodes, node # "request_guard",
           node = "intent_normalization" => call[t].pc = "request_guard",
           Onboards(Go(call[t], node)),
           Decides(Go(call[t], node), checkpoint[t], request[t]),
           Become(t, Go(call[t], node)),
           UNCHANGED <<world, checkpoint, auditOwner, request, calls>>
    PROVE  IInv'
<1>1. call[t].outcome = "NONE"
  BY Unsettled DEF Nodes, AtWork
<1>2. /\ Go(call[t], node) \in Calls
      /\ CallInv(Go(call[t], node), checkpoint[t], auditOwner[t], request[t], Now)
  BY <1>1, OfThread, Moves
<1> QED
  BY <1>2, AtNode

(* What a node that goes on must show, where its call keeps its findings.  *)
LEMMA Leads ==
    ASSUME IInv, NEW t \in Threads, NEW node \in Nodes, node # "leave_approval"
    PROVE  LET c == call[t]
               d == Go(c, node)
           IN  /\ node \notin {"employee_lookup", "onboarding_calculation",
                               "manager_notification"} => Onboards(d)
               /\ node = "employee_lookup" /\ c.intent.intent = "ONBOARDING_REVIEW" =>
                    Onboards(d)
               /\ node = "onboarding_calculation" /\ c.intent.intent = "ONBOARDING_REVIEW" =>
                    Onboards(d)
               /\ node \notin {"parallel_leave_context", "leave_proposal_calculation"} =>
                    Decides(d, checkpoint[t], request[t])
               /\ node = "parallel_leave_context" /\ c.intent.intent = "LEAVE_REQUEST"
                        /\ NoDay \notin {c.intent.start, c.intent.end} =>
                    Decides(d, checkpoint[t], request[t])
<1> DEFINE c == call[t]
           d == Go(c, node)
<1>1. SameTurn(c, d) /\ d.pc = node /\ d.trail = c.trail \cup {node}
  BY OfThread, GoShape
<1>2. Decides(c, checkpoint[t], request[t])
  BY OfThread DEF CallInv
<1> HIDE DEF c, d
<1>3. /\ "leave_approval" \in d.trail => d.proposal # NoProposal
      /\ Counted(d.proposal)
  BY <1>1, <1>2 DEF Decides, SameTurn
<1>4. /\ node \notin {"employee_lookup", "onboarding_calculation",
                      "manager_notification"} => Onboards(d)
      /\ node = "employee_lookup" /\ c.intent.intent = "ONBOARDING_REVIEW" => Onboards(d)
      /\ node = "onboarding_calculation" /\ c.intent.intent = "ONBOARDING_REVIEW" =>
            Onboards(d)
  BY <1>1 DEF Onboards, SameTurn, Nodes
<1>5. /\ node \notin {"parallel_leave_context", "leave_proposal_calculation"} =>
            Decides(d, checkpoint[t], request[t])
      /\ node = "parallel_leave_context" /\ c.intent.intent = "LEAVE_REQUEST"
            /\ NoDay \notin {c.intent.start, c.intent.end} =>
            Decides(d, checkpoint[t], request[t])
  BY <1>1, <1>3 DEF Decides, SameTurn, Nodes
<1> QED
  BY <1>4, <1>5 DEF c, d

LEMMA RequestGuardStep ==
    ASSUME IInv, NEW t \in Threads, RequestGuard(t)
    PROVE  IInv'
<1>1. /\ call[t].pc = "request_guard"
      /\ UNCHANGED <<world, checkpoint, auditOwner, request, calls>>
  BY DEF RequestGuard
<1>2. CASE Become(t, Go(call[t], "intent_normalization"))
  <2>1. Onboards(Go(call[t], "intent_normalization"))
        /\ Decides(Go(call[t], "intent_normalization"), checkpoint[t], request[t])
    BY Leads DEF Nodes
  <2> QED
    BY <1>1, <1>2, <2>1, GoesTo DEF Nodes, AtWork, LoadingAt
<1>3. CASE Become(t, Respond(call[t], "UNSAFE_REQUEST_REJECTED"))
  BY <1>1, <1>3, RespondsAt DEF Nodes, Plain, Outcomes, AtWork, LoadingAt
<1> QED
  BY <1>2, <1>3 DEF RequestGuard

LEMMA NormalizeIntentStep ==
    ASSUME IInv, NEW t \in Threads, NormalizeIntent(t)
    PROVE  IInv'
<1> DEFINE c == call[t]
           k == checkpoint[t]
<1>1. /\ c.pc = "intent_normalization"
      /\ UNCHANGED <<world, checkpoint, auditOwner, request, calls>>
  BY DEF NormalizeIntent
<1>2. CASE Become(t, Respond(c, "MODEL_UNAVAILABLE"))
  BY <1>1, <1>2, RespondsAt DEF Nodes, Plain, Outcomes, AtWork, LoadingAt
<1>3. ASSUME NEW answer \in ModelAnswers,
             LET i == NormalizedIntent(c.query, answer, k.pending, c.actor)
                 pending == pendingState(i)
             IN  Become(t, [Go(c, "routing") EXCEPT
                    !.intent = i, !.pending = pending,
                    !.origin = IF pending = Unsupported THEN EmptyQuery ELSE c.query])
      PROVE  IInv'
  <2> DEFINE i == NormalizedIntent(c.query, answer, k.pending, c.actor)
             pending == pendingState(i)
             origin == IF pending = Unsupported THEN EmptyQuery ELSE c.query
             e == Go(c, "routing")
             d == [e EXCEPT !.intent = i, !.pending = pending, !.origin = origin]
  <2>1. Become(t, d)
    BY <1>3
  <2>2. /\ c \in Calls /\ k \in Checkpoints
        /\ CallInv(c, k, auditOwner[t], request[t], Now) /\ c.outcome = "NONE"
    BY <1>1, OfThread, Unsettled
  <2>3. /\ c.query \in Query
        /\ c.query.bareCode => c.query.codes # {}
        /\ EmptyQuery \in Query /\ c.actor \in Employees /\ c.behind = k.origin
    BY <1>1, <2>2, ConversationAssumption DEF CallInv, Entered, Owned, Running, Nodes
  <2>4. k.pending \in Intent /\ PendingOf(k.pending, k.origin)
    BY <2>2 DEF CallInv, Kept, Checkpoints
  <2>5. /\ i \in Intent
        /\ i.employee \in c.query.codes \cup {NoEmployee}
                \/ (i.employee = c.actor /\ c.query.self)
        /\ {i.start, i.end} \subseteq DatesIn(c.query) \cup {NoDay}
        /\ i.intent = "ONBOARDING_REVIEW" =>
            \E p \in {c.query} \cup (IF c.query.bareCode THEN {k.origin} ELSE {}) :
                /\ i.threshold = resolveThresholdDays(p)
                /\ i.action = "NOTIFY_MANAGER" => asksNotification(p)
        /\ pending \in Intent /\ PendingOf(pending, c.query)
    <3> HIDE DEF c, k
    <3> QED
      BY <2>3, <2>4, Normalized
  <2>6. origin \in Query /\ PendingOf(pending, origin)
    BY <2>3, <2>5 DEF PendingOf
  <2>7. /\ e \in Calls /\ SameTurn(c, e) /\ e.pc = "routing"
        /\ e.trail = c.trail \cup {"routing"} /\ e.outcome = c.outcome
        /\ e.tools = c.tools
    BY <2>2, GoShape DEF Nodes
  <2> HIDE DEF i, pending, origin, e, c, k
  <2>8. /\ d \in Calls /\ d.intent = i /\ d.pending = pending /\ d.origin = origin
        /\ d.pc = "routing" /\ d.trail = c.trail \cup {"routing"} /\ d.outcome = "NONE"
        /\ d.actor = c.actor /\ d.decision = c.decision /\ d.query = c.query
        /\ d.behind = c.behind /\ d.seen = c.seen /\ d.notified = c.notified
        /\ d.proposal = c.proposal /\ d.tools = c.tools
    BY <2>2, <2>5, <2>6, <2>7 DEF Calls, SameTurn
  <2> HIDE DEF d
  <2>9. Entered(d, k) /\ Owned(d, k, auditOwner[t]) /\ Recorded(d, auditOwner[t])
    BY <1>1, <2>2, <2>6, <2>8 DEF CallInv, Entered, Owned, Recorded, Running, Nodes, c
  <2>10. Named(d)
    BY <2>5, <2>8 DEF Named
  <2>11. Asked(d)
    BY <2>3, <2>5, <2>8 DEF Asked, Behind
  <2>12. Onboards(d) /\ Notifies(d)
    BY <2>2, <2>8 DEF CallInv, Onboards, Notifies, Behind
  <2>13. Loads(d) /\ Decides(d, k, request[t]) /\ DecisionTrue(d, request[t])
    <3>1. c.tools = NothingRead
      BY <1>1, <2>2 DEF CallInv, Loads, LoadingAt, c
    <3> QED
      BY <2>2, <2>8, <3>1, NothingLoaded DEF CallInv, Decides, DecisionTrue
  <2>14. Now \in d.seen
    BY <1>1, <2>2, <2>8 DEF CallInv, c
  <2>15. CallInv(d, k, auditOwner[t], request[t], Now)
    BY <2>2, <2>9, <2>10, <2>11, <2>12, <2>13, <2>14 DEF CallInv
  <2> QED
    BY <1>1, <2>1, <2>8, <2>15, AtNode DEF k
<1> QED
  BY <1>2, <1>3 DEF NormalizeIntent

LEMMA RouteStep ==
    ASSUME IInv, NEW t \in Threads, Route(t)
    PROVE  IInv'
<1> DEFINE c == call[t]
           i == c.intent
<1>1. /\ c.pc = "routing" /\ c.pc \in AtWork \ (LoadingAt \cup {"response_audit"})
      /\ c.pc \in Nodes /\ UNCHANGED <<world, calls>>
  BY DEF Route, Nodes, AtWork, LoadingAt
<1>2. CASE i # NoIntent /\ Become(t, Routed(c)) /\ UNCHANGED <<checkpoint, auditOwner, request>>
  <2>1. i \in Intent
    BY <1>2, OfThread DEF Calls
  <2>2. CASE i.intent = "UNSUPPORTED"
    <3>1. Become(t, Respond(c, "UNSUPPORTED_REQUEST"))
      BY <1>2, <2>2 DEF Routed
    <3> QED
      BY <1>1, <1>2, <3>1, RespondsAt DEF Plain, Outcomes
  <2>3. CASE i.intent = "LEAVE_REQUEST"
    <3>1. CASE NoDay \in {i.start, i.end}
      <4>1. Become(t, Respond(c, "NEED_MORE_INFORMATION"))
        BY <1>2, <2>3, <3>1 DEF Routed
      <4> QED
        BY <1>1, <1>2, <4>1, RespondsAt DEF Plain, Outcomes
    <3>2. CASE NoDay \notin {i.start, i.end}
      <4>1. Become(t, Go(c, "parallel_leave_context"))
        BY <1>2, <2>3, <3>2 DEF Routed
      <4>2. /\ Onboards(Go(c, "parallel_leave_context"))
            /\ Decides(Go(c, "parallel_leave_context"), checkpoint[t], request[t])
        BY <2>3, <3>2, Leads DEF Nodes
      <4> QED
        BY <1>1, <1>2, <4>1, <4>2, GoesTo DEF Nodes
    <3> QED
      BY <3>1, <3>2
  <2>4. CASE i.intent = "ONBOARDING_REVIEW"
    <3>1. CASE i.employee = NoEmployee
      <4>1. Become(t, Respond(c, "NEED_MORE_INFORMATION"))
        BY <1>2, <2>4, <3>1 DEF Routed
      <4> QED
        BY <1>1, <1>2, <4>1, RespondsAt DEF Plain, Outcomes
    <3>2. CASE i.employee # NoEmployee
      <4>1. Become(t, Go(c, "employee_lookup"))
        BY <1>2, <2>4, <3>2 DEF Routed
      <4>2. /\ Onboards(Go(c, "employee_lookup"))
            /\ Decides(Go(c, "employee_lookup"), checkpoint[t], request[t])
        BY <2>4, Leads DEF Nodes
      <4> QED
        BY <1>1, <1>2, <4>1, <4>2, GoesTo DEF Nodes
    <3> QED
      BY <3>1, <3>2
  <2> QED
    BY <2>1, <2>2, <2>3, <2>4 DEF Intent
<1>3. CASE Throw(t)
  BY <1>1, <1>3, Throws DEF Running
<1> QED
  BY <1>2, <1>3 DEF Route

(* The run is recorded, or its result is an internal error.                *)
LEMMA Finishes ==
    ASSUME NEW c \in Calls, NEW k \in Checkpoints, NEW a, NEW r, NEW s,
           CallInv(c, k, a, r, s), c.pc = "response_audit",
           NEW d \in Calls, SameTurn(c, d), d.pc = "finish", d.trail = c.trail,
           d.tools = c.tools, NEW b, b \in {NoEmployee, c.actor},
           \/ d.outcome = "INTERNAL_ERROR"
           \/ d.outcome = ResultOf(c) /\ d.audited /\ b # NoEmployee
    PROVE  CallInv(d, k, b, r, s)
<1>1. d.outcome # "NONE"
  BY DEF ResultOf
<1>2. Entered(d, k) /\ Owned(d, k, b) /\ Recorded(d, b)
  BY <1>1 DEF CallInv, Entered, Owned, Recorded, SameTurn, Nodes, Running
<1>3. Named(d) /\ Asked(d) /\ Notifies(d)
  BY DEF CallInv, Named, Asked, Notifies, Behind, SameTurn
<1>4. Onboards(d) /\ Decides(d, k, r)
  BY DEF CallInv, Onboards, Decides, SameTurn
<1>5. DecisionTrue(d, r)
  <2>1. CASE d.outcome \in {"INTERNAL_ERROR", "COMPLETED"}
    BY <2>1 DEF DecisionTrue
  <2>2. CASE d.outcome = c.outcome
    BY <2>2 DEF CallInv, DecisionTrue, MayRequest, SameTurn
  <2> QED
    BY <2>1, <2>2 DEF ResultOf
<1>6. s \in d.seen
  BY DEF CallInv, SameTurn
<1>7. Loads(d)
  <2>1. c.tools = NothingRead
    BY DEF CallInv, Loads, LoadingAt
  <2> QED
    BY <2>1, NothingLoaded
<1> QED
  BY <1>2, <1>3, <1>4, <1>5, <1>6, <1>7 DEF CallInv

LEMMA RespondAndAuditStep ==
    ASSUME IInv, NEW t \in Threads, RespondAndAudit(t)
    PROVE  IInv'
<1> DEFINE c == call[t]
<1>1. c.pc = "response_audit" /\ UNCHANGED <<world, calls>>
  BY DEF RespondAndAudit
<1>2. /\ c \in Calls /\ c.actor \in Employees
      /\ CallInv(c, checkpoint[t], auditOwner[t], request[t], Now)
      /\ auditOwner[t] \in {NoEmployee, c.actor}
  BY <1>1, OfThread DEF CallInv, Owned, Running, Nodes
<1>3. ResultOf(c) \in Outcomes /\ "finish" \in PCs /\ "INTERNAL_ERROR" \in Outcomes
  BY <1>2 DEF ResultOf, Calls, Outcomes, PCs
<1>4. CASE Throw(t)
  BY <1>1, <1>4, Throws DEF Running, Nodes
<1>5. CASE /\ RecordRun(t)
           /\ Become(t, [c EXCEPT !.pc = "finish", !.outcome = ResultOf(c), !.audited = TRUE])
           /\ UNCHANGED <<checkpoint, request>>
  <2> DEFINE d == [c EXCEPT !.pc = "finish", !.outcome = ResultOf(c), !.audited = TRUE]
             b == IF auditOwner[t] = NoEmployee THEN c.actor ELSE auditOwner[t]
  <2>1. /\ call' = [call EXCEPT ![t] = d]
        /\ checkpoint' = [checkpoint EXCEPT ![t] = checkpoint[t]]
        /\ auditOwner' = [auditOwner EXCEPT ![t] = b]
        /\ request' = [request EXCEPT ![t] = request[t]]
    BY <1>5 DEF RecordRun, Become, IInv, TypeOK
  <2>2. b = c.actor /\ b \in Employees /\ b # NoEmployee
    BY <1>2, RulesAssumption DEF Codes
  <2> HIDE DEF c
  <2>3. /\ d \in Calls /\ SameTurn(c, d) /\ d.pc = "finish" /\ d.trail = c.trail
        /\ d.outcome = ResultOf(c) /\ d.audited /\ d.tools = c.tools
    BY <1>2, <1>3 DEF Calls, SameTurn
  <2> HIDE DEF d, b
  <2>4. CallInv(d, checkpoint[t], b, request[t], Now)
    <3>1. checkpoint[t] \in Checkpoints
      BY OfThread
    <3> QED
      BY <1>1, <1>2, <2>2, <2>3, <3>1, Finishes DEF c
  <2> QED
    BY <1>1, <2>1, <2>2, <2>3, <2>4, OfThread, OnThread, Counters DEF world
<1>6. CASE /\ Become(t, [c EXCEPT !.pc = "finish", !.outcome = "INTERNAL_ERROR"])
           /\ UNCHANGED <<checkpoint, auditOwner, request>>
  <2> DEFINE d == [c EXCEPT !.pc = "finish", !.outcome = "INTERNAL_ERROR"]
  <2> HIDE DEF c
  <2>1. /\ d \in Calls /\ SameTurn(c, d) /\ d.pc = "finish" /\ d.trail = c.trail
        /\ d.outcome = "INTERNAL_ERROR" /\ d.tools = c.tools
    BY <1>2, <1>3 DEF Calls, SameTurn
  <2>2. Become(t, d)
    BY <1>6
  <2> HIDE DEF d
  <2>3. CallInv(d, checkpoint[t], auditOwner[t], request[t], Now)
    <3>1. checkpoint[t] \in Checkpoints
      BY OfThread
    <3> QED
      BY <1>1, <1>2, <2>1, <3>1, Finishes DEF c
  <2> QED
    BY <1>1, <1>6, <2>1, <2>2, <2>3, AtNode
<1> QED
  BY <1>4, <1>5, <1>6 DEF RespondAndAudit

LEMMA FinishStep ==
    ASSUME IInv, NEW t \in Threads, Finish(t)
    PROVE  IInv'
<1> DEFINE c == call[t]
           d == [c EXCEPT !.pc = "answered"]
           k == [owner |-> c.actor, at |-> "END", proposal |-> NoProposal,
                 pending |-> c.pending, origin |-> c.origin]
<1>1. c.pc = "finish" /\ UNCHANGED <<world, auditOwner, request, calls>>
  BY DEF Finish
<1>2. /\ call' = [call EXCEPT ![t] = d] /\ checkpoint' = [checkpoint EXCEPT ![t] = k]
      /\ auditOwner' = [auditOwner EXCEPT ![t] = auditOwner[t]]
      /\ request' = [request EXCEPT ![t] = request[t]]
  BY DEF Finish, Become, Save, IInv, TypeOK
<1>3. /\ c \in Calls /\ c.actor \in Employees /\ PendingOf(c.pending, c.origin)
      /\ CallInv(c, checkpoint[t], auditOwner[t], request[t], Now)
  BY <1>1, OfThread DEF CallInv, Owned, Entered, Running
<1> HIDE DEF c
<1>4. /\ d \in Calls /\ SameTurn(c, d) /\ d.pc = "answered" /\ d.trail = c.trail
      /\ d.outcome = c.outcome /\ d.audited = c.audited
  <2>1. "answered" \in PCs
    BY DEF PCs
  <2> QED
    BY <1>3, <2>1 DEF Calls, SameTurn
<1>5. k \in Checkpoints /\ Kept(k)
  BY <1>3 DEF Calls, Checkpoints, Kept, Counted
<1> HIDE DEF d, k
<1>6. Entered(d, k) /\ Owned(d, k, auditOwner[t]) /\ Recorded(d, auditOwner[t])
  BY <1>1, <1>3, <1>4 DEF CallInv, Entered, Owned, Recorded, SameTurn, Running, Nodes, c
<1>7. Named(d) /\ Asked(d) /\ Notifies(d)
  BY <1>3, <1>4 DEF CallInv, Named, Asked, Notifies, Behind, SameTurn
<1>8. Onboards(d) /\ Decides(d, k, request[t])
  BY <1>3, <1>4 DEF CallInv, Onboards, Decides, SameTurn
<1>9. DecisionTrue(d, request[t]) /\ Loads(d)
  BY <1>3, <1>4, NotLoading DEF CallInv, DecisionTrue, MayRequest, SameTurn, LoadingAt
<1>10. CallInv(d, k, auditOwner[t], request[t], Now)
  BY <1>4, <1>5, <1>6, <1>7, <1>8, <1>9 DEF CallInv
<1> QED
  BY <1>1, <1>2, <1>4, <1>5, <1>10, OfThread, OnThread, Counters DEF world

LEMMA ReturnStep ==
    ASSUME IInv, NEW t \in Threads, Return(t)
    PROVE  IInv'
<1>1. Idle \in Calls /\ CallInv(Idle, checkpoint[t], auditOwner[t], request[t], Now)
  BY IdleShape, OfThread, Rests DEF CallInv
<1> QED
  BY <1>1, AtNode DEF Return

-----------------------------------------------------------------------------
(* Onboarding review.                                                      *)

LEMMA World ==
    ASSUME IInv
    PROVE  /\ today \in Nat
           /\ policy \in Policy
           /\ balance \in [Employees -> [1 .. 2 -> Int \cup {NoBalance}]]
           /\ staff \in Staff /\ staff = Now.tables.staff
           /\ Now \in Snapshot
           /\ Now.tables = tables /\ Now.today = today
<1>1. tables \in Tables /\ today \in Nat
  BY DEF IInv, TypeOK
<1>2. tables \in [staff: Staff, policy: Policy,
                  balance: [Employees -> [1 .. 2 -> Int \cup {NoBalance}]]]
  BY <1>1, ConversationAssumption
<1> QED
  BY <1>1, <1>2 DEF policy, balance, staff, Now, Snapshot

(* What the rules make of an employee's row, wherever it is from.          *)
LEMMA LookedUpRows ==
    ASSUME NEW actor, NEW row, NEW e, NEW other
    PROVE  /\ employeeLookup(actor, row, e, other) \in
                {"EMPLOYEE_NOT_FOUND", "AUTHORIZATION_DENIED", "FOUND"}
           /\ employeeLookup(actor, row, e, other) = "FOUND" => other # NoRow
BY DEF employeeLookup

(* The first read of a tool: the actor's row, and the day of the call.     *)
LEMMA ReadActorStep ==
    ASSUME IInv, NEW t \in Threads, NEW node, NEW next, ReadActor(t, node, next),
           <<node, next>> \in {<<"employee_lookup", "looking_up">>,
                               <<"onboarding_calculation", "calculating">>,
                               <<"manager_notification", "notifying">>}
    PROVE  IInv'
<1> DEFINE c == call[t]
           row == findByEmployeeCode(c.actor)
           d == [c EXCEPT !.pc = next, !.day = today, !.actorRow = row]
<1>1. /\ c.pc = node /\ c.pc \in AtWork \ (LoadingAt \cup {"response_audit"})
      /\ c.pc \in Running /\ UNCHANGED <<world, calls>>
  BY DEF ReadActor, Nodes, AtWork, LoadingAt, Running
<1>2. CASE /\ c.intent # NoIntent /\ Become(t, d)
           /\ UNCHANGED <<checkpoint, auditOwner, request>>
  <2>1. /\ c \in Calls /\ checkpoint[t] \in Checkpoints /\ c.outcome = "NONE"
        /\ CallInv(c, checkpoint[t], auditOwner[t], request[t], Now)
    BY <1>1, OfThread, Unsettled DEF LoadingAt
  <2>2. c.actor \in Employees /\ Now \in c.seen /\ c.tools = NothingRead
    BY <1>1, <2>1 DEF CallInv, Owned, Loads, LoadingAt, Running
  <2>3. row = Now.tables.staff[c.actor] /\ row \in Row /\ today \in Nat /\ Now.today = today
    BY <2>2, World DEF findByEmployeeCode, Staff
  <2>4. next \in PCs /\ next \in AtWork /\ next \in {"looking_up", "calculating", "notifying"}
    BY DEF PCs, AtWork
  <2>5. Become(t, d)
    BY <1>2
  <2> HIDE DEF c, row
  <2>6. /\ d \in Calls /\ SameMatter(c, d) /\ d.pc = next /\ d.outcome = "NONE"
        /\ d.trail = c.trail /\ d.review = c.review /\ d.notified = c.notified
        /\ d.proposal = c.proposal /\ d.tools = c.tools
        /\ d.actorRow = row /\ d.day = today
    BY <2>1, <2>3, <2>4 DEF Calls, SameMatter
  <2> HIDE DEF d
  <2>7. Onboards(d)
    <3>1. \E s \in d.seen : d.actorRow = s.tables.staff[d.actor]
      BY <2>2, <2>3, <2>6 DEF SameMatter
    <3>2. \E s \in d.seen : d.day = s.today
      BY <2>2, <2>3, <2>6 DEF SameMatter
    <3>3. d.intent # NoIntent /\ d.intent = c.intent
      BY <1>2, <2>6 DEF SameMatter, c
    <3> QED
      BY <1>1, <2>1, <2>6, <3>1, <3>2, <3>3 DEF CallInv, Onboards, SameMatter, c
  <2>8. Decides(d, checkpoint[t], request[t]) /\ Notifies(d) /\ Loads(d)
    BY <2>1, <2>2, <2>4, <2>6, NothingLoaded
    DEF CallInv, Decides, Notifies, Behind, SameMatter
  <2>9. CallInv(d, checkpoint[t], auditOwner[t], request[t], Now)
    BY <1>1, <2>1, <2>4, <2>6, <2>7, <2>8, Proceeds DEF c
  <2> QED
    BY <1>1, <1>2, <2>5, <2>6, <2>9, AtNode
<1>3. CASE /\ Become(t, Respond(c, "INTERNAL_ERROR"))
           /\ UNCHANGED <<checkpoint, auditOwner, request>>
  BY <1>1, <1>3, RespondsAt DEF Plain, Outcomes
<1>4. CASE Throw(t)
  BY <1>1, <1>4, Throws
<1> QED
  BY <1>2, <1>3, <1>4 DEF ReadActor

LEMMA EmployeeLookupStep ==
    ASSUME IInv, NEW t \in Threads, EmployeeLookup(t)
    PROVE  IInv'
<1> DEFINE c == call[t]
           found == loadAuthorizedEmployee(c)
<1>1. /\ c.pc = "looking_up" /\ c.pc \in AtWork \ (LoadingAt \cup {"response_audit"})
      /\ UNCHANGED <<world, checkpoint, auditOwner, request, calls>>
  BY DEF EmployeeLookup, AtWork, LoadingAt
<1>2. found \in {"EMPLOYEE_NOT_FOUND", "AUTHORIZATION_DENIED", "FOUND"}
  BY LookedUpRows DEF loadAuthorizedEmployee
<1> HIDE DEF found
<1>3. CASE found = "FOUND" /\ Become(t, Go(c, "onboarding_calculation"))
  <2>1. c.intent.intent = "ONBOARDING_REVIEW"
    BY <1>1, OfThread DEF CallInv, Onboards
  <2>2. /\ Onboards(Go(c, "onboarding_calculation"))
        /\ Decides(Go(c, "onboarding_calculation"), checkpoint[t], request[t])
    BY <2>1, Leads DEF Nodes
  <2> QED
    BY <1>1, <1>3, <2>2, GoesTo DEF Nodes
<1>4. CASE found # "FOUND" /\ Become(t, Respond(c, found))
  <2>1. found \in Plain
    BY <1>2, <1>4 DEF Plain, Outcomes
  <2> QED
    BY <1>1, <1>4, <2>1, RespondsAt
<1>5. CASE Become(t, Respond(c, "INTERNAL_ERROR"))
  BY <1>1, <1>5, RespondsAt DEF Plain, Outcomes
<1> QED
  BY <1>3, <1>4, <1>5 DEF EmployeeLookup, LookedUp, found

(* The review is known: to the manager, or to the answer.                  *)
LEMMA Reviews ==
    ASSUME IInv, NEW t \in Threads, call[t].pc = "calculating",
           NEW next \in {"manager_notification", "response_audit"},
           next = "manager_notification" => call[t].intent.action = "NOTIFY_MANAGER",
           call[t].intent.employee \in Employees,
           staff[call[t].intent.employee].active,
           ReviewEnd[call[t].intent.employee] # NoDay,
           Become(t, [Go(call[t], next) EXCEPT !.review =
                IF withinThreshold(call[t].intent.employee, call[t].day,
                                   call[t].intent.threshold)
                THEN "WITHIN" ELSE "OUTSIDE"]),
           UNCHANGED <<world, checkpoint, auditOwner, request, calls>>
    PROVE  IInv'
<1> DEFINE c == call[t]
           employee == c.intent.employee
           review == IF withinThreshold(employee, c.day, c.intent.threshold)
                     THEN "WITHIN" ELSE "OUTSIDE"
           e == Go(c, next)
           d == [e EXCEPT !.review = review]
<1>1. /\ c \in Calls /\ checkpoint[t] \in Checkpoints
      /\ CallInv(c, checkpoint[t], auditOwner[t], request[t], Now) /\ c.outcome = "NONE"
  BY OfThread, Unsettled
<1>2. /\ c.intent # NoIntent /\ c.intent.intent = "ONBOARDING_REVIEW" /\ Now \in c.seen
      /\ \E s \in c.seen : c.day = s.today
      /\ c.tools = NothingRead
  BY <1>1 DEF CallInv, Onboards, Loads, LoadingAt
<1>3. c.day \in Nat /\ c.intent.threshold \in Nat
  BY <1>1, <1>2 DEF Calls, Intent
<1>4. /\ e \in Calls /\ SameTurn(c, e) /\ e.pc = next /\ e.trail = c.trail \cup {next}
      /\ e.outcome = c.outcome /\ e.tools = c.tools
  BY <1>1, GoShape DEF Nodes
<1>5. review \in {"WITHIN", "OUTSIDE"}
  OBVIOUS
<1>6. review = "WITHIN" => ReviewEnd[employee] \in c.day .. (c.day + c.intent.threshold)
  <2>1. ReviewEnd[employee] \in Nat
    BY RulesAssumption
  <2>2. review = "WITHIN" => withinThreshold(employee, c.day, c.intent.threshold)
    OBVIOUS
  <2> QED
    BY <1>3, <2>1, <2>2 DEF withinThreshold
<1>7. Now.tables.staff[employee].active
  BY World
<1>8. Become(t, d)
  OBVIOUS
<1> HIDE DEF e, review, c
<1>9. /\ d \in Calls /\ SameMatter(c, d) /\ d.pc = next /\ d.outcome = "NONE"
      /\ d.trail = c.trail \cup {next} /\ d.review = review
      /\ d.notified = c.notified /\ d.proposal = c.proposal /\ d.tools = c.tools
  BY <1>1, <1>4, <1>5 DEF Calls, SameTurn, SameMatter
<1> HIDE DEF d
<1>10. Onboards(d)
  <2>1. d.intent = c.intent /\ d.seen = c.seen
    BY <1>9 DEF SameMatter
  <2>2. \E s \in d.seen : s.tables.staff[employee].active
    BY <1>2, <1>7, <2>1
  <2>3. review = "WITHIN" => \E s \in d.seen :
            ReviewEnd[employee] \in s.today .. (s.today + c.intent.threshold)
    BY <1>2, <1>6, <2>1
  <2> QED
    BY <1>2, <1>5, <1>9, <2>1, <2>2, <2>3 DEF Onboards, c
<1>11. Decides(d, checkpoint[t], request[t]) /\ Notifies(d) /\ Loads(d)
  BY <1>1, <1>2, <1>9, NothingLoaded DEF CallInv, Decides, Notifies, Behind, SameMatter
<1>12. CallInv(d, checkpoint[t], auditOwner[t], request[t], Now)
  BY <1>1, <1>9, <1>10, <1>11, Proceeds DEF Nodes, AtWork, c
<1> QED
  BY <1>8, <1>9, <1>12, AtNode

LEMMA OnboardingCalculationStep ==
    ASSUME IInv, NEW t \in Threads, OnboardingCalculation(t)
    PROVE  IInv'
<1> DEFINE c == call[t]
           employee == c.intent.employee
           found == loadAuthorizedEmployee(c)
           next == IF c.intent.action = "NOTIFY_MANAGER" THEN "manager_notification"
                   ELSE "response_audit"
           reviewed == [Go(c, next) EXCEPT !.review =
                IF withinThreshold(employee, c.day, c.intent.threshold)
                THEN "WITHIN" ELSE "OUTSIDE"]
<1>1. /\ c.pc = "calculating" /\ c.pc \in AtWork \ LoadingAt
      /\ UNCHANGED <<world, checkpoint, auditOwner, request, calls>>
  BY DEF OnboardingCalculation, AtWork, LoadingAt
<1>2. /\ found \in {"EMPLOYEE_NOT_FOUND", "AUTHORIZATION_DENIED", "FOUND"}
      /\ found = "FOUND" => employee \in Employees
  BY LookedUpRows DEF loadAuthorizedEmployee, findByEmployeeCode
<1>3. Reviewed(c) =
        IF found # "FOUND" THEN Respond(c, found)
        ELSE IF ~staff[employee].active THEN Respond(c, "EMPLOYEE_INACTIVE")
        ELSE IF ReviewEnd[employee] = NoDay THEN Respond(c, "ONBOARDING_REVIEW_NOT_FOUND")
        ELSE reviewed
  BY DEF Reviewed
<1>4. Become(t, Reviewed(c)) \/ Become(t, Respond(c, "INTERNAL_ERROR"))
  BY DEF OnboardingCalculation
<1>5. /\ next \in {"manager_notification", "response_audit"}
      /\ next = "manager_notification" => c.intent.action = "NOTIFY_MANAGER"
  OBVIOUS
<1> HIDE DEF found, next
<1>6. CASE /\ found = "FOUND" /\ staff[employee].active /\ ReviewEnd[employee] # NoDay
           /\ Become(t, reviewed)
  BY <1>1, <1>2, <1>5, <1>6, Reviews
<1>7. ASSUME NEW o \in {"EMPLOYEE_NOT_FOUND", "AUTHORIZATION_DENIED", "EMPLOYEE_INACTIVE",
                        "ONBOARDING_REVIEW_NOT_FOUND", "INTERNAL_ERROR"},
             Become(t, Respond(c, o))
      PROVE  IInv'
  <2>1. o \in Plain
    BY DEF Plain, Outcomes
  <2> QED
    BY <1>1, <1>7, <2>1, RespondsAt
<1> HIDE DEF reviewed
<1> QED
  BY <1>2, <1>3, <1>4, <1>6, <1>7

(* The manager is told, about a review within what was asked for.          *)
LEMMA Tells ==
    ASSUME IInv, NEW t \in Threads, call[t].pc = "notifying",
           call[t].review # "OUTSIDE", call[t].intent.employee \in Employees,
           mayNotifyOf(call[t]),
           Become(t, [Go(call[t], "response_audit") EXCEPT
                        !.notified = call[t].intent.employee]),
           UNCHANGED <<world, checkpoint, auditOwner, request, calls>>
    PROVE  IInv'
<1> DEFINE c == call[t]
           employee == c.intent.employee
           e == Go(c, "response_audit")
           d == [e EXCEPT !.notified = employee]
<1>1. /\ c \in Calls /\ checkpoint[t] \in Checkpoints
      /\ CallInv(c, checkpoint[t], auditOwner[t], request[t], Now) /\ c.outcome = "NONE"
  BY OfThread, Unsettled
<1>2. /\ c.intent # NoIntent /\ c.intent.intent = "ONBOARDING_REVIEW"
      /\ Now \in c.seen /\ c.intent.action = "NOTIFY_MANAGER"
      /\ \E s \in c.seen : s.tables.staff[employee].active
      /\ \E s \in c.seen :
            ReviewEnd[employee] \in s.today .. (s.today + c.intent.threshold)
      /\ c.tools = NothingRead
  BY <1>1 DEF CallInv, Onboards, Loads, LoadingAt
<1>3. /\ e \in Calls /\ SameTurn(c, e) /\ e.pc = "response_audit" /\ e.tools = c.tools
      /\ e.trail = c.trail \cup {"response_audit"} /\ e.outcome = c.outcome
  BY <1>1, GoShape DEF Nodes
<1>4. PICK q \in Behind(c) :
        c.intent.threshold = resolveThresholdDays(q) /\ asksNotification(q)
  BY <1>1, <1>2 DEF CallInv, Asked
<1>5. PICK s \in c.seen : c.actorRow = s.tables.staff[c.actor]
  BY <1>1 DEF CallInv, Onboards
<1>6. mayNotify(s.tables.staff[c.actor].role, c.actor, Now.tables.staff[employee].manager)
  BY <1>5, World DEF mayNotifyOf
<1>7. Become(t, d) /\ employee \in Employees
  OBVIOUS
<1> HIDE DEF e, c, employee
<1>8. /\ d \in Calls /\ SameMatter(c, d) /\ d.pc = "response_audit" /\ d.outcome = "NONE"
      /\ d.trail = c.trail \cup {"response_audit"} /\ d.notified = employee
      /\ d.proposal = c.proposal /\ d.tools = c.tools
  BY <1>1, <1>3, <1>7 DEF Calls, SameTurn, SameMatter
<1> HIDE DEF d
<1>9. Notifies(d)
  <2>1. Behind(d) = Behind(c) /\ d.seen = c.seen /\ d.actor = c.actor
    BY <1>8 DEF Behind, SameMatter
  <2>2. \E one, later \in d.seen :
            mayNotify(one.tables.staff[d.actor].role, d.actor,
                      later.tables.staff[employee].manager)
    BY <1>2, <1>5, <1>6, <2>1
  <2> QED
    BY <1>2, <1>4, <1>8, <2>1, <2>2 DEF Notifies
<1>10. Onboards(d) /\ Decides(d, checkpoint[t], request[t]) /\ Loads(d)
  BY <1>1, <1>2, <1>8, NothingLoaded DEF CallInv, Onboards, Decides
<1>11. CallInv(d, checkpoint[t], auditOwner[t], request[t], Now)
  BY <1>1, <1>8, <1>9, <1>10, Proceeds DEF Nodes, AtWork, c
<1> QED
  BY <1>7, <1>8, <1>11, AtNode

LEMMA ManagerNotificationStep ==
    ASSUME IInv, NEW t \in Threads, ManagerNotification(t)
    PROVE  IInv'
<1> DEFINE c == call[t]
           employee == c.intent.employee
           found == loadAuthorizedEmployee(c)
           told == [Go(c, "response_audit") EXCEPT !.notified = employee]
<1>1. /\ c.pc = "notifying" /\ c.pc \in AtWork \ (LoadingAt \cup {"response_audit"})
      /\ UNCHANGED <<world, checkpoint, auditOwner, request, calls>>
  BY DEF ManagerNotification, AtWork, LoadingAt
<1>2. found = "FOUND" => employee \in Employees
  BY LookedUpRows DEF loadAuthorizedEmployee, findByEmployeeCode
<1>3. Notified(c) =
        IF found # "FOUND" \/ ~mayNotifyOf(c) THEN Respond(c, "AUTHORIZATION_DENIED")
        ELSE IF c.review = "OUTSIDE" \/ staff[employee].manager = NoEmployee
        THEN Go(c, "response_audit") ELSE told
  BY DEF Notified
<1>4. Become(t, Notified(c)) \/ Become(t, Respond(c, "INTERNAL_ERROR"))
  BY DEF ManagerNotification
<1> HIDE DEF found
<1>5. CASE found = "FOUND" /\ mayNotifyOf(c) /\ c.review # "OUTSIDE" /\ Become(t, told)
  BY <1>1, <1>2, <1>5, Tells
<1>6. CASE Become(t, Go(c, "response_audit"))
  <2>1. /\ Onboards(Go(c, "response_audit"))
        /\ Decides(Go(c, "response_audit"), checkpoint[t], request[t])
    BY Leads DEF Nodes
  <2> QED
    BY <1>1, <1>6, <2>1, GoesTo DEF Nodes
<1>7. CASE \/ Become(t, Respond(c, "AUTHORIZATION_DENIED"))
           \/ Become(t, Respond(c, "INTERNAL_ERROR"))
  BY <1>1, <1>7, RespondsAt DEF Plain, Outcomes
<1> HIDE DEF told
<1> QED
  BY <1>3, <1>4, <1>5, <1>6, <1>7

-----------------------------------------------------------------------------
(* Leave.                                                                  *)

(* A call that decides, or none of the employee's words name a date.       *)
LEMMA DecisionsNameNoDates ==
    ASSUME IInv, NEW t \in Threads, call[t].intent # NoIntent,
           NoDay \notin {call[t].intent.start, call[t].intent.end}
    PROVE  call[t].decision = "NONE"
<1>1. {call[t].intent.start, call[t].intent.end} \subseteq DatesIn(call[t].query) \cup {NoDay}
  BY OfThread DEF CallInv, Named
<1>2. call[t].decision # "NONE" => call[t].query = EmptyQuery
  BY OfThread DEF CallInv, Entered
<1>3. DatesIn(EmptyQuery) = {}
  BY ConversationAssumption DEF DatesIn
<1> QED
  BY <1>1, <1>2, <1>3

(* A call that loads, with more of it read.                                *)
LEMMA LoadsMore ==
    ASSUME NEW c \in Calls, NEW k \in Checkpoints, NEW a, NEW r, NEW s,
           CallInv(c, k, a, r, s), Loading(c), c.outcome = "NONE",
           NEW d \in Calls, SameMatter(c, d), d.pc = c.pc, d.trail = c.trail,
           d.proposal = c.proposal, d.notified = c.notified, d.outcome = c.outcome,
           \A x \in Tools : ToolRead(d, x)
    PROVE  CallInv(d, k, a, r, s) /\ Loading(d)
<1>1. c.pc \in LoadingAt /\ c.pc \in AtWork
  BY DEF Loading, LoadingAt, AtWork, Nodes
<1>2. Loading(d) /\ Loads(d)
  BY <1>1 DEF Loading, Loads, SameMatter
<1>3. Onboards(d) /\ Notifies(d)
  BY <1>1 DEF CallInv, Onboards, Notifies, Behind, SameMatter, LoadingAt
<1>4. Decides(d, k, r)
  BY <1>1 DEF CallInv, Decides, SameMatter, LoadingAt
<1>5. CallInv(d, k, a, r, s)
  <2>1. d.pc # "request_guard" /\ d.pc # "intent_normalization"
    BY <1>1 DEF LoadingAt
  <2> QED
    BY <1>1, <1>2, <1>3, <1>4, <2>1, Proceeds
<1> QED
  BY <1>2, <1>5

(* What was read for a call is still what was read for it, after the same  *)
(* moments.                                                                *)
LEMMA StillRead ==
    ASSUME NEW c, NEW d, SameMatter(c, d), d.pc = c.pc, d.proposal = c.proposal
    PROVE  /\ LeaveOf(d) = LeaveOf(c) /\ StartOf(d) = StartOf(c)
           /\ \A e : MayRequest(c, e) <=> MayRequest(d, e)
           /\ d.terms.policy = c.terms.policy => (PolicyRead(c) <=> PolicyRead(d))
           /\ d.terms.available = c.terms.available =>
                \A e, first : BalanceRead(c, e, first) <=> BalanceRead(d, e, first)
BY DEF SameMatter, LeaveOf, StartOf, Target, MayRequest, PolicyRead, BalanceRead

(* Promise.all of the two rows of a tool: it goes on, ends or waits.       *)
LEMMA AuthorizedTool ==
    ASSUME NEW c \in Calls, NEW k \in Checkpoints, NEW a, NEW r, NEW s,
           CallInv(c, k, a, r, s), Loading(c), c.outcome = "NONE",
           NEW x \in Tools, c.tools[x].step = "authorizing"
    PROVE  Authorized(c, x) \in Calls /\ CallInv(Authorized(c, x), k, a, r, s)
<1> DEFINE rows == c.tools[x]
           found == authorizeLeaveRead(c.actor, rows.actor, LeaveOf(c), rows.target)
           d == [c EXCEPT !.tools[x] =
                    [step |-> "reading", actor |-> Unread, target |-> Unread]]
<1>1. found \in {"EMPLOYEE_NOT_FOUND", "EMPLOYEE_INACTIVE", "AUTHORIZATION_DENIED", "FOUND"}
  BY DEF authorizeLeaveRead
<1>2. Authorized(c, x) = IF rows.actor = Unread \/ rows.target = Unread THEN c
                         ELSE IF found # "FOUND" THEN Unloaded(c, found) ELSE d
  BY DEF Authorized
<1>3. ASSUME found # "FOUND"
      PROVE  Unloaded(c, found) \in Calls /\ CallInv(Unloaded(c, found), k, a, r, s)
  <2>1. found \in Plain /\ c.pc \in LoadingAt
    BY <1>1, <1>3 DEF Plain, Outcomes, Loading, LoadingAt
  <2> HIDE DEF found
  <2> QED
    BY <2>1, UnloadsPlainly
<1>4. ASSUME found = "FOUND", rows.actor # Unread, rows.target # Unread
      PROVE  d \in Calls /\ CallInv(d, k, a, r, s)
  <2>1. \A y \in Tools : ToolRead(c, y)
    BY DEF CallInv, Loads
  <2>2. PICK one \in c.seen : rows.actor = one.tables.staff[c.actor]
    BY <1>4, <2>1 DEF ToolRead
  <2>3. /\ rows.target # NoRow /\ rows.actor.active /\ rows.target.active
        /\ rows.actor.role = "HR" \/ c.actor = LeaveOf(c)
    BY <1>4 DEF authorizeLeaveRead
  <2>4. LeaveOf(c) \in Employees
        /\ \E other \in c.seen : rows.target = other.tables.staff[LeaveOf(c)]
    BY <1>4, <2>1, <2>3 DEF ToolRead
  <2>5. MayRequest(c, LeaveOf(c))
    BY <2>2, <2>3, <2>4 DEF MayRequest
  <2>6. [step |-> "reading", actor |-> Unread, target |-> Unread] \in Reading
    BY DEF Reading
  <2> HIDE DEF rows, found
  <2>7. /\ d \in Calls /\ SameMatter(c, d) /\ d.pc = c.pc /\ d.trail = c.trail
        /\ d.proposal = c.proposal /\ d.notified = c.notified /\ d.outcome = c.outcome
        /\ d.terms = c.terms
        /\ d.tools = [c.tools EXCEPT ![x] =
                        [step |-> "reading", actor |-> Unread, target |-> Unread]]
    BY <2>6 DEF Calls, SameMatter
  <2> HIDE DEF d
  <2>8. /\ d.tools[x].step = "reading" /\ d.tools[x].actor = Unread
        /\ d.tools[x].target = Unread
        /\ \A y \in Tools \ {x} : d.tools[y] = c.tools[y]
    BY <2>7 DEF Calls
  <2>9. ASSUME NEW y \in Tools PROVE ToolRead(d, y)
    <3>1. CASE y = x
      BY <2>4, <2>5, <2>7, <2>8, <3>1, StillRead DEF ToolRead
    <3>2. CASE y # x
      <4>1. ToolRead(c, y) /\ d.tools[y] = c.tools[y]
        BY <2>1, <2>8, <3>2
      <4>2. d.seen = c.seen /\ d.actor = c.actor
        BY <2>7 DEF SameMatter
      <4> QED
        BY <2>7, <4>1, <4>2, StillRead DEF ToolRead
    <3> QED
      BY <3>1, <3>2
  <2> QED
    BY <2>7, <2>9, LoadsMore
<1> HIDE DEF d, found
<1> QED
  BY <1>2, <1>3, <1>4

(* Promise.all of the two tools.                                           *)
LEMMA LoadedAll ==
    ASSUME NEW c \in Calls, NEW k \in Checkpoints, NEW a, NEW r, NEW s,
           CallInv(c, k, a, r, s), Loading(c), c.outcome = "NONE"
    PROVE  Loaded(c) \in Calls /\ CallInv(Loaded(c), k, a, r, s)
<1> SUFFICES ASSUME \A x \in Tools : c.tools[x].step = "done"
             PROVE  Loaded(c) \in Calls /\ CallInv(Loaded(c), k, a, r, s)
  BY DEF Loaded
<1>1. \A x \in Tools : ToolRead(c, x)
  BY DEF CallInv, Loads
<1>2. /\ LeaveOf(c) \in Employees /\ MayRequest(c, LeaveOf(c)) /\ PolicyRead(c)
      /\ BalanceRead(c, LeaveOf(c), StartOf(c))
  BY <1>1 DEF ToolRead, Tools
<1>3. NothingRead \in [Tools -> Reading]
  BY DEF NothingRead, Reading
<1>4. CASE c.pc = "revalidation"
  <2> DEFINE d == [c EXCEPT !.pc = "submit", !.tools = NothingRead]
  <2>1. Loaded(c) = d
    BY <1>4 DEF Loaded
  <2>2. "submit" \in PCs
    BY DEF PCs
  <2> HIDE DEF NothingRead
  <2>3. /\ d \in Calls /\ SameMatter(c, d) /\ d.pc = "submit" /\ d.trail = c.trail
        /\ d.proposal = c.proposal /\ d.notified = c.notified /\ d.outcome = "NONE"
        /\ d.terms = c.terms /\ d.tools = NothingRead
    BY <1>3, <2>2 DEF Calls, SameMatter
  <2> HIDE DEF d
  <2>4. Decides(d, k, r)
    <3>1. LeaveOf(c) = c.proposal.employee /\ StartOf(c) = c.proposal.start
      BY <1>4 DEF LeaveOf, StartOf
    <3>2. /\ MayRequest(d, d.proposal.employee) /\ PolicyRead(d)
          /\ BalanceRead(d, d.proposal.employee, d.proposal.start)
      BY <1>2, <2>3, <3>1 DEF MayRequest, PolicyRead, BalanceRead, SameMatter
    <3> QED
      BY <1>4, <2>3, <3>2 DEF CallInv, Decides, SameMatter
  <2>5. Onboards(d) /\ Notifies(d) /\ Loads(d)
    BY <2>3, NothingLoaded DEF CallInv, Onboards, Notifies, Behind, SameMatter
  <2>6. CallInv(d, k, a, r, s)
    BY <1>4, <2>3, <2>4, <2>5, Proceeds DEF AtWork
  <2> QED
    BY <2>1, <2>3, <2>6
<1>5. CASE c.pc = "parallel_leave_context" /\ c.intent # NoIntent
  <2> DEFINE e == Go(c, "leave_proposal_calculation")
             d == [e EXCEPT !.tools = NothingRead]
  <2>1. Loaded(c) = d
    BY <1>5 DEF Loaded
  <2>2. /\ e \in Calls /\ SameTurn(c, e) /\ e.pc = "leave_proposal_calculation"
        /\ e.trail = c.trail \cup {"leave_proposal_calculation"} /\ e.outcome = "NONE"
    BY GoShape DEF Nodes
  <2> HIDE DEF e, NothingRead
  <2>3. /\ d \in Calls /\ SameMatter(c, d) /\ d.pc = "leave_proposal_calculation"
        /\ d.trail = c.trail \cup {"leave_proposal_calculation"} /\ d.outcome = "NONE"
        /\ d.proposal = c.proposal /\ d.notified = c.notified /\ d.tools = NothingRead
    BY <1>3, <2>2 DEF Calls, SameTurn, SameMatter
  <2> HIDE DEF d
  <2>4. Target(d) \in Employees
    BY <1>2, <1>5, <2>3 DEF LeaveOf, Target, SameMatter
  <2>5. Decides(d, k, r)
    BY <1>5, <2>3, <2>4 DEF CallInv, Decides, SameMatter
  <2>6. Onboards(d) /\ Notifies(d) /\ Loads(d)
    BY <2>3, NothingLoaded DEF CallInv, Onboards, Notifies, Behind, SameMatter
  <2>7. CallInv(d, k, a, r, s)
    BY <1>5, <2>3, <2>5, <2>6, Proceeds DEF AtWork, Nodes
  <2> QED
    BY <2>1, <2>3, <2>7
<1> QED
  BY <1>4, <1>5 DEF Loading

(* Where a call loads, and what is known of it there.                      *)
LEMMA AtLoading ==
    ASSUME IInv, NEW t \in Threads, Loading(call[t])
    PROVE  /\ call[t] \in Calls /\ checkpoint[t] \in Checkpoints
           /\ CallInv(call[t], checkpoint[t], auditOwner[t], request[t], Now)
           /\ call[t].outcome = "NONE" /\ call[t].actor \in Employees
           /\ Now \in call[t].seen /\ \A x \in Tools : ToolRead(call[t], x)
<1>1. call[t].pc \in {"parallel_leave_context", "revalidation"}
  BY DEF Loading
<1>2. /\ call[t] \in Calls /\ checkpoint[t] \in Checkpoints
      /\ CallInv(call[t], checkpoint[t], auditOwner[t], request[t], Now)
      /\ call[t].outcome = "NONE"
  BY <1>1, OfThread, Unsettled
<1> QED
  BY <1>1, <1>2 DEF CallInv, Owned, Running, Nodes, Loads

(* One row for one of the tools.                                           *)
LEMMA RowIsRead ==
    ASSUME IInv, NEW t \in Threads, Loading(call[t]), NEW x \in Tools,
           call[t].tools[x].step = "authorizing",
           NEW field \in {"actor", "target"}, NEW rows \in Reading,
           rows = [call[t].tools[x] EXCEPT ![field] = findByEmployeeCode(
                        IF field = "actor" THEN call[t].actor ELSE LeaveOf(call[t]))],
           Become(t, Authorized([call[t] EXCEPT !.tools[x] = rows], x)),
           UNCHANGED <<world, checkpoint, auditOwner, request, calls>>
    PROVE  IInv'
<1> DEFINE c == call[t]
           d == [c EXCEPT !.tools[x] = rows]
<1>1. /\ c \in Calls /\ checkpoint[t] \in Checkpoints
      /\ CallInv(c, checkpoint[t], auditOwner[t], request[t], Now)
      /\ c.outcome = "NONE" /\ c.actor \in Employees /\ Now \in c.seen
      /\ \A y \in Tools : ToolRead(c, y)
  BY AtLoading
<1>2. \A code \in Employees : findByEmployeeCode(code) = Now.tables.staff[code]
  BY World DEF findByEmployeeCode
<1>3. /\ rows.step = "authorizing"
      /\ rows.actor = IF field = "actor" THEN findByEmployeeCode(c.actor)
                      ELSE c.tools[x].actor
      /\ rows.target = IF field = "target" THEN findByEmployeeCode(LeaveOf(c))
                       ELSE c.tools[x].target
  <2>1. c.tools[x] \in Reading
    BY <1>1 DEF Calls
  <2> QED
    BY <2>1 DEF Reading
<1>4. Become(t, Authorized(d, x))
  OBVIOUS
<1> HIDE DEF c
<1>5. /\ d \in Calls /\ SameMatter(c, d) /\ d.pc = c.pc /\ d.trail = c.trail
      /\ d.proposal = c.proposal /\ d.notified = c.notified /\ d.outcome = c.outcome
      /\ d.terms = c.terms /\ d.tools[x] = rows
      /\ \A y \in Tools \ {x} : d.tools[y] = c.tools[y]
  BY <1>1 DEF Calls, SameMatter
<1> HIDE DEF d
<1>6. d.seen = c.seen /\ d.actor = c.actor
  BY <1>5 DEF SameMatter
<1>7. ASSUME NEW y \in Tools PROVE ToolRead(d, y)
  <2>1. ToolRead(c, y)
    BY <1>1
  <2>2. CASE y = x
    <3>1. rows.actor # Unread => \E s \in d.seen : rows.actor = s.tables.staff[d.actor]
      BY <1>1, <1>2, <1>3, <1>6, <2>1, <2>2 DEF ToolRead
    <3>2. rows.target # Unread =>
            IF LeaveOf(c) \in Employees
            THEN \E s \in d.seen : rows.target = s.tables.staff[LeaveOf(c)]
            ELSE rows.target = NoRow
      BY <1>1, <1>2, <1>3, <1>6, <2>1, <2>2 DEF ToolRead, findByEmployeeCode
    <3> QED
      BY <1>3, <1>5, <2>2, <3>1, <3>2, StillRead DEF ToolRead
  <2>3. CASE y # x
    <3>1. d.tools[y] = c.tools[y]
      BY <1>5, <2>3
    <3> QED
      BY <1>5, <1>6, <2>1, <3>1, StillRead DEF ToolRead
  <2> QED
    BY <2>2, <2>3
<1>8. CallInv(d, checkpoint[t], auditOwner[t], request[t], Now) /\ Loading(d)
  BY <1>1, <1>5, <1>7, LoadsMore DEF c
<1>9. /\ Authorized(d, x) \in Calls
      /\ CallInv(Authorized(d, x), checkpoint[t], auditOwner[t], request[t], Now)
  BY <1>1, <1>3, <1>5, <1>8, AuthorizedTool
<1> QED
  BY <1>4, <1>9, AtNode

LEMMA ReadRowStep ==
    ASSUME IInv, NEW t \in Threads, NEW x \in Tools, ReadRow(t, x)
    PROVE  IInv'
<1> DEFINE c == call[t]
<1>1. /\ Loading(c) /\ c.tools[x].step = "authorizing"
      /\ UNCHANGED <<world, checkpoint, auditOwner, request, calls>>
  BY DEF ReadRow
<1>2. c \in Calls /\ c.tools[x] \in Reading /\ c.tools \in [Tools -> Reading]
  BY <1>1, AtLoading DEF Calls
<1>3. \A code : findByEmployeeCode(code) \in Row \cup {NoRow, Unread}
  BY World DEF findByEmployeeCode, Staff
<1>4. ASSUME Become(t, Authorized([c EXCEPT !.tools[x].actor =
                                        findByEmployeeCode(c.actor)], x))
      PROVE  IInv'
  <2> DEFINE rows == [c.tools[x] EXCEPT !["actor"] = findByEmployeeCode(c.actor)]
  <2>1. rows \in Reading
    BY <1>2, <1>3 DEF Reading
  <2>2. [c EXCEPT !.tools[x].actor = findByEmployeeCode(c.actor)] = [c EXCEPT !.tools[x] = rows]
    BY <1>2 DEF Calls
  <2> HIDE DEF c
  <2> QED
    BY <1>1, <1>4, <2>1, <2>2, RowIsRead DEF c
<1>5. ASSUME Become(t, Authorized([c EXCEPT !.tools[x].target =
                                        findByEmployeeCode(LeaveOf(c))], x))
      PROVE  IInv'
  <2> DEFINE rows == [c.tools[x] EXCEPT !["target"] = findByEmployeeCode(LeaveOf(c))]
  <2>1. rows \in Reading
    BY <1>2, <1>3 DEF Reading
  <2>2. [c EXCEPT !.tools[x].target = findByEmployeeCode(LeaveOf(c))]
            = [c EXCEPT !.tools[x] = rows]
    BY <1>2 DEF Calls
  <2> HIDE DEF c
  <2> QED
    BY <1>1, <1>5, <2>1, <2>2, RowIsRead DEF c
<1> QED
  BY <1>4, <1>5 DEF ReadRow

(* A tool has made its last read.                                          *)
Done(c, x, terms) ==
    [c EXCEPT !.tools = [c.tools EXCEPT ![x] = [c.tools[x] EXCEPT !.step = "done"]],
              !.terms = terms]

LEMMA ToolIsDone ==
    ASSUME NEW c \in Calls, NEW x \in Tools, NEW terms \in Terms,
           NEW d, d = Done(c, x, terms)
    PROVE  /\ d \in Calls /\ SameMatter(c, d) /\ d.pc = c.pc /\ d.trail = c.trail
           /\ d.proposal = c.proposal /\ d.notified = c.notified
           /\ d.outcome = c.outcome /\ d.terms = terms
           /\ d.tools[x].step = "done" /\ d.tools[x].actor = c.tools[x].actor
           /\ d.tools[x].target = c.tools[x].target
           /\ \A y \in Tools \ {x} : d.tools[y] = c.tools[y]
<1> DEFINE rows == [c.tools[x] EXCEPT !.step = "done"]
           tools == [c.tools EXCEPT ![x] = rows]
<1>1. c.tools \in [Tools -> Reading] /\ c.tools[x] \in Reading
  BY DEF Calls
<1>2. /\ rows \in Reading /\ rows.step = "done" /\ rows.actor = c.tools[x].actor
      /\ rows.target = c.tools[x].target
  BY <1>1 DEF Reading
<1>5. d = [c EXCEPT !.tools = tools, !.terms = terms]
  BY DEF Done
<1> HIDE DEF rows
<1>3. /\ tools \in [Tools -> Reading] /\ tools[x] = rows
      /\ \A y \in Tools \ {x} : tools[y] = c.tools[y]
  BY <1>1, <1>2
<1> HIDE DEF tools
<1>4. /\ d \in Calls /\ SameMatter(c, d) /\ d.pc = c.pc /\ d.trail = c.trail
      /\ d.proposal = c.proposal /\ d.notified = c.notified /\ d.outcome = c.outcome
      /\ d.terms = terms /\ d.tools = tools
  BY <1>3, <1>5 DEF Calls, SameMatter
<1> QED
  BY <1>2, <1>3, <1>4

(* The last read of a tool.                                                *)
LEMMA TermsAreRead ==
    ASSUME IInv, NEW t \in Threads, NEW c, c = call[t], Loading(c), NEW x \in Tools,
           c.tools[x].step = "reading", NEW terms \in Terms,
           x = "policy" => terms.policy = policy
                           /\ terms.available = c.terms.available,
           x = "balance" => /\ terms.policy = c.terms.policy
                            /\ terms.available = balance[LeaveOf(c)][YearOf(StartOf(c))]
                            /\ terms.available # NoBalance,
           NEW d \in Calls, SameMatter(c, d), d.pc = c.pc, d.trail = c.trail,
           d.proposal = c.proposal, d.notified = c.notified, d.outcome = c.outcome,
           d.terms = terms, d.tools[x].step = "done",
           d.tools[x].actor = c.tools[x].actor, d.tools[x].target = c.tools[x].target,
           \A y \in Tools \ {x} : d.tools[y] = c.tools[y],
           Become(t, Loaded(d)),
           UNCHANGED <<world, checkpoint, auditOwner, request, calls>>
    PROVE  IInv'
<1>1. /\ c \in Calls /\ checkpoint[t] \in Checkpoints
      /\ CallInv(c, checkpoint[t], auditOwner[t], request[t], Now)
      /\ c.outcome = "NONE" /\ Now \in c.seen /\ \A y \in Tools : ToolRead(c, y)
  BY AtLoading
<1>2. /\ d.seen = c.seen /\ d.actor = c.actor
      /\ LeaveOf(d) = LeaveOf(c) /\ StartOf(d) = StartOf(c)
      /\ \A e : MayRequest(c, e) <=> MayRequest(d, e)
  <2>2. d.seen = c.seen /\ d.actor = c.actor
    BY DEF SameMatter
  <2>3. /\ LeaveOf(d) = LeaveOf(c) /\ StartOf(d) = StartOf(c)
        /\ \A e : MayRequest(c, e) <=> MayRequest(d, e)
    BY StillRead
  <2> QED
    BY <2>2, <2>3
<1>3. x = "policy" => PolicyRead(d)
  BY <1>1, <1>2, World DEF PolicyRead, policy
<1>4. x = "balance" => BalanceRead(d, LeaveOf(d), StartOf(d))
  BY <1>1, <1>2, World DEF BalanceRead, balance
<1>5. ToolRead(d, x)
  BY <1>1, <1>2, <1>3, <1>4 DEF ToolRead
<1>6. ASSUME NEW y \in Tools \ {x} PROVE ToolRead(d, y)
  <2>1. ToolRead(c, y) /\ d.tools[y] = c.tools[y]
    BY <1>1
  <2>2. y = "policy" => d.terms.policy = c.terms.policy
    BY DEF Tools
  <2>3. y = "balance" => d.terms.available = c.terms.available
    BY DEF Tools
  <2>4. y = "policy" => (PolicyRead(c) <=> PolicyRead(d))
    BY <1>2, <2>2 DEF PolicyRead
  <2>5. y = "balance" =>
            (BalanceRead(c, LeaveOf(c), StartOf(c)) <=> BalanceRead(d, LeaveOf(d), StartOf(d)))
    BY <1>2, <2>3 DEF BalanceRead
  <2> QED
    BY <1>2, <2>1, <2>4, <2>5 DEF ToolRead
<1>7. CallInv(d, checkpoint[t], auditOwner[t], request[t], Now) /\ Loading(d)
  <2>1. \A y \in Tools : ToolRead(d, y)
    BY <1>5, <1>6
  <2> QED
    BY <1>1, <2>1, LoadsMore
<1>8. /\ Loaded(d) \in Calls
       /\ CallInv(Loaded(d), checkpoint[t], auditOwner[t], request[t], Now)
  BY <1>1, <1>7, LoadedAll
<1> QED
  BY <1>8, AtNode

LEMMA ReadPolicyStep ==
    ASSUME IInv, NEW t \in Threads, ReadPolicy(t)
    PROVE  IInv'
<1> DEFINE c == call[t]
           terms == [c.terms EXCEPT !.policy = policy]
           d == Done(c, "policy", terms)
<1>1. /\ Loading(c) /\ c.tools["policy"].step = "reading"
      /\ UNCHANGED <<world, checkpoint, auditOwner, request, calls>>
  BY DEF ReadPolicy
<1>2. c \in Calls /\ c.terms \in Terms
  BY <1>1, AtLoading DEF Calls
<1>3. terms \in Terms /\ terms.policy = policy /\ terms.available = c.terms.available
  BY <1>2, World DEF Terms
<1>4. d = [c EXCEPT !.tools["policy"].step = "done", !.terms.policy = policy]
  BY <1>2 DEF Calls, Done
<1>5. Become(t, Loaded(d))
  BY <1>4 DEF ReadPolicy
<1>6. "policy" \in Tools
  BY DEF Tools
<1> HIDE DEF terms
<1>7. /\ d \in Calls /\ SameMatter(c, d) /\ d.pc = c.pc /\ d.trail = c.trail
      /\ d.proposal = c.proposal /\ d.notified = c.notified
      /\ d.outcome = c.outcome /\ d.terms = terms
      /\ d.tools["policy"].step = "done"
      /\ d.tools["policy"].actor = c.tools["policy"].actor
      /\ d.tools["policy"].target = c.tools["policy"].target
      /\ \A y \in Tools \ {"policy"} : d.tools[y] = c.tools[y]
  <2>1. d = Done(c, "policy", terms)
    OBVIOUS
  <2> HIDE DEF d, c
  <2> QED
    BY <1>2, <1>3, <1>6, <2>1, ToolIsDone
<1>8. c = call[t]
  OBVIOUS
<1> HIDE DEF d, c
<1> QED
  BY <1>1, <1>3, <1>5, <1>6, <1>7, <1>8, TermsAreRead

LEMMA ReadBalanceStep ==
    ASSUME IInv, NEW t \in Threads, ReadBalance(t)
    PROVE  IInv'
<1> DEFINE c == call[t]
           available == balance[LeaveOf(c)][YearOf(StartOf(c))]
           terms == [c.terms EXCEPT !.available = available]
           d == Done(c, "balance", terms)
<1>1. /\ Loading(c) /\ c.tools["balance"].step = "reading" /\ "balance" \in Tools
      /\ UNCHANGED <<world, checkpoint, auditOwner, request, calls>>
  BY DEF ReadBalance, Tools
<1>2. c \in Calls /\ c.terms \in Terms /\ ToolRead(c, "balance")
  BY <1>1, AtLoading DEF Calls
<1>3. CASE available = NoBalance /\ Become(t, Unloaded(c, "LEAVE_BALANCE_NOT_FOUND"))
  BY <1>1, <1>3, UnloadsAt DEF Plain, Outcomes, Loading, LoadingAt
<1>4. CASE available # NoBalance /\ Become(t, Loaded(d))
  <2>1. LeaveOf(c) \in Employees
    BY <1>1, <1>2 DEF ToolRead
  <2>2. balance[LeaveOf(c)] \in [1 .. 2 -> Int \cup {NoBalance}]
    BY <2>1, World
  <2>3. YearOf(StartOf(c)) \in 1 .. 2
    BY DEF YearOf
  <2>4. available \in Int
    BY <1>4, <2>2, <2>3
  <2> HIDE DEF available
  <2>5. terms \in Terms /\ terms.policy = c.terms.policy /\ terms.available = available
    BY <1>2, <2>4 DEF Terms
  <2>6. Become(t, Loaded(d))
    BY <1>4
  <2> HIDE DEF terms
  <2>7. /\ d \in Calls /\ SameMatter(c, d) /\ d.pc = c.pc /\ d.trail = c.trail
        /\ d.proposal = c.proposal /\ d.notified = c.notified
        /\ d.outcome = c.outcome /\ d.terms = terms
        /\ d.tools["balance"].step = "done"
        /\ d.tools["balance"].actor = c.tools["balance"].actor
        /\ d.tools["balance"].target = c.tools["balance"].target
        /\ \A y \in Tools \ {"balance"} : d.tools[y] = c.tools[y]
    <3>1. d = Done(c, "balance", terms)
      OBVIOUS
    <3> HIDE DEF d, c
    <3> QED
      BY <1>1, <1>2, <2>5, <3>1, ToolIsDone
  <2>8. c = call[t]
    OBVIOUS
  <2> HIDE DEF d, c
  <2>9. terms.available = balance[LeaveOf(c)][YearOf(StartOf(c))] /\ terms.available # NoBalance
    BY <1>4, <2>5 DEF available
  <2> QED
    BY <1>1, <2>5, <2>6, <2>7, <2>8, <2>9, TermsAreRead
<1>5. d = [c EXCEPT !.tools["balance"].step = "done", !.terms.available = available]
  BY <1>2 DEF Calls, Done
<1> QED
  BY <1>3, <1>4, <1>5 DEF ReadBalance

LEMMA LoadingFailsStep ==
    ASSUME IInv, NEW t \in Threads, LoadingFails(t)
    PROVE  IInv'
<1>1. call[t].pc \in LoadingAt
  BY DEF LoadingFails, LoadingAt
<1> QED
  BY <1>1, UnloadsAt DEF LoadingFails, Plain, Outcomes

(* A proposal that is within the policy is shown.                          *)
LEMMA Proposes ==
    ASSUME IInv, NEW t \in Threads, call[t].pc = "leave_proposal_calculation",
           call[t].intent # NoIntent,
           validRange(call[t].intent.start, call[t].intent.end),
           Become(t, [Go(call[t], "leave_approval") EXCEPT !.proposal =
                [employee |-> Target(call[t]), start |-> call[t].intent.start,
                 end |-> call[t].intent.end,
                 days |-> countWorkingDays(call[t].intent.start, call[t].intent.end)]]),
           UNCHANGED <<world, checkpoint, auditOwner, request, calls>>
    PROVE  IInv'
<1> DEFINE c == call[t]
           start == c.intent.start
           end == c.intent.end
           days == countWorkingDays(start, end)
           p == [employee |-> Target(c), start |-> start, end |-> end, days |-> days]
           e == Go(c, "leave_approval")
           d == [e EXCEPT !.proposal = p]
<1>1. /\ c \in Calls /\ checkpoint[t] \in Checkpoints
      /\ CallInv(c, checkpoint[t], auditOwner[t], request[t], Now) /\ c.outcome = "NONE"
  BY OfThread, Unsettled
<1>2. Target(c) \in Employees /\ NoDay \notin {start, end} /\ c.tools = NothingRead
  BY <1>1 DEF CallInv, Decides, Loads, LoadingAt
<1>3. c.decision = "NONE"
  BY <1>2, DecisionsNameNoDates
<1>4. start \in Days /\ end \in Days /\ start \in Nat /\ end \in Nat
  <2>1. start \in Nat /\ end \in Nat
    BY DEF validRange
  <2>2. c.intent \in Intent
    BY <1>1 DEF Calls
  <2>3. start \in Dates \cup {NoDay} /\ end \in Dates \cup {NoDay}
    BY <2>2 DEF Intent
  <2> QED
    BY <2>1, <2>3, RulesAssumption DEF Dates
<1>5. days \in Nat /\ days = WorkingDaysFrom(start, end)
  BY <1>4, DaysCounted
<1> HIDE DEF days, start, end
<1>6. p \in Proposals /\ p # NoProposal /\ Counted(p)
  BY <1>2, <1>4, <1>5, ConversationAssumption DEF Proposals, Counted
<1>7. /\ e \in Calls /\ SameTurn(c, e) /\ e.pc = "leave_approval"
      /\ e.trail = c.trail \cup {"leave_approval"} /\ e.outcome = c.outcome
      /\ e.tools = c.tools
  BY <1>1, GoShape DEF Nodes
<1>8. Become(t, d)
  BY DEF days, start, end
<1> HIDE DEF e, p, c
<1>9. /\ d \in Calls /\ SameMatter(c, d) /\ d.pc = "leave_approval" /\ d.outcome = "NONE"
      /\ d.trail = c.trail \cup {"leave_approval"} /\ d.proposal = p
      /\ d.notified = c.notified /\ d.tools = c.tools
  BY <1>1, <1>6, <1>7 DEF Calls, SameTurn, SameMatter
<1> HIDE DEF d
<1>10. Decides(d, checkpoint[t], request[t])
  BY <1>3, <1>6, <1>9 DEF Decides, SameMatter
<1>11. Onboards(d) /\ Notifies(d) /\ Loads(d)
  BY <1>1, <1>2, <1>9, NothingLoaded DEF CallInv, Onboards, Notifies, Behind, SameMatter
<1>12. CallInv(d, checkpoint[t], auditOwner[t], request[t], Now)
  BY <1>1, <1>9, <1>10, <1>11, Proceeds DEF Nodes, AtWork, c
<1> QED
  BY <1>8, <1>9, <1>12, AtNode

LEMMA LeaveProposalStep ==
    ASSUME IInv, NEW t \in Threads, LeaveProposal(t)
    PROVE  IInv'
<1> DEFINE c == call[t]
           i == c.intent
<1>1. /\ c.pc = "leave_proposal_calculation" /\ c.pc \in Nodes
      /\ c.pc \in AtWork \ LoadingAt /\ UNCHANGED <<world, calls>>
  BY DEF LeaveProposal, Nodes, AtWork, LoadingAt
<1>2. CASE /\ i # NoIntent /\ Become(t, Proposed(c))
           /\ UNCHANGED <<checkpoint, auditOwner, request>>
  <2>1. CASE ~validRange(i.start, i.end)
    <3>1. Become(t, Respond(c, "INVALID_LEAVE_DATES"))
      BY <1>2, <2>1 DEF Proposed
    <3> QED
      BY <1>1, <1>2, <3>1, RespondsAt DEF Plain, Outcomes
  <2>2. CASE /\ validRange(i.start, i.end)
             /\ ~eligible(today, i.start, i.end, c.terms.policy, c.terms.available)
    <3>1. Become(t, Respond(c, "COMPLETED"))
      BY <1>2, <2>2 DEF Proposed
    <3> QED
      BY <1>1, <1>2, <3>1, RespondsAt DEF Plain, Outcomes
  <2>3. CASE /\ validRange(i.start, i.end)
             /\ eligible(today, i.start, i.end, c.terms.policy, c.terms.available)
    <3>1. Become(t, [Go(c, "leave_approval") EXCEPT !.proposal =
                [employee |-> Target(c), start |-> i.start, end |-> i.end,
                 days |-> countWorkingDays(i.start, i.end)]])
      BY <1>2, <2>3 DEF Proposed
    <3> QED
      BY <1>1, <1>2, <2>3, <3>1, Proposes
  <2> QED
    BY <2>1, <2>2, <2>3
<1>3. CASE Throw(t)
  BY <1>1, <1>3, Throws DEF Running
<1> QED
  BY <1>2, <1>3 DEF LeaveProposal

(* The checkpoint of a run at a node, when its proposal is kept there.     *)
LEMMA Saved ==
    ASSUME NEW c \in Calls, c.actor \in Employees, NEW node \in Nodes,
           NEW proposal, NEW pending \in Intent, NEW origin \in Query,
           node = "leave_approval" =>
                proposal = c.proposal /\ c.proposal # NoProposal /\ Counted(c.proposal),
           node # "leave_approval" => proposal = NoProposal,
           PendingOf(pending, origin)
    PROVE  LET k == [owner |-> c.actor, at |-> node, proposal |-> proposal,
                     pending |-> pending, origin |-> origin]
           IN  k \in Checkpoints /\ Kept(k)
<1>1. proposal \in Proposals \cup {NoProposal} /\ Counted(proposal)
  BY DEF Calls, Counted
<1> QED
  BY <1>1 DEF Checkpoints, Kept

LEMMA InterruptStep ==
    ASSUME IInv, NEW t \in Threads, Interrupt(t)
    PROVE  IInv'
<1> DEFINE c == call[t]
           d == [c EXCEPT !.pc = "interrupted"]
           k == [owner |-> c.actor, at |-> "leave_approval", proposal |-> c.proposal,
                 pending |-> c.pending, origin |-> c.origin]
<1>1. /\ c.pc = "leave_approval" /\ c.decision = "NONE"
      /\ UNCHANGED <<world, auditOwner, request, calls>>
  BY DEF Interrupt
<1>2. /\ call' = [call EXCEPT ![t] = d] /\ checkpoint' = [checkpoint EXCEPT ![t] = k]
      /\ auditOwner' = [auditOwner EXCEPT ![t] = auditOwner[t]]
      /\ request' = [request EXCEPT ![t] = request[t]]
  BY DEF Interrupt, Become, Save, IInv, TypeOK
<1>3. /\ c \in Calls /\ CallInv(c, checkpoint[t], auditOwner[t], request[t], Now)
      /\ c.outcome = "NONE"
  BY <1>1, OfThread, Unsettled
<1>4. /\ c.actor \in Employees /\ PendingOf(c.pending, c.origin)
      /\ c.proposal # NoProposal /\ Counted(c.proposal) /\ c.tools = NothingRead
  BY <1>1, <1>3 DEF CallInv, Owned, Entered, Decides, Loads, LoadingAt, Running, Nodes
<1> HIDE DEF c
<1>5. /\ d \in Calls /\ SameTurn(c, d) /\ d.pc = "interrupted" /\ d.trail = c.trail
      /\ d.outcome = c.outcome /\ d.tools = c.tools
  <2>1. "interrupted" \in PCs
    BY DEF PCs
  <2> QED
    BY <1>3, <2>1 DEF Calls, SameTurn
<1>6. k \in Checkpoints /\ Kept(k)
  <2>1. c.pending \in Intent /\ c.origin \in Query
    BY <1>3 DEF Calls
  <2> QED
    BY <1>3, <1>4, <2>1, Saved DEF Nodes
<1>7. k.owner = c.actor
  OBVIOUS
<1> HIDE DEF d, k
<1>8. Entered(d, k) /\ Owned(d, k, auditOwner[t]) /\ Recorded(d, auditOwner[t])
  BY <1>1, <1>3, <1>5, <1>7 DEF CallInv, Entered, Owned, Recorded, SameTurn, Running, Nodes, c
<1>9. Named(d) /\ Asked(d) /\ Notifies(d)
  BY <1>3, <1>5 DEF CallInv, Named, Asked, Notifies, Behind, SameTurn
<1>10. Onboards(d) /\ Loads(d) /\ Decides(d, k, request[t])
  BY <1>3, <1>4, <1>5, NothingLoaded DEF CallInv, Onboards, Decides, SameTurn
<1>11. DecisionTrue(d, request[t])
  BY <1>3, <1>5 DEF DecisionTrue
<1>12. Now \in d.seen
  BY <1>1, <1>3, <1>5 DEF CallInv, SameTurn, c
<1>13. CallInv(d, k, auditOwner[t], request[t], Now)
  BY <1>6, <1>8, <1>9, <1>10, <1>11, <1>12 DEF CallInv
<1> QED
  BY <1>1, <1>2, <1>5, <1>6, <1>13, OfThread, OnThread, Counters DEF world

LEMMA AwaitApprovalStep ==
    ASSUME IInv, NEW t \in Threads, AwaitApproval(t)
    PROVE  IInv'
<1>1. /\ call[t].pc = "interrupted" /\ RecordAndAnswer(t, "LEAVE_APPROVAL_REQUIRED")
      /\ UNCHANGED <<world, calls>>
  BY DEF AwaitApproval
<1>2. call[t].actor \in Employees /\ call[t].pc \in Running
  BY <1>1, OfThread DEF CallInv, Owned, Running
<1>3. "LEAVE_APPROVAL_REQUIRED" \in Outcomes \ {"NONE"}
  BY DEF Outcomes
<1>4. \A d : SameTurn(call[t], d) /\ d.outcome = "LEAVE_APPROVAL_REQUIRED" =>
            DecisionTrue(d, request[t])
  BY DEF DecisionTrue
<1> QED
  BY <1>1, <1>2, <1>3, <1>4, Records

LEMMA RejectStep ==
    ASSUME IInv, NEW t \in Threads, Reject(t)
    PROVE  IInv'
<1> DEFINE d == Respond(call[t], "LEAVE_REQUEST_REJECTED")
<1>1. /\ call[t].pc = "leave_approval" /\ call[t].decision # "NONE" /\ Become(t, d)
      /\ UNCHANGED <<world, checkpoint, auditOwner, request, calls>>
  BY DEF Reject
<1>2. request[t] = NoRequest
  BY <1>1, OfThread DEF CallInv, Decides
<1>3. "LEAVE_REQUEST_REJECTED" \in Outcomes \ {"NONE"}
  BY DEF Outcomes
<1>4. DecisionTrue(d, request[t])
  <2>1. d.outcome = "LEAVE_REQUEST_REJECTED"
    BY <1>3, OfThread, RespondShape
  <2> QED
    BY <1>2, <2>1 DEF DecisionTrue
<1>5. d \in Calls /\ CallInv(d, checkpoint[t], auditOwner[t], request[t], Now)
  BY <1>1, <1>3, <1>4, OfThread, Responds DEF Nodes, AtWork, LoadingAt
<1> QED
  BY <1>1, <1>5, AtNode

(* An approval is to be revalidated: everything is read again.             *)
LEMMA ApproveStep ==
    ASSUME IInv, NEW t \in Threads, Approve(t)
    PROVE  IInv'
<1> DEFINE c == call[t]
           d == [c EXCEPT !.pc = "revalidation"]
<1>1. /\ c.pc = "leave_approval" /\ c.pc \in Nodes /\ c.decision = "APPROVE"
      /\ c.pc \in AtWork \ LoadingAt /\ UNCHANGED <<world, calls>>
  BY DEF Approve, Nodes, AtWork, LoadingAt
<1>2. CASE Become(t, d) /\ UNCHANGED <<checkpoint, auditOwner, request>>
  <2>1. /\ c \in Calls /\ checkpoint[t] \in Checkpoints /\ c.outcome = "NONE"
        /\ CallInv(c, checkpoint[t], auditOwner[t], request[t], Now)
    BY <1>1, OfThread, Unsettled
  <2>2. c.tools = NothingRead
    BY <1>1, <2>1 DEF CallInv, Loads, LoadingAt
  <2>3. "revalidation" \in PCs /\ "revalidation" \in AtWork
    BY DEF PCs, AtWork
  <2>4. Become(t, d)
    BY <1>2
  <2> HIDE DEF c
  <2>5. /\ d \in Calls /\ SameMatter(c, d) /\ d.pc = "revalidation" /\ d.outcome = "NONE"
        /\ d.trail = c.trail /\ d.notified = c.notified /\ d.proposal = c.proposal
        /\ d.tools = c.tools
    BY <2>1, <2>3 DEF Calls, SameMatter
  <2> HIDE DEF d
  <2>6. Decides(d, checkpoint[t], request[t])
    BY <1>1, <2>1, <2>5 DEF CallInv, Decides, SameMatter, c
  <2>7. Onboards(d) /\ Notifies(d) /\ Loads(d)
    BY <2>1, <2>2, <2>5, NothingLoaded DEF CallInv, Onboards, Notifies, Behind, SameMatter
  <2>8. CallInv(d, checkpoint[t], auditOwner[t], request[t], Now)
    BY <1>1, <2>1, <2>3, <2>5, <2>6, <2>7, Proceeds DEF c
  <2> QED
    BY <1>1, <1>2, <2>4, <2>5, <2>8, AtNode
<1>3. CASE /\ Become(t, Respond(c, "EMPLOYEE_NOT_FOUND"))
           /\ UNCHANGED <<checkpoint, auditOwner, request>>
  BY <1>1, <1>3, RespondsAt DEF Plain, Outcomes
<1>4. CASE Throw(t)
  BY <1>1, <1>4, Throws DEF Running
<1> QED
  BY <1>2, <1>3, <1>4 DEF Approve

(* Eligible by the code is within the policy by the reference.             *)
LEMMA EligibleIsWithinPolicy ==
    ASSUME NEW now \in Nat, NEW start \in Nat, NEW end \in Nat,
           NEW terms \in Policy, NEW available,
           eligible(now, start, end, terms, available)
    PROVE  WithinPolicy(now, start, end, terms, available)
<1>1. countWorkingDays(start, end) = WorkingDaysFrom(start, end)
  <2>1. end \in Int /\ end >= -1
    OBVIOUS
  <2> QED
    BY <2>1, DaysCounted
<1>2. /\ countWorkingDays(now + 1, start - 1) = WorkingDaysFrom(now + 1, start - 1)
      /\ countWorkingDays(now + 1, start - 1) \in Nat
  <2>1. now + 1 \in Nat /\ start - 1 \in Int /\ start - 1 >= -1
    OBVIOUS
  <2> QED
    BY <2>1, DaysCounted
<1>3. terms.notice \in Nat
  BY DEF Policy
<1>4. /\ countWorkingDays(now + 1, start - 1) >= terms.notice
      /\ countWorkingDays(start, end) <= terms.maximum
      /\ countWorkingDays(start, end) <= available
  BY DEF eligible, noticeWorkingDays
<1>5. terms.notice <= countWorkingDays(now + 1, start - 1)
  BY <1>2, <1>3, <1>4
<1> QED
  BY <1>1, <1>2, <1>4, <1>5 DEF WithinPolicy

LEMMA SubmitStep ==
    ASSUME IInv, NEW t \in Threads, Submit(t)
    PROVE  IInv'
<1> DEFINE c == call[t]
           p == c.proposal
<1>1. c.pc = "submit" /\ UNCHANGED <<world, calls>>
  BY DEF Submit
<1>2. /\ c \in Calls /\ checkpoint[t] \in Checkpoints
      /\ CallInv(c, checkpoint[t], auditOwner[t], request[t], Now)
  BY OfThread
<1>3. /\ request[t] = NoRequest /\ p # NoProposal /\ Now \in c.seen
      /\ c.actor \in Employees
      /\ MayRequest(c, p.employee) /\ PolicyRead(c) /\ BalanceRead(c, p.employee, p.start)
  BY <1>1, <1>2 DEF CallInv, Decides, Owned, Running
<1>4. p \in Proposals /\ p.start \in Nat /\ p.end \in Nat
  <2>1. p \in Proposals
    BY <1>2, <1>3 DEF Calls
  <2> QED
    BY <2>1, RulesAssumption DEF Proposals
<1>5. CASE /\ StillEligible(c) /\ submitApproved(t) /\ Become(t, Respond(c, "SUBMITTED"))
           /\ UNCHANGED <<checkpoint, auditOwner>>
  <2> DEFINE d == Respond(c, "SUBMITTED")
             r == [proposal |-> p, by |-> c.actor]
  <2>1. /\ call' = [call EXCEPT ![t] = d]
        /\ checkpoint' = [checkpoint EXCEPT ![t] = checkpoint[t]]
        /\ auditOwner' = [auditOwner EXCEPT ![t] = auditOwner[t]]
        /\ request' = [request EXCEPT ![t] = r]
    BY <1>3, <1>5 DEF submitApproved, Become, IInv, TypeOK
  <2>2. r \in Requests
    BY <1>3, <1>4 DEF Requests
  <2>3. "SUBMITTED" \in Outcomes \ {"NONE"}
    BY DEF Outcomes
  <2>4. d.outcome = "SUBMITTED" /\ SameTurn(c, d)
    BY <1>2, <2>3, RespondShape
  <2>5. DecisionTrue(d, r)
    <3>1. PICK s \in c.seen, next \in c.seen :
            /\ c.terms.policy = s.tables.policy
            /\ c.terms.available = next.tables.balance[p.employee][YearOf(p.start)]
            /\ c.terms.available # NoBalance
      BY <1>3 DEF PolicyRead, BalanceRead
    <3>2. eligible(Now.today, p.start, p.end, c.terms.policy, c.terms.available)
      BY <1>5, World DEF StillEligible
    <3>3. WithinPolicy(Now.today, p.start, p.end, c.terms.policy, c.terms.available)
      <4>1. c.terms.policy \in Policy
        BY <1>2 DEF Calls, Terms
      <4>2. Now.today \in Nat
        BY World
      <4> QED
        BY <1>4, <3>2, <4>1, <4>2, EligibleIsWithinPolicy
    <3>4. /\ d.actor = c.actor /\ d.proposal = p /\ d.seen = c.seen
          /\ MayRequest(d, p.employee)
      BY <1>3, <2>4 DEF SameTurn, MayRequest
    <3>5. \E one, other, last \in d.seen :
            LET available == other.tables.balance[p.employee][YearOf(p.start)]
            IN  /\ available # NoBalance
                /\ WithinPolicy(last.today, p.start, p.end, one.tables.policy, available)
      BY <1>3, <3>1, <3>3, <3>4
    <3> HIDE DEF d
    <3> QED
      BY <1>3, <2>4, <3>4, <3>5 DEF DecisionTrue
  <2>6. d \in Calls /\ CallInv(d, checkpoint[t], auditOwner[t], r, Now)
    <3> HIDE DEF c, r
    <3> QED
      BY <1>1, <1>2, <2>3, <2>5, Responds DEF c, AtWork, LoadingAt
  <2> HIDE DEF d, r
  <2> QED
    BY <1>1, <2>1, <2>2, <2>6, OfThread, OnThread, Counters DEF world
<1>6. CASE /\ Become(t, Respond(c, "LEAVE_PROPOSAL_CHANGED"))
           /\ UNCHANGED <<checkpoint, auditOwner, request>>
  <2> DEFINE d == Respond(c, "LEAVE_PROPOSAL_CHANGED")
  <2>1. "LEAVE_PROPOSAL_CHANGED" \in Outcomes \ {"NONE"}
    BY DEF Outcomes
  <2>2. DecisionTrue(d, request[t])
    <3>1. d.outcome = "LEAVE_PROPOSAL_CHANGED"
      BY <1>2, <2>1, RespondShape
    <3> QED
      BY <1>3, <3>1 DEF DecisionTrue
  <2>3. d \in Calls /\ CallInv(d, checkpoint[t], auditOwner[t], request[t], Now)
    BY <1>1, <1>2, <2>1, <2>2, Responds DEF AtWork, LoadingAt
  <2> QED
    BY <1>1, <1>6, <2>3, AtNode
<1>7. CASE Throw(t)
  BY <1>1, <1>7, Throws DEF Running
<1> QED
  BY <1>5, <1>6, <1>7 DEF Submit

-----------------------------------------------------------------------------
(* Crashes, and the world around the calls.                                *)

(* A call that has begun a node belongs to the owner of its conversation.  *)
LEMMA Begun ==
    ASSUME IInv, NEW t \in Threads, NEW node \in call[t].trail,
           call[t].pc \notin {"idle", "answered"}
    PROVE  /\ node \in Nodes /\ call[t].pc \in Running
           /\ call[t].actor \in Employees
           /\ checkpoint[t].owner \in {NoEmployee, call[t].actor}
<1>1. /\ call[t] \in Calls
      /\ CallInv(call[t], checkpoint[t], auditOwner[t], request[t], Now)
  BY OfThread
<1>2. node \in Nodes /\ call[t].pc # "identity"
  BY <1>1 DEF Calls, CallInv, Entered
<1>3. call[t].pc \in Running
  BY <1>1, <1>2 DEF Calls, PCs, Running
<1> QED
  BY <1>1, <1>2, <1>3 DEF CallInv, Owned

LEMMA CrashStep ==
    ASSUME IInv, NEW t \in Threads, Crash(t)
    PROVE  IInv'
<1> DEFINE c == call[t]
           k == checkpoint[t]
<1>1. /\ c.pc \notin {"idle", "answered"} /\ Become(t, Idle)
      /\ UNCHANGED <<tables, today, auditOwner, request, calls>> /\ changes' \in Nat
  BY Counters DEF Crash
<1>2. /\ c \in Calls /\ k \in Checkpoints
      /\ CallInv(c, k, auditOwner[t], request[t], Now)
  BY OfThread
<1>3. Idle \in Calls
  BY IdleShape
<1>4. CASE UNCHANGED checkpoint
  <2>1. CallInv(Idle, k, auditOwner[t], request[t], Now)
    BY <1>2, Rests DEF CallInv
  <2> QED
    BY <1>1, <1>3, <1>4, <2>1, OnCall, Counters
<1>5. ASSUME NEW node \in c.trail, c.pc # "interrupted",
             checkpoint' = [checkpoint EXCEPT ![t] =
                LET before == node \in {"request_guard", "intent_normalization"}
                IN  [owner |-> c.actor, at |-> node,
                     proposal |-> IF node = "leave_approval" THEN c.proposal
                                  ELSE NoProposal,
                     pending |-> IF before THEN @.pending ELSE c.pending,
                     origin |-> IF before THEN @.origin ELSE c.origin]]
      PROVE  IInv'
  <2> DEFINE before == node \in {"request_guard", "intent_normalization"}
             proposal == IF node = "leave_approval" THEN c.proposal ELSE NoProposal
             pending == IF before THEN k.pending ELSE c.pending
             origin == IF before THEN k.origin ELSE c.origin
             new == [owner |-> c.actor, at |-> node, proposal |-> proposal,
                     pending |-> pending, origin |-> origin]
  <2>1. /\ call' = [call EXCEPT ![t] = Idle]
        /\ checkpoint' = [checkpoint EXCEPT ![t] = new]
        /\ auditOwner' = [auditOwner EXCEPT ![t] = auditOwner[t]]
        /\ request' = [request EXCEPT ![t] = request[t]]
    BY <1>1, <1>5 DEF Become, IInv, TypeOK
  <2>2. node \in Nodes /\ c.actor \in Employees
    BY <1>1, Begun
  <2>3. pending \in Intent /\ origin \in Query /\ PendingOf(pending, origin)
    BY <1>2 DEF Calls, Checkpoints, CallInv, Entered, Kept
  <2>4. node = "leave_approval" => c.proposal # NoProposal /\ Counted(c.proposal)
    BY <1>2 DEF CallInv, Decides
  <2>5. new \in Checkpoints /\ Kept(new)
    <3>1. node = "leave_approval" => proposal = c.proposal
      OBVIOUS
    <3>2. node # "leave_approval" => proposal = NoProposal
      OBVIOUS
    <3> HIDE DEF proposal, pending, origin, c
    <3> QED
      BY <1>2, <2>2, <2>3, <2>4, <3>1, <3>2, Saved
  <2> HIDE DEF new
  <2>6. CallInv(Idle, new, auditOwner[t], request[t], Now)
    BY <2>5, Rests
  <2> QED
    BY <1>1, <1>3, <2>1, <2>5, <2>6, OfThread, OnThread, Counters
<1> QED
  BY <1>4, <1>5 DEF Crash

(* A call that is not in work does not look at the world.                  *)
LEMMA Unmoved ==
    ASSUME NEW c, NEW k, NEW a, NEW r, NEW s, NEW new,
           CallInv(c, k, a, r, s), c.pc \in {"idle", "answered"}
    PROVE  CallInv(c, k, a, r, new)
BY DEF CallInv

LEMMA ChangeStep ==
    ASSUME IInv, Change
    PROVE  IInv'
<1>1. /\ changes' \in Nat /\ Witness /\ UNCHANGED <<checkpoint, auditOwner, request, calls>>
  BY Counters DEF Change
<1>2. tables' \in Tables /\ today' \in Nat
  BY DEF Change, IInv, TypeOK
<1>3. Now' \in Snapshot /\ Now' = [tables |-> tables', today |-> today']
  BY <1>2 DEF Now, Snapshot
<1>4. ASSUME NEW t \in Threads
      PROVE  /\ call'[t] \in Calls
             /\ CallInv(call'[t], checkpoint[t], auditOwner[t], request[t], Now')
  <2>1. /\ call[t] \in Calls /\ checkpoint[t] \in Checkpoints
        /\ CallInv(call[t], checkpoint[t], auditOwner[t], request[t], Now)
    BY OfThread
  <2>2. CASE call[t].pc \in {"idle", "answered"}
    <3>1. call'[t] = call[t]
      BY <1>1, <2>2 DEF Witness
    <3> QED
      BY <2>1, <2>2, <3>1, Unmoved
  <2>3. CASE call[t].pc \notin {"idle", "answered"}
    <3>1. call'[t] = [call[t] EXCEPT !.seen = @ \cup {Now'}]
      BY <1>1, <1>3, <2>3 DEF Witness
    <3> QED
      BY <1>3, <2>1, <2>3, <3>1, Witnesses
  <2> QED
    BY <2>2, <2>3
<1>5. ConversationInv'
  BY <1>1, <1>4 DEF ConversationInv
<1>6. TypeOK'
  <2>1. call' \in [Threads -> Calls]
    BY <1>1, <1>4 DEF Witness
  <2>2. \A t \in Threads : call'[t].pc \in {"finish", "answered"} => call'[t].outcome # "NONE"
    BY <1>4 DEF CallInv, Recorded
  <2> QED
    BY <1>1, <1>2, <2>1, <2>2 DEF IInv, TypeOK
<1> QED
  BY <1>5, <1>6 DEF IInv

-----------------------------------------------------------------------------
(* The invariant of the system.                                            *)

LEMMA InitInv == Init => IInv
<1> SUFFICES ASSUME Init PROVE IInv
  OBVIOUS
<1> DEFINE none == [owner |-> NoEmployee, at |-> "NONE", proposal |-> NoProposal,
                    pending |-> Unsupported, origin |-> EmptyQuery]
<1>1. none \in Checkpoints /\ Kept(none)
  <2>1. Idle.pending = Unsupported /\ Idle.origin = EmptyQuery
        /\ Idle.pending \in Intent /\ Idle.origin \in Query
    BY IdleShape DEF Idle, Calls
  <2> QED
    BY <2>1 DEF Checkpoints, Kept, Counted, PendingOf
<1>2. \A t \in Threads : checkpoint[t] = none /\ call[t] = Idle
  BY DEF Init
<1> HIDE DEF none
<1>3. ConversationInv
  BY <1>1, <1>2, Rests DEF ConversationInv
<1>4. NoRequest \in Requests
  BY DEF NoRequest, Requests
<1>5. Idle \in Calls /\ Idle.pc = "idle"
  BY IdleShape DEF Idle
<1>6. TypeOK
  <2>1. checkpoint \in [Threads -> Checkpoints]
    BY <1>1 DEF Init, none
  <2> QED
    BY <1>2, <1>4, <1>5, <2>1, ConversationAssumption DEF Init, TypeOK
<1> QED
  BY <1>3, <1>6 DEF IInv

LEMMA NextInv == IInv /\ [Next]_vars => IInv'
<1> SUFFICES ASSUME IInv, [Next]_vars PROVE IInv'
  OBVIOUS
<1>1. CASE UNCHANGED vars
  BY <1>1 DEF vars, IInv, TypeOK, ConversationInv, Now
<1>2. ASSUME NEW t \in Threads, NEW actor \in Codes, NEW query \in Queries,
             Ask(t, actor, "NONE", query)
      PROVE  IInv'
  <2>1. "NONE" \in Decisions /\ query \in Queries \cup {EmptyQuery}
    BY DEF Decisions
  <2> QED
    BY <1>2, <2>1, AskStep
<1>3. ASSUME NEW t \in Threads, NEW actor \in Codes, NEW decision \in {"APPROVE", "REJECT"},
             Ask(t, actor, decision, EmptyQuery)
      PROVE  IInv'
  <2>1. decision \in Decisions /\ EmptyQuery \in Queries \cup {EmptyQuery}
    BY DEF Decisions
  <2> QED
    BY <1>3, <2>1, AskStep
<1>4. ASSUME NEW t \in Threads, Step(t) PROVE IInv'
  BY <1>4, IdentifyStep, RequestGuardStep, NormalizeIntentStep, RouteStep, ReadActorStep,
     EmployeeLookupStep, OnboardingCalculationStep, ManagerNotificationStep, ReadRowStep,
     ReadPolicyStep, ReadBalanceStep, LoadingFailsStep, LeaveProposalStep,
     InterruptStep, AwaitApprovalStep, RejectStep, ApproveStep, SubmitStep,
     RespondAndAuditStep, FinishStep, ReturnStep DEF Step
<1>5. ASSUME NEW t \in Threads, Crash(t) PROVE IInv'
  BY <1>5, CrashStep
<1>6. CASE Change
  BY <1>6, ChangeStep
<1> QED
  BY <1>1, <1>2, <1>3, <1>4, <1>5, <1>6 DEF Next

-----------------------------------------------------------------------------
(* The refinement, step by step.                                           *)

LEMMA Stutters ==
    ASSUME UNCHANGED <<checkpoint, request>>
    PROVE  UNCHANGED Decision!vars
BY DEF Decision!vars

LEMMA Saves ==
    ASSUME IInv, NEW t \in Threads, NEW k \in Checkpoints, k.owner \in Employees,
           checkpoint[t].owner \in {NoEmployee, k.owner},
           checkpoint' = [checkpoint EXCEPT ![t] = k], UNCHANGED request
    PROVE  Decision!Converse(t)
<1> DEFINE owner == [u \in Threads |-> checkpoint[u].owner]
           shown == [u \in Threads |-> checkpoint[u].proposal]
<1>1. checkpoint \in [Threads -> Checkpoints]
  BY DEF IInv, TypeOK
<1>2. owner' = [owner EXCEPT ![t] = k.owner] /\ owner[t] \in {k.owner, NoEmployee}
  BY <1>1
<1>3. shown'[t] = k.proposal /\ shown' = [shown EXCEPT ![t] = shown'[t]]
  BY <1>1
<1>4. k.proposal \in Proposals \cup {NoProposal}
  BY DEF Checkpoints
<1> QED
  BY <1>2, <1>3, <1>4 DEF Decision!Converse

LEMMA CrashConverses ==
    ASSUME IInv, NEW t \in Threads, Crash(t)
    PROVE  Decision!Converse(t) \/ UNCHANGED Decision!vars
<1> DEFINE c == call[t]
           k == checkpoint'[t]
<1>1. IInv' /\ UNCHANGED request
  BY CrashStep DEF Crash
<1>2. k \in Checkpoints
  BY <1>1 DEF IInv, TypeOK
<1>3. ASSUME NEW node \in c.trail,
             checkpoint' = [checkpoint EXCEPT ![t] =
                LET before == node \in {"request_guard", "intent_normalization"}
                IN  [owner |-> c.actor, at |-> node,
                     proposal |-> IF node = "leave_approval" THEN c.proposal
                                  ELSE NoProposal,
                     pending |-> IF before THEN @.pending ELSE c.pending,
                     origin |-> IF before THEN @.origin ELSE c.origin]]
      PROVE  Decision!Converse(t)
  <2>1. c.actor \in Employees /\ checkpoint[t].owner \in {NoEmployee, c.actor}
    BY Begun DEF Crash
  <2>2. k.owner = c.actor /\ checkpoint' = [checkpoint EXCEPT ![t] = k]
    BY <1>3 DEF IInv, TypeOK
  <2> HIDE DEF k
  <2> QED
    BY <1>1, <1>2, <2>1, <2>2, Saves
<1> QED
  BY <1>1, <1>3, Stutters DEF Crash

LEMMA SubmitSubmits ==
    ASSUME IInv, NEW t \in Threads, Submit(t)
    PROVE  Decision!Submit(t) \/ UNCHANGED Decision!vars
<1> DEFINE c == call[t]
           k == checkpoint[t]
<1>1. c.pc = "submit" /\ k \in Checkpoints
      /\ CallInv(c, k, auditOwner[t], request[t], Now)
  BY OfThread DEF Submit
<1>2. /\ c.proposal # NoProposal /\ c.proposal = k.proposal /\ request[t] = NoRequest
      /\ k.owner \in {NoEmployee, c.actor} /\ Kept(k)
  BY <1>1 DEF CallInv, Decides, Owned, Running
<1>3. k.owner = c.actor
  BY <1>2, RulesAssumption DEF Kept, Codes
<1>4. CASE submitApproved(t) /\ UNCHANGED checkpoint
  <2>1. request' = [request EXCEPT ![t] = [proposal |-> k.proposal, by |-> k.owner]]
    BY <1>2, <1>3, <1>4 DEF submitApproved
  <2> QED
    BY <1>2, <1>4, <2>1
    DEF Decision!Submit, Decision!NotSubmitted, NoRequest
<1>5. CASE UNCHANGED <<checkpoint, request>>
  BY <1>5, Stutters
<1> QED
  BY <1>4, <1>5 DEF Submit, Throw

LEMMA SavesConverse ==
    ASSUME IInv, NEW t \in Threads, Interrupt(t) \/ Finish(t)
    PROVE  Decision!Converse(t)
<1> DEFINE c == call[t]
           k == checkpoint'[t]
<1>1. IInv' /\ UNCHANGED request /\ c.pc \in Running
  BY InterruptStep, FinishStep DEF Interrupt, Finish, Running, Nodes
<1>2. k \in Checkpoints
  BY <1>1 DEF IInv, TypeOK
<1>3. c.actor \in Employees /\ checkpoint[t].owner \in {NoEmployee, c.actor}
  BY <1>1, OfThread DEF CallInv, Owned
<1>4. k.owner = c.actor /\ checkpoint' = [checkpoint EXCEPT ![t] = k]
  BY DEF Interrupt, Finish, Save, IInv, TypeOK
<1> HIDE DEF k
<1> QED
  BY <1>1, <1>2, <1>3, <1>4, Saves

LEMMA OthersStutter ==
    ASSUME NEW t \in Threads, Step(t), ~Submit(t), ~Interrupt(t), ~Finish(t)
    PROVE  UNCHANGED <<checkpoint, request>>
<1>1. Throw(t) => UNCHANGED <<checkpoint, request>>
  BY DEF Throw
<1>2. \A o : RecordAndAnswer(t, o) => UNCHANGED <<checkpoint, request>>
  BY DEF RecordAndAnswer
<1>3. Identify(t) => UNCHANGED <<checkpoint, request>>
  BY <1>1, <1>2 DEF Identify, RejectUnknown, RejectThreadIdentityMismatch, AnswerExisting,
                    StartGraph
<1>4. RequestGuard(t) \/ NormalizeIntent(t) \/ Route(t) => UNCHANGED <<checkpoint, request>>
  BY <1>1 DEF RequestGuard, NormalizeIntent, Route
<1>5. EmployeeLookup(t) \/ OnboardingCalculation(t) \/ ManagerNotification(t) =>
        UNCHANGED <<checkpoint, request>>
  BY DEF EmployeeLookup, OnboardingCalculation, ManagerNotification
<1>6. LeaveProposal(t) \/ Reject(t) \/ Approve(t) => UNCHANGED <<checkpoint, request>>
  BY <1>1 DEF LeaveProposal, Reject, Approve
<1>7. AwaitApproval(t) \/ RespondAndAudit(t) \/ Return(t) => UNCHANGED <<checkpoint, request>>
  BY <1>1, <1>2 DEF AwaitApproval, RespondAndAudit, Return
<1>8. \A node, next : ReadActor(t, node, next) => UNCHANGED <<checkpoint, request>>
  BY <1>1 DEF ReadActor
<1>9. (\E x \in Tools : ReadRow(t, x)) \/ ReadPolicy(t) \/ ReadBalance(t) \/ LoadingFails(t) =>
        UNCHANGED <<checkpoint, request>>
  BY DEF ReadRow, ReadPolicy, ReadBalance, LoadingFails
<1> QED
  BY <1>3, <1>4, <1>5, <1>6, <1>7, <1>8, <1>9 DEF Step

LEMMA InitDecision == Init => Decision!Init
BY DEF Init, Decision!Init, NoRequest, Decision!NotSubmitted

LEMMA NextDecision ==
    ASSUME IInv, [Next]_vars
    PROVE  [Decision!Next]_Decision!vars
<1>1. CASE UNCHANGED vars
  BY <1>1, Stutters DEF vars
<1>2. ASSUME NEW t \in Threads, NEW actor, NEW decision, NEW query,
             Ask(t, actor, decision, query)
      PROVE  UNCHANGED Decision!vars
  BY <1>2, Stutters DEF Ask
<1>3. ASSUME NEW t \in Threads, Step(t)
      PROVE  Decision!Converse(t) \/ Decision!Submit(t) \/ UNCHANGED Decision!vars
  BY <1>3, SubmitSubmits, SavesConverse, OthersStutter, Stutters
<1>4. ASSUME NEW t \in Threads, Crash(t)
      PROVE  Decision!Converse(t) \/ UNCHANGED Decision!vars
  BY <1>4, CrashConverses
<1>5. CASE Change
  BY <1>5, Stutters DEF Change
<1> QED
  BY <1>1, <1>2, <1>3, <1>4, <1>5 DEF Next, Decision!Next

-----------------------------------------------------------------------------
(* The theorems.                                                           *)

(* Every reachable state satisfies the inductive invariant.                *)
THEOREM ConversationInvariant == Spec => []IInv
<1>1. Init => IInv
  BY InitInv
<1>2. IInv /\ [Next]_vars => IInv'
  BY NextInv
<1> QED
  BY <1>1, <1>2, PTL DEF Spec

(* The variables have their types and every run that ends has a result,    *)
(* for any model answers, failures, crashes and changes of the tables:     *)
(* runHcmAgentGraph never ends with GraphResultMissing.                    *)
THEOREM TypeCorrect == Spec => []TypeOK
<1>1. IInv => TypeOK
  BY DEF IInv
<1> QED
  BY <1>1, ConversationInvariant, PTL

(* What a decision is answered is true of the stored request: 201 names    *)
(* the proposal this call approved, and nothing is stored after a          *)
(* rejection or a failed revalidation (leave-approval.node).               *)
THEOREM DecisionsTrue == Spec => []DecisionsAreTrue
<1>1. IInv => DecisionsAreTrue
  BY DEF IInv, ConversationInv, CallInv, DecisionTrue, DecisionsAreTrue
<1> QED
  BY <1>1, ConversationInvariant, PTL

(* A request is submitted only if the approval's reads found, each at some *)
(* moment since it came in, an active actor who may ask for the employee,  *)
(* an active employee, and policy, balance and date that allow the leave,  *)
(* counted by the reference rules instead of day by day                    *)
(* (leave-approval.node, leave.tools).                                     *)
THEOREM Revalidated == Spec => []RevalidatedSinceApproval
<1>1. IInv => RevalidatedSinceApproval
  <2> SUFFICES ASSUME IInv, NEW t \in Threads, call[t].outcome = "SUBMITTED"
               PROVE  LET c == call[t]
                          p == c.proposal
                      IN  /\ p.days = WorkingDaysFrom(p.start, p.end)
                          /\ \E s \in c.seen :
                            /\ s.tables.staff[c.actor].active
                            /\ c.actor = p.employee \/ s.tables.staff[c.actor].role = "HR"
                          /\ \E s \in c.seen : s.tables.staff[p.employee].active
                          /\ \E s, next, last \in c.seen :
                            LET available == next.tables.balance[p.employee][YearOf(p.start)]
                            IN  /\ available # NoBalance
                                /\ WithinPolicy(last.today, p.start, p.end,
                                        s.tables.policy, available)
    BY DEF RevalidatedSinceApproval
  <2>1. /\ DecisionTrue(call[t], request[t])
        /\ Counted(call[t].proposal)
    BY OfThread DEF CallInv, Decides
  <2> QED
    BY <2>1 DEF DecisionTrue, Counted, MayRequest
<1> QED
  BY <1>1, ConversationInvariant, PTL

(* Whatever the model answers, a run concerns an employee and dates that   *)
(* its query names, or the actor who speaks of himself                     *)
(* (enforceIntentConsistency).                                             *)
THEOREM NamedTargets == Spec => []TargetsAreNamed
<1>1. IInv => TargetsAreNamed
  BY DEF IInv, ConversationInv, CallInv, Named, TargetsAreNamed
<1> QED
  BY <1>1, ConversationInvariant, PTL

(* A manager is notified only where the query, or the one whose question   *)
(* it answers, asks for it, by somebody whose row allows it together with  *)
(* the employee's, each as read at a moment of the call, of an employee    *)
(* who was active and whose review ended within the threshold then         *)
(* (manager-notification.node, onboarding.tools).                          *)
THEOREM AskedNotifications == Spec => []NotifiedAsAsked
<1>1. IInv => NotifiedAsAsked
  BY DEF IInv, ConversationInv, CallInv, Notifies, Behind, NotifiedAsAsked
<1> QED
  BY <1>1, ConversationInvariant, PTL

(* Nobody is answered anything but an internal error or the demand to      *)
(* authenticate without an audit row of that call (AuditRepository).       *)
THEOREM AuditedAnswers == Spec => []AnswersAreAudited
<1>1. IInv => AnswersAreAudited
  BY DEF IInv, ConversationInv, CallInv, Recorded, AnswersAreAudited
<1> QED
  BY <1>1, ConversationInvariant, PTL

(* Conversations implement LeaveDecision: one owner from the first turn    *)
(* on, one request, which is the proposal shown last, by that owner, under *)
(* any interleaving of threads, crashes and changes.                       *)
THEOREM ConversationsDecide == Spec => ImplementsLeaveDecision
<1>1. Init => Decision!Init
  BY InitDecision
<1>2. IInv /\ [Next]_vars => [Decision!Next]_Decision!vars
  BY NextDecision
<1> QED
  BY <1>1, <1>2, ConversationInvariant, PTL DEF Spec, ImplementsLeaveDecision, Decision!Spec

-----------------------------------------------------------------------------
(* What LeaveDecision says of owners and requests, in terms of the code:   *)
(* the checkpoint never changes hands and a stored request never changes,  *)
(* whatever later turns, repeated decisions and crashes do.                *)
OwnersAndRequestsStay ==
    [][\A t \in Threads :
        /\ checkpoint[t].owner # NoEmployee => checkpoint'[t].owner = checkpoint[t].owner
        /\ request[t] # NoRequest => request'[t] = request[t]]_<<checkpoint, request>>

THEOREM NothingIsReassigned == Spec => OwnersAndRequestsStay
<1>1. ASSUME IInv, [Next]_vars, NEW t \in Threads
      PROVE  /\ checkpoint[t].owner # NoEmployee => checkpoint'[t].owner = checkpoint[t].owner
             /\ request[t] # NoRequest => request'[t] = request[t]
  <2> DEFINE owner == [u \in Threads |-> checkpoint[u].owner]
  <2>1. [Decision!Next]_Decision!vars /\ request \in [Threads -> Requests]
    BY <1>1, NextDecision DEF IInv, TypeOK
  <2>2. ASSUME NEW u \in Threads, Decision!Converse(u)
        PROVE  /\ owner[t] # NoEmployee => owner'[t] = owner[t]
               /\ request' = request
    BY <2>2 DEF Decision!Converse
  <2>3. ASSUME NEW u \in Threads, Decision!Submit(u)
        PROVE  /\ owner' = owner
               /\ request[t] # NoRequest => request'[t] = request[t]
    BY <2>1, <2>3 DEF Decision!Submit, Decision!NotSubmitted, NoRequest
  <2>4. CASE UNCHANGED Decision!vars
    BY <2>4 DEF Decision!vars
  <2>5. owner[t] = checkpoint[t].owner /\ owner'[t] = checkpoint'[t].owner
    OBVIOUS
  <2> HIDE DEF owner
  <2> QED
    BY <2>1, <2>2, <2>3, <2>4, <2>5 DEF Decision!Next
<1>2. IInv /\ [Next]_vars => [\A t \in Threads :
        /\ checkpoint[t].owner # NoEmployee => checkpoint'[t].owner = checkpoint[t].owner
        /\ request[t] # NoRequest => request'[t] = request[t]]_<<checkpoint, request>>
  BY <1>1
<1> QED
  BY <1>2, ConversationInvariant, PTL DEF Spec, OwnersAndRequestsStay

-----------------------------------------------------------------------------
(* While every run is recorded and no process dies, the audit and the      *)
(* checkpoint of a conversation name one owner, except between the         *)
(* interrupt of a run and its audit row.                                   *)
SameOwnerOf(c, k, a) ==
    /\ k.owner \in {NoEmployee, a} \/ (c.pc = "interrupted" /\ k.owner = c.actor)
    /\ c.pc = "finish" => a = c.actor
    /\ c.outcome = "THREAD_IDENTITY_MISMATCH" => c.pc = "answered" /\ c.actor # k.owner

SameOwner == \A t \in Threads : SameOwnerOf(call[t], checkpoint[t], auditOwner[t])

LEMMA OwnersOnThread ==
    ASSUME IInv, SameOwner, NEW t \in Threads, NEW d, NEW k, NEW a,
           call' = [call EXCEPT ![t] = d], checkpoint' = [checkpoint EXCEPT ![t] = k],
           auditOwner' = [auditOwner EXCEPT ![t] = a], SameOwnerOf(d, k, a)
    PROVE  SameOwner'
<1>1. \A u \in Threads \ {t} :
        call'[u] = call[u] /\ checkpoint'[u] = checkpoint[u] /\ auditOwner'[u] = auditOwner[u]
  BY DEF IInv, TypeOK
<1>2. call'[t] = d /\ checkpoint'[t] = k /\ auditOwner'[t] = a
  BY DEF IInv, TypeOK
<1> QED
  BY <1>1, <1>2 DEF SameOwner

(* A step that neither records a run nor saves a checkpoint.               *)
LEMMA OwnersRest ==
    ASSUME IInv, SameOwner, NEW t \in Threads, NEW d, Become(t, d),
           UNCHANGED <<checkpoint, auditOwner>>,
           call[t].pc # "interrupted", d.pc # "finish",
           d.outcome # "THREAD_IDENTITY_MISMATCH"
    PROVE  SameOwner'
<1>1. checkpoint' = [checkpoint EXCEPT ![t] = checkpoint[t]]
      /\ auditOwner' = [auditOwner EXCEPT ![t] = auditOwner[t]]
  BY DEF IInv, TypeOK
<1>2. SameOwnerOf(d, checkpoint[t], auditOwner[t])
  BY DEF SameOwner, SameOwnerOf
<1> QED
  BY <1>1, <1>2, OwnersOnThread DEF Become

(* A step from node to node, or to the audit with a result.                *)
LEMMA NodeKeepsOwners ==
    ASSUME IInv, SameOwner, NEW t \in Threads,
           call[t].pc \notin {"interrupted", "answered"}, UNCHANGED <<checkpoint, auditOwner>>,
           NEW d, Become(t, d),
           \/ d.pc # "finish" /\ d.outcome = call[t].outcome
           \/ \E o \in Outcomes \ {"THREAD_IDENTITY_MISMATCH"} :
                d \in {Respond(call[t], o), Answer(call[t], o)}
    PROVE  SameOwner'
<1>1. call[t] \in Calls /\ call[t].outcome # "THREAD_IDENTITY_MISMATCH"
  BY OfThread DEF SameOwner, SameOwnerOf
<1>2. CASE d.pc # "finish" /\ d.outcome = call[t].outcome
  BY <1>1, <1>2, OwnersRest
<1>3. CASE \E o \in Outcomes \ {"THREAD_IDENTITY_MISMATCH"} :
             d \in {Respond(call[t], o), Answer(call[t], o)}
  <2>1. PICK o \in Outcomes \ {"THREAD_IDENTITY_MISMATCH"} :
          d = Respond(call[t], o) \/ d = Answer(call[t], o)
    BY <1>3
  <2>2. d.pc \in {"response_audit", "answered"} /\ d.outcome = o
    <3>1. Respond(call[t], o).pc = "response_audit" /\ Respond(call[t], o).outcome = o
      BY <1>1, RespondShape
    <3>2. Answer(call[t], o).pc = "answered" /\ Answer(call[t], o).outcome = o
      BY <1>1, AnswerShape
    <3> QED
      BY <2>1, <3>1, <3>2
  <2> QED
    BY <2>2, OwnersRest
<1> QED
  BY <1>2, <1>3

LEMMA ThrowKeepsOwners ==
    ASSUME IInv, SameOwner, NEW t \in Threads,
           call[t].pc \notin {"interrupted", "answered"}, Throw(t)
    PROVE  SameOwner'
BY NodeKeepsOwners DEF Throw, Outcomes

(* The answer before and after the graph.                                  *)
LEMMA RecordKeepsOwners ==
    ASSUME ~AuditFails, IInv, SameOwner, NEW t \in Threads, NEW o \in Outcomes,
           RecordAndAnswer(t, o), call[t].actor # NoEmployee,
           \/ /\ o # "THREAD_IDENTITY_MISMATCH"
              /\ auditOwner[t] \in {NoEmployee, call[t].actor}
           \/ call[t].pc # "interrupted" /\ ~ownsThread(t, call[t].actor)
    PROVE  SameOwner'
<1> DEFINE c == call[t]
           k == checkpoint[t]
           a == IF auditOwner[t] = NoEmployee THEN c.actor ELSE auditOwner[t]
           d == [Answer(c, o) EXCEPT !.audited = TRUE]
<1>1. c \in Calls /\ SameOwnerOf(c, k, auditOwner[t])
  BY OfThread DEF SameOwner
<1>2. d.pc = "answered" /\ d.outcome = o /\ d.actor = c.actor
  BY <1>1, AuditedShape DEF SameTurn
<1>3. /\ call' = [call EXCEPT ![t] = d]
      /\ checkpoint' = [checkpoint EXCEPT ![t] = k]
      /\ auditOwner' = [auditOwner EXCEPT ![t] = a]
  BY DEF RecordAndAnswer, RecordRun, Become, IInv, TypeOK
<1>4. SameOwnerOf(d, k, a)
  <2> HIDE DEF d
  <2> QED
    BY <1>1, <1>2 DEF SameOwnerOf, ownsThread
<1> HIDE DEF a, d
<1> QED
  BY <1>3, <1>4, OwnersOnThread

LEMMA IdentifyKeepsOwners ==
    ASSUME ~AuditFails, IInv, SameOwner, NEW t \in Threads, Identify(t)
    PROVE  SameOwner'
<1>1. call[t].pc = "identity" /\ call[t] \in Calls
  BY OfThread DEF Identify
<1>2. CASE RejectUnknown(t)
  BY <1>1, <1>2, NodeKeepsOwners DEF RejectUnknown, Outcomes
<1>3. CASE RejectThreadIdentityMismatch(t)
  <2>1. call[t].actor # NoEmployee
    BY <1>3, RulesAssumption DEF RejectThreadIdentityMismatch, Codes
  <2> QED
    BY <1>1, <1>3, <2>1, RecordKeepsOwners DEF RejectThreadIdentityMismatch, Outcomes
<1>4. CASE AnswerExisting(t)
  <2>1. call[t].actor # NoEmployee /\ auditOwner[t] \in {NoEmployee, call[t].actor}
    BY <1>4, RulesAssumption DEF AnswerExisting, ownsThread, Codes
  <2>2. \E o \in Outcomes \ {"THREAD_IDENTITY_MISMATCH"} : RecordAndAnswer(t, o)
    BY <1>4 DEF AnswerExisting, Outcomes
  <2> QED
    BY <2>1, <2>2, RecordKeepsOwners
<1>5. CASE StartGraph(t)
  <2>1. CASE Throw(t)
    BY <1>1, <2>1, ThrowKeepsOwners
  <2>2. CASE Become(t, Go(call[t], "request_guard")) /\ UNCHANGED <<checkpoint, auditOwner>>
    BY <1>1, <2>2, GoShape, NodeKeepsOwners DEF Nodes
  <2>3. CASE /\ checkpoint[t].at \in Nodes /\ UNCHANGED <<checkpoint, auditOwner>>
             /\ Become(t, [Go(call[t], checkpoint[t].at) EXCEPT
                             !.proposal = checkpoint[t].proposal])
    <3> DEFINE g == Go(call[t], checkpoint[t].at)
               d == [g EXCEPT !.proposal = checkpoint[t].proposal]
    <3>1. g \in Calls /\ g.pc \in Nodes /\ g.outcome = call[t].outcome
      BY <1>1, <2>3, GoShape
    <3> HIDE DEF g
    <3>2. d.pc # "finish" /\ d.outcome = call[t].outcome
      BY <3>1 DEF Calls, Nodes
    <3>3. Become(t, d)
      BY <2>3 DEF g
    <3> HIDE DEF d
    <3> QED
      BY <1>1, <2>3, <3>2, <3>3, NodeKeepsOwners
  <2> QED
    BY <1>5, <2>1, <2>2, <2>3 DEF StartGraph
<1>6. CASE Throw(t)
  BY <1>1, <1>6, ThrowKeepsOwners
<1> QED
  BY <1>2, <1>3, <1>4, <1>5, <1>6 DEF Identify

(* A step of the graph keeps the outcome or sets one of its own.           *)
LEMMA NodesKeepOwners ==
    ASSUME IInv, SameOwner, NEW t \in Threads,
           \/ RequestGuard(t) \/ NormalizeIntent(t) \/ Route(t)
           \/ ReadActor(t, "employee_lookup", "looking_up")
           \/ ReadActor(t, "onboarding_calculation", "calculating")
           \/ ReadActor(t, "manager_notification", "notifying")
           \/ EmployeeLookup(t) \/ OnboardingCalculation(t) \/ ManagerNotification(t)
           \/ LeaveProposal(t) \/ Reject(t) \/ Approve(t) \/ Submit(t)
    PROVE  SameOwner'
<1> DEFINE c == call[t]
           Quiet(d) == d.pc # "finish" /\ d.outcome # "THREAD_IDENTITY_MISMATCH"
<1>1. c \in Calls /\ c.outcome # "THREAD_IDENTITY_MISMATCH"
      /\ c.pc \notin {"interrupted", "answered", "finish"}
  <2>1. c \in Calls /\ SameOwnerOf(c, checkpoint[t], auditOwner[t])
    BY OfThread DEF SameOwner
  <2>2. c.pc \notin {"interrupted", "answered", "finish"}
    BY DEF RequestGuard, NormalizeIntent, Route, ReadActor, EmployeeLookup,
           OnboardingCalculation, ManagerNotification, LeaveProposal, Reject, Approve, Submit
  <2> QED
    BY <2>1, <2>2 DEF SameOwnerOf
<1>2. ASSUME NEW d, Become(t, d), UNCHANGED <<checkpoint, auditOwner>>, Quiet(d)
      PROVE  SameOwner'
  BY <1>1, <1>2, OwnersRest
<1>3. CASE Throw(t)
  BY <1>1, <1>3, ThrowKeepsOwners
<1>4. ASSUME NEW node \in Nodes PROVE Quiet(Go(c, node)) /\ Go(c, node) \in Calls
  <2>1. node # "finish"
    BY DEF Nodes
  <2> QED
    BY <1>1, <2>1, GoShape
<1>5. ASSUME NEW o \in Outcomes \ {"THREAD_IDENTITY_MISMATCH"}
      PROVE  Quiet(Respond(c, o))
  <2>1. Respond(c, o).pc = "response_audit" /\ Respond(c, o).outcome = o
    BY <1>1, RespondShape
  <2> QED
    BY <2>1
<1>6. \A d \in Calls : Quiet(d) => \A x :
        /\ Quiet([d EXCEPT !.proposal = x])
        /\ Quiet([d EXCEPT !.review = x]) /\ Quiet([d EXCEPT !.notified = x])
  BY DEF Calls
<1>7. \A row : \A next \in {"looking_up", "calculating", "notifying"} :
        /\ Quiet([c EXCEPT !.pc = next, !.day = today, !.actorRow = row])
        /\ Quiet([c EXCEPT !.pc = "revalidation"])
  BY <1>1 DEF Calls
<1> HIDE DEF Quiet
<1>8. CASE RequestGuard(t)
  BY <1>2, <1>4, <1>5, <1>8 DEF RequestGuard, Nodes, Outcomes
<1>9. CASE NormalizeIntent(t)
  <2>1. CASE Become(t, Respond(c, "MODEL_UNAVAILABLE")) /\ UNCHANGED <<checkpoint, auditOwner>>
    BY <1>2, <1>5, <2>1 DEF Outcomes
  <2>2. ASSUME NEW i, NEW p, NEW q, UNCHANGED <<checkpoint, auditOwner>>,
               Become(t, [Go(c, "routing") EXCEPT !.intent = i, !.pending = p, !.origin = q])
        PROVE  SameOwner'
    <3> DEFINE g == Go(c, "routing")
               d == [g EXCEPT !.intent = i, !.pending = p, !.origin = q]
    <3>1. g \in Calls /\ Quiet(g)
      BY <1>4 DEF Nodes
    <3> HIDE DEF g
    <3>2. Quiet(d)
      BY <3>1 DEF Quiet, Calls
    <3>3. Become(t, d)
      BY <2>2 DEF g
    <3> HIDE DEF d
    <3> QED
      BY <1>2, <2>2, <3>2, <3>3
  <2> QED
    BY <1>9, <2>1, <2>2 DEF NormalizeIntent
<1>10. CASE Route(t)
  <2>1. c.intent # NoIntent => c.intent.intent \in
          {"UNSUPPORTED", "LEAVE_REQUEST", "ONBOARDING_REVIEW"}
    BY <1>1 DEF Calls, Intent
  <2>2. c.intent # NoIntent => Quiet(Routed(c))
    BY <1>4, <1>5, <2>1 DEF Routed, Nodes, Outcomes
  <2> QED
    BY <1>2, <1>3, <1>10, <2>2 DEF Route
<1>11. ASSUME NEW node, NEW next \in {"looking_up", "calculating", "notifying"},
               ReadActor(t, node, next)
       PROVE  SameOwner'
  <2>1. Quiet(Respond(c, "INTERNAL_ERROR"))
    BY <1>5 DEF Outcomes
  <2> QED
    BY <1>2, <1>3, <1>7, <1>11, <2>1 DEF ReadActor
<1>12. Quiet(Respond(c, "INTERNAL_ERROR"))
       /\ \A found \in {"EMPLOYEE_NOT_FOUND", "AUTHORIZATION_DENIED"} : Quiet(Respond(c, found))
  BY <1>5 DEF Outcomes
<1>13. CASE EmployeeLookup(t)
  <2>1. Quiet(Go(c, "onboarding_calculation"))
    BY <1>4 DEF Nodes
  <2>2. Quiet(LookedUp(c))
    BY <1>12, <2>1, LookedUpRows DEF LookedUp, loadAuthorizedEmployee
  <2> QED
    BY <1>2, <1>12, <1>13, <2>2 DEF EmployeeLookup
<1>14. CASE OnboardingCalculation(t)
  <2>1. Quiet(Reviewed(c))
    <3>1. \A node \in {"manager_notification", "response_audit"} : \A x :
            Quiet([Go(c, node) EXCEPT !.review = x])
      BY <1>4, <1>6 DEF Nodes
    <3>2. loadAuthorizedEmployee(c) # "FOUND" => Quiet(Respond(c, loadAuthorizedEmployee(c)))
      BY <1>12, LookedUpRows DEF loadAuthorizedEmployee
    <3> QED
      BY <1>5, <3>1, <3>2 DEF Reviewed, Outcomes
  <2> QED
    BY <1>2, <1>12, <1>14, <2>1 DEF OnboardingCalculation
<1>15. CASE ManagerNotification(t)
  <2>1. Quiet(Notified(c))
    <3>1. \A x : Quiet(Go(c, "response_audit"))
                /\ Quiet([Go(c, "response_audit") EXCEPT !.notified = x])
      BY <1>4, <1>6 DEF Nodes
    <3> QED
      BY <1>12, <3>1 DEF Notified
  <2> QED
    BY <1>2, <1>12, <1>15, <2>1 DEF ManagerNotification
<1>16. CASE LeaveProposal(t)
  <2>1. \A x : Quiet([Go(c, "leave_approval") EXCEPT !.proposal = x])
    BY <1>4, <1>6 DEF Nodes
  <2>2. Quiet(Proposed(c))
    BY <1>5, <2>1 DEF Proposed, Outcomes
  <2> QED
    BY <1>2, <1>3, <1>16, <2>2 DEF LeaveProposal
<1>17. CASE Reject(t)
  BY <1>2, <1>5, <1>17 DEF Reject, Outcomes
<1>18. CASE Approve(t)
  BY <1>2, <1>3, <1>7, <1>12, <1>18 DEF Approve
<1>19. CASE Submit(t)
  <2>1. Quiet(Respond(c, "SUBMITTED")) /\ Quiet(Respond(c, "LEAVE_PROPOSAL_CHANGED"))
    BY <1>5 DEF Outcomes
  <2> QED
    BY <1>2, <1>3, <1>19, <2>1 DEF Submit
<1> QED
  BY <1>8, <1>9, <1>10, <1>11, <1>13, <1>14, <1>15, <1>16, <1>17, <1>18, <1>19

(* The reads for a leave request.                                          *)
LEMMA LoadingKeepsOwners ==
    ASSUME IInv, SameOwner, NEW t \in Threads,
           \/ \E x \in Tools : ReadRow(t, x)
           \/ ReadPolicy(t) \/ ReadBalance(t) \/ LoadingFails(t)
    PROVE  SameOwner'
<1> DEFINE c == call[t]
           Quiet(d) == d.pc # "finish" /\ d.outcome # "THREAD_IDENTITY_MISMATCH"
<1>1. c.pc \in LoadingAt /\ UNCHANGED <<checkpoint, auditOwner>>
  BY DEF ReadRow, ReadPolicy, ReadBalance, LoadingFails, Loading, LoadingAt
<1>2. c \in Calls /\ c.outcome = "NONE" /\ c.pc \notin {"interrupted", "finish"}
  BY <1>1, OfThread, Unsettled DEF LoadingAt
<1>3. ASSUME NEW d, Become(t, d), Quiet(d) PROVE SameOwner'
  BY <1>1, <1>2, <1>3, OwnersRest
<1>4. ASSUME NEW d \in Calls, NEW o \in Outcomes \ {"THREAD_IDENTITY_MISMATCH"}
      PROVE  Quiet(Unloaded(d, o))
  BY UnloadedShape
<1>5. ASSUME NEW d \in Calls, Quiet(d), NEW x \in Tools PROVE Quiet(Authorized(d, x))
  <2> DEFINE rows == [step |-> "reading", actor |-> Unread, target |-> Unread]
             found == authorizeLeaveRead(d.actor, d.tools[x].actor, LeaveOf(d),
                                         d.tools[x].target)
  <2>1. found \in {"EMPLOYEE_NOT_FOUND", "EMPLOYEE_INACTIVE", "AUTHORIZATION_DENIED", "FOUND"}
    BY DEF authorizeLeaveRead
  <2>2. found # "FOUND" => found \in Outcomes \ {"THREAD_IDENTITY_MISMATCH"}
    BY <2>1 DEF Outcomes
  <2>3. found # "FOUND" => Quiet(Unloaded(d, found))
    BY <1>4, <2>2
  <2>4. Quiet([d EXCEPT !.tools[x] = rows])
    BY <1>5 DEF Calls
  <2> HIDE DEF found, rows, Quiet
  <2> QED
    BY <1>5, <2>3, <2>4 DEF Authorized, found, rows
<1>6. ASSUME NEW d \in Calls, Quiet(d) PROVE Quiet(Loaded(d))
  <2> DEFINE e == Go(d, "leave_proposal_calculation")
  <2>1. e \in Calls /\ Quiet(e)
    BY <1>6, GoShape DEF Nodes
  <2> HIDE DEF e
  <2>2. Quiet([e EXCEPT !.tools = NothingRead])
    BY <2>1 DEF Calls
  <2>3. Quiet([d EXCEPT !.pc = "submit", !.tools = NothingRead])
    BY <1>6 DEF Calls
  <2> QED
    BY <1>6, <2>2, <2>3 DEF Loaded, e
<1>7. Quiet(c)
  BY <1>2
<1>8. ASSUME NEW x \in Tools, ReadRow(t, x) PROVE SameOwner'
  <2>1. \A row \in Row \cup {NoRow, Unread} :
            /\ [c EXCEPT !.tools[x].actor = row] \in Calls
            /\ Quiet([c EXCEPT !.tools[x].actor = row])
            /\ [c EXCEPT !.tools[x].target = row] \in Calls
            /\ Quiet([c EXCEPT !.tools[x].target = row])
    <3>1. c.tools \in [Tools -> Reading] /\ c.tools[x] \in Reading
      BY <1>2 DEF Calls
    <3>2. ASSUME NEW row \in Row \cup {NoRow, Unread}
          PROVE  /\ [c.tools EXCEPT ![x].actor = row] \in [Tools -> Reading]
                 /\ [c.tools EXCEPT ![x].target = row] \in [Tools -> Reading]
      BY <3>1 DEF Reading
    <3> QED
      BY <1>2, <1>7, <3>2 DEF Calls
  <2>2. \A code : findByEmployeeCode(code) \in Row \cup {NoRow, Unread}
    BY World DEF findByEmployeeCode, Staff
  <2> HIDE DEF Quiet
  <2> QED
    BY <1>3, <1>5, <1>8, <2>1, <2>2 DEF ReadRow
<1>9. ASSUME ReadPolicy(t) PROVE SameOwner'
  <2> DEFINE d == [c EXCEPT !.tools["policy"].step = "done", !.terms.policy = policy]
  <2>1. d \in Calls /\ Quiet(d)
    <3>1. [c.tools EXCEPT !["policy"].step = "done"] \in [Tools -> Reading]
      BY <1>2 DEF Calls, Reading, Tools
    <3>2. [c.terms EXCEPT !.policy = policy] \in Terms
      BY <1>2, World DEF Calls, Terms
    <3> QED
      BY <1>2, <1>7, <3>1, <3>2 DEF Calls
  <2> HIDE DEF Quiet, d
  <2> QED
    BY <1>3, <1>6, <1>9, <2>1 DEF ReadPolicy, d
<1>10. ASSUME ReadBalance(t) PROVE SameOwner'
  <2> DEFINE available == balance[LeaveOf(c)][YearOf(StartOf(c))]
             d == [c EXCEPT !.tools["balance"].step = "done", !.terms.available = available]
  <2>1. Quiet(Unloaded(c, "LEAVE_BALANCE_NOT_FOUND"))
    BY <1>2, <1>4 DEF Outcomes
  <2>2. ASSUME available # NoBalance PROVE d \in Calls /\ Quiet(d)
    <3>1. [c.tools EXCEPT !["balance"].step = "done"] \in [Tools -> Reading]
      BY <1>2 DEF Calls, Reading, Tools
    <3>2. available \in Int
      <4>1. ToolRead(c, "balance") /\ c.tools["balance"].step = "reading"
        BY <1>10, AtLoading DEF ReadBalance, Tools
      <4>2. LeaveOf(c) \in Employees
        BY <4>1 DEF ToolRead
      <4>3. balance[LeaveOf(c)] \in [1 .. 2 -> Int \cup {NoBalance}]
        BY <4>2, World
      <4>4. YearOf(StartOf(c)) \in 1 .. 2
        BY DEF YearOf
      <4> QED
        BY <2>2, <4>3, <4>4
    <3> HIDE DEF available
    <3>3. [c.terms EXCEPT !.available = available] \in Terms
      BY <1>2, <3>2 DEF Calls, Terms
    <3> QED
      BY <1>2, <1>7, <3>1, <3>3 DEF Calls
  <2> HIDE DEF Quiet, d, available
  <2>3. Become(t, IF available = NoBalance THEN Unloaded(c, "LEAVE_BALANCE_NOT_FOUND")
                  ELSE Loaded(d))
    BY <1>10 DEF ReadBalance, d, available
  <2> QED
    BY <1>3, <1>6, <2>1, <2>2, <2>3
<1>11. ASSUME LoadingFails(t) PROVE SameOwner'
  <2>1. Quiet(Unloaded(c, "INTERNAL_ERROR"))
    BY <1>2, <1>4 DEF Outcomes
  <2> QED
    BY <1>3, <1>11, <2>1 DEF LoadingFails
<1> QED
  BY <1>8, <1>9, <1>10, <1>11

(* The ends of a run: the interrupt and its answer, the audit row, the     *)
(* last checkpoint.                                                        *)
LEMMA EndsKeepOwners ==
    ASSUME ~AuditFails, IInv, SameOwner, NEW t \in Threads,
           Interrupt(t) \/ AwaitApproval(t) \/ RespondAndAudit(t) \/ Finish(t) \/ Return(t)
    PROVE  SameOwner'
<1> DEFINE c == call[t]
           k == checkpoint[t]
           a == auditOwner[t]
<1>1. c \in Calls /\ SameOwnerOf(c, k, a) /\ Owned(c, k, a)
  BY OfThread DEF SameOwner, CallInv
<1>2. c.pc \in Running => c.actor # NoEmployee /\ a \in {NoEmployee, c.actor}
  BY <1>1, RulesAssumption DEF Owned, Codes
<1>3. checkpoint' = checkpoint => checkpoint' = [checkpoint EXCEPT ![t] = k]
  BY DEF IInv, TypeOK
<1>4. auditOwner' = auditOwner => auditOwner' = [auditOwner EXCEPT ![t] = a]
  BY DEF IInv, TypeOK
<1>5. ASSUME NEW node, Save(t, node), NEW pc, Become(t, [c EXCEPT !.pc = pc]),
             auditOwner' = auditOwner, c.actor # NoEmployee, c.outcome # "THREAD_IDENTITY_MISMATCH",
             pc = "interrupted" \/ (pc = "answered" /\ a = c.actor)
      PROVE  SameOwner'
  <2> DEFINE d == [c EXCEPT !.pc = pc]
             saved == [owner |-> c.actor, at |-> node,
                       proposal |-> IF node = "leave_approval" THEN c.proposal ELSE NoProposal,
                       pending |-> c.pending, origin |-> c.origin]
  <2>1. d.pc = pc /\ d.actor = c.actor /\ d.outcome = c.outcome
    BY <1>1 DEF Calls
  <2>2. saved.owner = c.actor /\ checkpoint' = [checkpoint EXCEPT ![t] = saved]
        /\ call' = [call EXCEPT ![t] = d]
    BY <1>5 DEF Save, Become
  <2> HIDE DEF d, saved
  <2>3. SameOwnerOf(d, saved, a)
    BY <1>5, <2>1, <2>2 DEF SameOwnerOf
  <2> QED
    BY <1>4, <1>5, <2>2, <2>3, OwnersOnThread
<1>6. CASE Interrupt(t)
  <2>1. /\ c.pc \in Running /\ c.pc # "answered" /\ Save(t, "leave_approval")
        /\ Become(t, [c EXCEPT !.pc = "interrupted"]) /\ auditOwner' = auditOwner
    BY <1>6 DEF Interrupt, Running, Nodes
  <2> QED
    BY <1>1, <1>2, <1>5, <2>1 DEF SameOwnerOf
<1>7. CASE Finish(t)
  <2>1. /\ c.pc = "finish" /\ c.pc \in Running /\ Save(t, "END")
        /\ Become(t, [c EXCEPT !.pc = "answered"]) /\ auditOwner' = auditOwner
    BY <1>7 DEF Finish, Running
  <2> QED
    BY <1>1, <1>2, <1>5, <2>1 DEF SameOwnerOf
<1>8. CASE AwaitApproval(t)
  <2>1. c.pc \in Running /\ RecordAndAnswer(t, "LEAVE_APPROVAL_REQUIRED")
    BY <1>8 DEF AwaitApproval, Running
  <2> QED
    BY <1>2, <2>1, RecordKeepsOwners DEF Outcomes
<1>9. CASE RespondAndAudit(t)
  <2>1. c.pc = "response_audit" /\ c.pc \in Running
    BY <1>9 DEF RespondAndAudit, Running, Nodes
  <2>2. CASE Throw(t)
    BY <2>1, <2>2, ThrowKeepsOwners
  <2>3. CASE /\ RecordRun(t) /\ checkpoint' = checkpoint
             /\ Become(t, [c EXCEPT !.pc = "finish", !.outcome = ResultOf(c),
                                    !.audited = TRUE])
    <3> DEFINE d == [c EXCEPT !.pc = "finish", !.outcome = ResultOf(c), !.audited = TRUE]
               b == IF a = NoEmployee THEN c.actor ELSE a
    <3>1. d.pc = "finish" /\ d.actor = c.actor /\ d.outcome = ResultOf(c)
      BY <1>1 DEF Calls
    <3>2. ResultOf(c) # "THREAD_IDENTITY_MISMATCH"
      BY <1>1, <2>1 DEF ResultOf, SameOwnerOf
    <3>3. auditOwner' = [auditOwner EXCEPT ![t] = b] /\ call' = [call EXCEPT ![t] = d]
      BY <2>3 DEF RecordRun, Become, IInv, TypeOK
    <3>4. SameOwnerOf(d, k, b)
      <4> HIDE DEF d
      <4> QED
        BY <1>1, <1>2, <2>1, <3>1, <3>2 DEF SameOwnerOf
    <3> HIDE DEF d, b
    <3> QED
      BY <1>3, <2>3, <3>3, <3>4, OwnersOnThread
  <2> QED
    BY <1>9, <2>2, <2>3 DEF RespondAndAudit
<1>10. CASE Return(t)
  <2>1. /\ c.pc = "answered" /\ Become(t, Idle) /\ UNCHANGED <<checkpoint, auditOwner>>
        /\ Idle.pc = "idle" /\ Idle.outcome = "NONE"
    BY <1>10 DEF Return, Idle
  <2> QED
    BY <2>1, OwnersRest
<1> QED
  BY <1>6, <1>7, <1>8, <1>9, <1>10

(* SameOwner is inductive while every run is recorded and nothing crashes. *)
LEMMA OwnersStep ==
    ASSUME ~AuditFails, ~Crashes, IInv, SameOwner, [Next]_vars
    PROVE  SameOwner'
<1>1. ASSUME NEW t \in Threads, Step(t) PROVE SameOwner'
  BY <1>1, IdentifyKeepsOwners, NodesKeepOwners, LoadingKeepsOwners,
     EndsKeepOwners DEF Step
<1>2. ASSUME NEW t \in Threads, NEW actor, NEW decision, NEW query,
             Ask(t, actor, decision, query)
      PROVE  SameOwner'
  <2>1. PICK d : d = [Idle EXCEPT !.pc = "identity", !.actor = actor, !.decision = decision,
                              !.query = query, !.pending = checkpoint[t].pending,
                              !.origin = checkpoint[t].origin,
                              !.behind = checkpoint[t].origin, !.seen = {Now}]
    OBVIOUS
  <2>2. d.pc = "identity" /\ d.outcome = "NONE"
    BY <2>1 DEF Idle
  <2>3. call[t].pc = "idle" /\ Become(t, d) /\ UNCHANGED <<checkpoint, auditOwner>>
    BY <1>2, <2>1 DEF Ask, Idle
  <2> QED
    BY <2>2, <2>3, OwnersRest
<1>3. CASE Change
  <2>1. ASSUME NEW t \in Threads
        PROVE  /\ call'[t].pc = call[t].pc /\ call'[t].actor = call[t].actor
               /\ call'[t].outcome = call[t].outcome
    <3>1. call[t] \in Calls
      BY OfThread
    <3>2. call'[t] = call[t] \/ \E s : call'[t] = [call[t] EXCEPT !.seen = s]
      BY <1>3 DEF Change, Witness
    <3> QED
      BY <3>1, <3>2 DEF Calls
  <2>2. UNCHANGED <<checkpoint, auditOwner>>
    BY <1>3 DEF Change
  <2> QED
    BY <2>1, <2>2 DEF SameOwner, SameOwnerOf
<1>4. CASE UNCHANGED vars
  BY <1>4 DEF vars, SameOwner
<1>5. ASSUME NEW t \in Threads, Crash(t) PROVE FALSE
  BY <1>5 DEF Crash
<1> QED
  BY <1>1, <1>2, <1>3, <1>4, <1>5 DEF Next

(* As long as every run is recorded and the process lives, nobody is       *)
(* turned away from a conversation of his own: that takes an audit that    *)
(* fails or a crash (rejectThreadIdentityMismatch of the runner).          *)
THEOREM OwnersAreServed ==
    ASSUME ~AuditFails, ~Crashes
    PROVE  Spec => []OwnerIsServed
<1>1. Init => SameOwner
  BY DEF Init, SameOwner, SameOwnerOf, Idle
<1>2. IInv /\ SameOwner /\ [Next]_vars => SameOwner'
  BY OwnersStep
<1>3. SameOwner => OwnerIsServed
  BY DEF SameOwner, SameOwnerOf, OwnerIsServed
<1> QED
  BY <1>1, <1>2, <1>3, ConversationInvariant, PTL DEF Spec
=============================================================================
