-------------------------- MODULE AgentConversation --------------------------
(***************************************************************************)
(* Conversations with the agent: runHcmAgentGraph and the graph it runs.   *)
(*                                                                         *)
(* A call on a thread checks who owns the conversation and then runs the   *)
(* nodes of the graph: one action per node, and in a node that waits for   *)
(* several reads of employee data one per read, for others can change the  *)
(* data in between.  A call either asks (decision "NONE") or decides on    *)
(* the proposal at which an earlier call was interrupted.                  *)
(* Calls of one thread follow each other (ThreadExecutionLock).  The       *)
(* language model may answer anything that its contract lets pass, the     *)
(* database may refuse any access, the process may die at any moment, and  *)
(* the employee data and the date change under a call.                     *)
(***************************************************************************)
EXTENDS ConversationRules

CONSTANTS
    Threads,
    Queries,                        \* what is asked
    EmptyQuery,                     \* the text of a call that decides
    Tables,                         \* contents of the employee and leave tables
    FirstDay, LastDay,              \* of the clock
    MaxCalls, MaxChanges, MaxEvents,    \* bounds on the calls, on changes and
                                        \* crashes, and on all of them
    NoProposal,
    AuditFails,                     \* whether writing the audit may fail
    Crashes                         \* whether the process may die

ASSUME ConversationAssumption ==
    /\ Queries \cup {EmptyQuery} \subseteq Query
    /\ \A q \in Queries \cup {EmptyQuery} : q.bareCode => q.codes # {}
    /\ EmptyQuery.dates = <<>>
    /\ NoProposal \notin [employee: Employees, start: Days, end: Days, days: Nat]
    /\ Tables # {}
    /\ Tables \subseteq [staff: Staff, policy: Policy,
                         balance: [Employees -> [1 .. 2 -> Int \cup {NoBalance}]]]
    /\ FirstDay \in Nat /\ LastDay \in Nat /\ MaxCalls \in Nat
    /\ MaxChanges \in Nat /\ MaxEvents \in Nat
    /\ AuditFails \in BOOLEAN /\ Crashes \in BOOLEAN

VARIABLES
    tables,                     \* employee and leave tables
    today,                      \* the clock
    changes,                    \* how often these have changed or the process has died
    checkpoint,                 \* per thread, the saved state of the graph
    auditOwner,                 \* per thread, the actor of its earliest audit row
    request,                    \* per thread, the leave request with its id
    call,                       \* per thread, the call in work
    calls                       \* how many calls there have been

world == <<tables, today, changes>>
vars == <<tables, today, changes, checkpoint, auditOwner, request, call, calls>>

staff == tables.staff
balance == tables.balance
policy == tables.policy

-----------------------------------------------------------------------------
(* Types                                                                   *)

Nodes == {"request_guard", "intent_normalization", "routing",
          "employee_lookup", "onboarding_calculation", "manager_notification",
          "parallel_leave_context", "leave_proposal_calculation", "leave_approval",
          "response_audit"}

Decisions == {"NONE", "APPROVE", "REJECT"}

Proposals ==
    [employee: Employees, start: Days, end: Days, days: Nat]

Requests == [proposal: Proposals \cup {NoProposal}, by: Employees \cup {NoEmployee}]
NoRequest == [proposal |-> NoProposal, by |-> NoEmployee]

NoIntent == [Unsupported EXCEPT !.intent = "NONE"]

(* A checkpoint: the owner, the node to continue with ("NONE" without a    *)
(* checkpoint, "END" after a run), the proposal of an interrupt, and the   *)
(* pending intent.  `origin` remembers the query the pending intent is of. *)
Checkpoints ==
    [owner: Employees \cup {NoEmployee}, at: Nodes \cup {"NONE", "END"},
     proposal: Proposals \cup {NoProposal}, pending: Intent, origin: Query]

(* The two tools that load the leave context run side by side.  Each reads *)
(* the rows of actor and target, authorizes, and then reads its own row.   *)
Tools == {"policy", "balance"}
Reading == [step: {"authorizing", "reading", "done"},
            actor: Row \cup {NoRow, Unread}, target: Row \cup {NoRow, Unread}]
NothingRead ==
    [x \in Tools |-> [step |-> "authorizing", actor |-> Unread, target |-> Unread]]

Terms == [policy: Policy, available: Int]
NoTerms == [policy |-> [notice |-> 0, maximum |-> 0], available |-> 0]

Snapshot == [tables: Tables, today: Nat]

(* A call.  `actorRow` and `day` are what an onboarding tool has read,     *)
(* `review` is what the calculation found, `tools` and `terms` what a      *)
(* leave node has read, `trail` the nodes begun so far.  `behind` and      *)
(* `seen` remember the query of the pending intent at the start of the     *)
(* call, and the tables since then.                                        *)

Idle ==
    [pc |-> "idle", actor |-> NoEmployee, decision |-> "NONE", query |-> EmptyQuery,
     intent |-> NoIntent, pending |-> Unsupported, origin |-> EmptyQuery,
     behind |-> EmptyQuery, actorRow |-> Unread, day |-> FirstDay, review |-> "NONE",
     tools |-> NothingRead, terms |-> NoTerms, proposal |-> NoProposal,
     notified |-> NoEmployee, outcome |-> "NONE", audited |-> FALSE,
     trail |-> {}, seen |-> {}]

Now == [tables |-> tables, today |-> today]

findByEmployeeCode(code) == IF code \in Employees THEN staff[code] ELSE NoRow

-----------------------------------------------------------------------------
(* Helpers.  `c` is a call.                                                *)

Go(c, node) == [c EXCEPT !.pc = node, !.trail = @ \cup {node}]

Respond(c, outcome) == [Go(c, "response_audit") EXCEPT !.outcome = outcome]

Answer(c, outcome) == [c EXCEPT !.pc = "answered", !.outcome = outcome]

Become(t, c) == call' = [call EXCEPT ![t] = c]

(* An exception leaves the graph where it is; the caller answers 500.      *)
Throw(t) ==
    /\ Become(t, Answer(call[t], "INTERNAL_ERROR"))
    /\ UNCHANGED <<checkpoint, auditOwner, request>>

Save(t, node) ==
    checkpoint' = [checkpoint EXCEPT ![t] =
        [owner |-> call[t].actor, at |-> node,
         proposal |-> IF node = "leave_approval" THEN call[t].proposal ELSE NoProposal,
         pending |-> call[t].pending, origin |-> call[t].origin]]

(* One transaction: the row with its steps and security events, or nothing. *)
RecordRun(t) ==
    auditOwner' = [auditOwner EXCEPT ![t] = IF @ = NoEmployee THEN call[t].actor ELSE @]

(* MUTANT of RecordAndAnswer: a failure to record the run is swallowed.    *)
RecordAndAnswer_unrecorded(t, outcome) ==
    /\ \/ /\ RecordRun(t)
          /\ Become(t, [Answer(call[t], outcome) EXCEPT !.audited = TRUE])
       \/ /\ AuditFails
          /\ Become(t, Answer(call[t], outcome))
          /\ UNCHANGED auditOwner
    /\ UNCHANGED <<checkpoint, request>>

(* The answer `outcome` after its audit row, or an exception without one.  *)
RecordAndAnswer(t, outcome) ==
    /\ \/ /\ RecordRun(t)
          /\ Become(t, [Answer(call[t], outcome) EXCEPT !.audited = TRUE])
       \/ /\ AuditFails
          /\ Become(t, Answer(call[t], "INTERNAL_ERROR"))
          /\ UNCHANGED auditOwner
    /\ UNCHANGED <<checkpoint, request>>

-----------------------------------------------------------------------------
Init ==
    /\ tables \in Tables
    /\ today = FirstDay
    /\ changes = 0
    /\ checkpoint = [t \in Threads |->
            [owner |-> NoEmployee, at |-> "NONE", proposal |-> NoProposal,
             pending |-> Unsupported, origin |-> EmptyQuery]]
    /\ auditOwner = [t \in Threads |-> NoEmployee]
    /\ request = [t \in Threads |-> NoRequest]
    /\ call = [t \in Threads |-> Idle]
    /\ calls = 0

(***************************************************************************)
(* From the call to the graph                                              *)
(***************************************************************************)

Ask(t, actor, decision, query) ==
    /\ call[t] = Idle
    /\ calls < MaxCalls /\ calls + changes < MaxEvents
    /\ calls' = calls + 1
    /\ Become(t, [Idle EXCEPT !.pc = "identity", !.actor = actor, !.decision = decision,
                              !.query = query, !.pending = checkpoint[t].pending,
                              !.origin = checkpoint[t].origin,
                              !.behind = checkpoint[t].origin, !.seen = {Now}])
    /\ UNCHANGED <<world, checkpoint, auditOwner, request>>

(* MUTANT of ownsThread: only the audit is asked for the owner.            *)
ownsThread_audited(t, actor) == auditOwner[t] \in {NoEmployee, actor}

(* The owner of a conversation, by the audit and by the checkpoint.        *)
ownsThread(t, actor) ==
    /\ auditOwner[t] \in {NoEmployee, actor}
    /\ checkpoint[t].owner \in {NoEmployee, actor}

RejectUnknown(t) ==
    /\ call[t].actor \notin Employees
    /\ Become(t, Answer(call[t], "AUTHENTICATION_REQUIRED"))
    /\ UNCHANGED <<checkpoint, auditOwner, request>>

RejectThreadIdentityMismatch(t) ==
    /\ call[t].actor \in Employees
    /\ ~ownsThread(t, call[t].actor)
    /\ RecordAndAnswer(t, "THREAD_IDENTITY_MISMATCH")

Decided(t) == call[t].decision # "NONE" /\ request[t] # NoRequest

AnswerExisting(t) ==
    /\ call[t].actor \in Employees
    /\ ownsThread(t, call[t].actor)
    /\ Decided(t)
    /\ RecordAndAnswer(t, IF call[t].decision = "APPROVE" THEN "ALREADY_SUBMITTED"
                          ELSE "LEAVE_REQUEST_ALREADY_SUBMITTED")

(* A query starts the graph anew.  A decision continues it where it was    *)
(* left, with an execution context that remembers nothing; where nothing   *)
(* was left there is no result.                                            *)
StartGraph(t) ==
    LET c == call[t]
        saved == checkpoint[t]
    IN  /\ c.actor \in Employees
        /\ ownsThread(t, c.actor)
        /\ ~Decided(t)
        /\ \/ /\ c.decision = "NONE"
              /\ Become(t, Go(c, "request_guard"))
              /\ UNCHANGED <<checkpoint, auditOwner, request>>
           \/ /\ c.decision # "NONE"
              /\ saved.at \in Nodes
              /\ Become(t, [Go(c, saved.at) EXCEPT !.proposal = saved.proposal])
              /\ UNCHANGED <<checkpoint, auditOwner, request>>
           \/ /\ c.decision # "NONE"
              /\ saved.at \notin Nodes
              /\ Throw(t)

Identify(t) ==
    /\ call[t].pc = "identity"
    /\ \/ RejectUnknown(t)
       \/ RejectThreadIdentityMismatch(t)
       \/ AnswerExisting(t)
       \/ StartGraph(t)
       \/ Throw(t)
    /\ UNCHANGED <<world, calls>>

(***************************************************************************)
(* The shared nodes                                                        *)
(***************************************************************************)

RequestGuard(t) ==
    LET c == call[t]
    IN  /\ c.pc = "request_guard"
        /\ Become(t, IF c.query.safe THEN Go(c, "intent_normalization")
                     ELSE Respond(c, "UNSAFE_REQUEST_REJECTED"))
        /\ UNCHANGED <<world, checkpoint, auditOwner, request, calls>>

NormalizeIntent(t) ==
    LET c == call[t]
    IN  /\ c.pc = "intent_normalization"
        /\ \/ Become(t, Respond(c, "MODEL_UNAVAILABLE"))
           \/ \E answer \in ModelAnswers :
                LET i == NormalizedIntent(c.query, answer, checkpoint[t].pending, c.actor)
                    pending == pendingState(i)
                IN  Become(t, [Go(c, "routing") EXCEPT
                        !.intent = i, !.pending = pending,
                        !.origin = IF pending = Unsupported THEN EmptyQuery ELSE c.query])
        /\ UNCHANGED <<world, checkpoint, auditOwner, request, calls>>

Routed(c) ==
    LET i == c.intent
    IN  CASE i.intent = "UNSUPPORTED" -> Respond(c, "UNSUPPORTED_REQUEST")
          [] i.intent = "LEAVE_REQUEST" ->
                IF NoDay \in {i.start, i.end} THEN Respond(c, "NEED_MORE_INFORMATION")
                ELSE Go(c, "parallel_leave_context")
          [] i.intent = "ONBOARDING_REVIEW" ->
                IF i.employee = NoEmployee THEN Respond(c, "NEED_MORE_INFORMATION")
                ELSE Go(c, "employee_lookup")

Route(t) ==
    LET c == call[t]
    IN  /\ c.pc = "routing"
        /\ \/ /\ c.intent # NoIntent
              /\ Become(t, Routed(c))
              /\ UNCHANGED <<checkpoint, auditOwner, request>>
           \/ c.intent = NoIntent /\ Throw(t)
        /\ UNCHANGED <<world, calls>>

(* MUTANT of ResultOf: no result is made of a review.                      *)
ResultOf_bare(c) == c.outcome

(* Without a result of an earlier node, the review is the result.          *)
ResultOf(c) == IF c.outcome = "NONE" THEN "COMPLETED" ELSE c.outcome

RespondAndAudit(t) ==
    LET c == call[t]
    IN  /\ c.pc = "response_audit"
        /\ \/ /\ c.outcome = "NONE" /\ c.review = "NONE"
              /\ Throw(t)
           \/ /\ c.outcome # "NONE" \/ c.review # "NONE"
              /\ \/ /\ RecordRun(t)
                    /\ Become(t, [c EXCEPT !.pc = "finish", !.outcome = ResultOf(c),
                                           !.audited = TRUE])
                 \/ /\ AuditFails
                    /\ Become(t, [c EXCEPT !.pc = "finish", !.outcome = "INTERNAL_ERROR"])
                    /\ UNCHANGED auditOwner
              /\ UNCHANGED <<checkpoint, request>>
        /\ UNCHANGED <<world, calls>>

Finish(t) ==
    /\ call[t].pc = "finish"
    /\ Save(t, "END")
    /\ Become(t, [call[t] EXCEPT !.pc = "answered"])
    /\ UNCHANGED <<world, auditOwner, request, calls>>

Return(t) ==
    /\ call[t].pc = "answered"
    /\ Become(t, Idle)
    /\ UNCHANGED <<world, checkpoint, auditOwner, request, calls>>

(***************************************************************************)
(* Onboarding review                                                       *)
(***************************************************************************)

Target(c) == IF c.intent.employee = NoEmployee THEN c.actor ELSE c.intent.employee

(* The tools of each node authorize again: they read the actor's row, and  *)
(* then the employee's.  The calculation is given the day it was called.   *)
ReadActor(t, node, next) ==
    LET c == call[t]
    IN  /\ c.pc = node
        /\ \/ /\ c.intent # NoIntent
              /\ \/ Become(t, [c EXCEPT !.pc = next, !.day = today,
                                       !.actorRow = findByEmployeeCode(c.actor)])
                 \/ Become(t, Respond(c, "INTERNAL_ERROR"))
              /\ UNCHANGED <<checkpoint, auditOwner, request>>
           \/ c.intent = NoIntent /\ Throw(t)
        /\ UNCHANGED <<world, calls>>

loadAuthorizedEmployee(c) ==
    LET e == c.intent.employee
    IN  employeeLookup(c.actor, c.actorRow, e, findByEmployeeCode(e))

LookedUp(c) ==
    LET found == loadAuthorizedEmployee(c)
    IN  IF found = "FOUND" THEN Go(c, "onboarding_calculation") ELSE Respond(c, found)

EmployeeLookup(t) ==
    /\ call[t].pc = "looking_up"
    /\ \/ Become(t, LookedUp(call[t]))
       \/ Become(t, Respond(call[t], "INTERNAL_ERROR"))
    /\ UNCHANGED <<world, checkpoint, auditOwner, request, calls>>

Reviewed(c) ==
    LET e == c.intent.employee
        found == loadAuthorizedEmployee(c)
        within == withinThreshold(e, c.day, c.intent.threshold)
        next == IF c.intent.action = "NOTIFY_MANAGER" THEN "manager_notification"
                ELSE "response_audit"
    IN  IF found # "FOUND" THEN Respond(c, found)
        ELSE IF ~staff[e].active THEN Respond(c, "EMPLOYEE_INACTIVE")
        ELSE IF ReviewEnd[e] = NoDay THEN Respond(c, "ONBOARDING_REVIEW_NOT_FOUND")
        ELSE [Go(c, next) EXCEPT !.review = IF within THEN "WITHIN" ELSE "OUTSIDE"]

OnboardingCalculation(t) ==
    /\ call[t].pc = "calculating"
    /\ \/ Become(t, Reviewed(call[t]))
       \/ Become(t, Respond(call[t], "INTERNAL_ERROR"))
    /\ UNCHANGED <<world, checkpoint, auditOwner, request, calls>>

mayNotifyOf(c) == mayNotify(c.actorRow.role, c.actor, staff[c.intent.employee].manager)

(* MUTANT of Notified: also of a review that ends outside of the threshold. *)
Notified_always(c) ==
    LET e == c.intent.employee
    IN  IF loadAuthorizedEmployee(c) # "FOUND" \/ ~mayNotifyOf(c)
        THEN Respond(c, "AUTHORIZATION_DENIED")
        ELSE IF staff[e].manager = NoEmployee
        THEN Go(c, "response_audit")
        ELSE [Go(c, "response_audit") EXCEPT !.notified = e]

Notified(c) ==
    LET e == c.intent.employee
    IN  IF loadAuthorizedEmployee(c) # "FOUND" \/ ~mayNotifyOf(c)
        THEN Respond(c, "AUTHORIZATION_DENIED")
        ELSE IF c.review = "OUTSIDE" \/ staff[e].manager = NoEmployee
        THEN Go(c, "response_audit")
        ELSE [Go(c, "response_audit") EXCEPT !.notified = e]

ManagerNotification(t) ==
    /\ call[t].pc = "notifying"
    /\ \/ Become(t, Notified(call[t]))
       \/ Become(t, Respond(call[t], "INTERNAL_ERROR"))
    /\ UNCHANGED <<world, checkpoint, auditOwner, request, calls>>

(***************************************************************************)
(* Leave                                                                   *)
(***************************************************************************)

(* loadLeaveContext, of the node for the context (with an intent), and of  *)
(* the approval: the employee and the first day, and what it leads to.     *)
Loading(c) ==
    \/ c.pc = "parallel_leave_context" /\ c.intent # NoIntent
    \/ c.pc = "revalidation"

LeaveOf(c) == IF c.pc = "revalidation" THEN c.proposal.employee ELSE Target(c)
StartOf(c) == IF c.pc = "revalidation" THEN c.proposal.start ELSE c.intent.start

Unloaded(c, outcome) == [Respond(c, outcome) EXCEPT !.tools = NothingRead]

(* Promise.all of the two tools.                                           *)
Loaded(c) ==
    IF \E x \in Tools : c.tools[x].step # "done" THEN c
    ELSE IF c.pc = "revalidation" THEN [c EXCEPT !.pc = "submit", !.tools = NothingRead]
    ELSE [Go(c, "leave_proposal_calculation") EXCEPT !.tools = NothingRead]

(* Promise.all of the two rows a tool authorizes with.                     *)
Authorized(c, x) ==
    LET rows == c.tools[x]
        found == authorizeLeaveRead(c.actor, rows.actor, LeaveOf(c), rows.target)
    IN  IF rows.actor = Unread \/ rows.target = Unread THEN c
        ELSE IF found # "FOUND" THEN Unloaded(c, found)
        ELSE [c EXCEPT !.tools[x] = [step |-> "reading", actor |-> Unread, target |-> Unread]]

ReadRow(t, x) ==
    LET c == call[t]
    IN  /\ Loading(c)
        /\ c.tools[x].step = "authorizing"
        /\ \/ /\ c.tools[x].actor = Unread
              /\ Become(t, Authorized(
                    [c EXCEPT !.tools[x].actor = findByEmployeeCode(c.actor)], x))
           \/ /\ c.tools[x].target = Unread
              /\ Become(t, Authorized(
                    [c EXCEPT !.tools[x].target = findByEmployeeCode(LeaveOf(c))], x))
        /\ UNCHANGED <<world, checkpoint, auditOwner, request, calls>>

ReadPolicy(t) ==
    LET c == call[t]
    IN  /\ Loading(c)
        /\ c.tools["policy"].step = "reading"
        /\ Become(t, Loaded([c EXCEPT !.tools["policy"].step = "done",
                                      !.terms.policy = policy]))
        /\ UNCHANGED <<world, checkpoint, auditOwner, request, calls>>

ReadBalance(t) ==
    LET c == call[t]
        available == balance[LeaveOf(c)][YearOf(StartOf(c))]
    IN  /\ Loading(c)
        /\ c.tools["balance"].step = "reading"
        /\ Become(t, IF available = NoBalance THEN Unloaded(c, "LEAVE_BALANCE_NOT_FOUND")
                     ELSE Loaded([c EXCEPT !.tools["balance"].step = "done",
                                           !.terms.available = available]))
        /\ UNCHANGED <<world, checkpoint, auditOwner, request, calls>>

(* A read is refused, or there is no intent to load anything for.          *)
LoadingFails(t) ==
    /\ call[t].pc \in {"parallel_leave_context", "revalidation"}
    /\ Become(t, Unloaded(call[t], "INTERNAL_ERROR"))
    /\ UNCHANGED <<world, checkpoint, auditOwner, request, calls>>

Proposed(c) ==
    LET i == c.intent
        days == countWorkingDays(i.start, i.end)
    IN  IF ~validRange(i.start, i.end) THEN Respond(c, "INVALID_LEAVE_DATES")
        ELSE IF ~eligible(today, i.start, i.end, c.terms.policy, c.terms.available)
        THEN Respond(c, "COMPLETED")
        ELSE [Go(c, "leave_approval") EXCEPT !.proposal =
                [employee |-> Target(c), start |-> i.start, end |-> i.end, days |-> days]]

LeaveProposal(t) ==
    LET c == call[t]
    IN  /\ c.pc = "leave_proposal_calculation"
        /\ \/ /\ c.intent # NoIntent
              /\ Become(t, Proposed(c))
              /\ UNCHANGED <<checkpoint, auditOwner, request>>
           \/ c.intent = NoIntent /\ Throw(t)
        /\ UNCHANGED <<world, calls>>

(* The graph stops and saves its state; the runner then answers 202.       *)
Interrupt(t) ==
    /\ call[t].pc = "leave_approval"
    /\ call[t].decision = "NONE"
    /\ Save(t, "leave_approval")
    /\ Become(t, [call[t] EXCEPT !.pc = "interrupted"])
    /\ UNCHANGED <<world, auditOwner, request, calls>>

AwaitApproval(t) ==
    /\ call[t].pc = "interrupted"
    /\ RecordAndAnswer(t, "LEAVE_APPROVAL_REQUIRED")
    /\ UNCHANGED <<world, calls>>

Reject(t) ==
    /\ call[t].pc = "leave_approval"
    /\ call[t].decision = "REJECT"
    /\ Become(t, Respond(call[t], "LEAVE_REQUEST_REJECTED"))
    /\ UNCHANGED <<world, checkpoint, auditOwner, request, calls>>

(* The id in the proposal is resolved, which may find nobody or throw, and *)
(* then everything is read again.                                          *)
Approve(t) ==
    LET c == call[t]
    IN  /\ c.pc = "leave_approval"
        /\ c.decision = "APPROVE"
        /\ \/ /\ \/ Become(t, [c EXCEPT !.pc = "revalidation"])
                 \/ Become(t, Respond(c, "EMPLOYEE_NOT_FOUND"))
              /\ UNCHANGED <<checkpoint, auditOwner, request>>
           \/ Throw(t)
        /\ UNCHANGED <<world, calls>>

(* The id of a request is computed from its thread, and an upsert with     *)
(* nothing to update keeps the request that is there.                      *)
submitApproved(t) ==
    request' = [request EXCEPT ![t] =
        IF @ = NoRequest THEN [proposal |-> call[t].proposal, by |-> call[t].actor] ELSE @]

(* MUTANT of StillEligible: the proposal was eligible when it was shown.   *)
StillEligible_shown(c) == c.proposal # NoProposal

StillEligible(c) ==
    eligible(today, c.proposal.start, c.proposal.end, c.terms.policy, c.terms.available)

(* MUTANT of Submit: a failure to store the request is swallowed.          *)
Submit_swallowing(t) ==
    LET c == call[t]
    IN  /\ c.pc = "submit"
        /\ \/ /\ StillEligible(c)
              /\ Become(t, Respond(c, "SUBMITTED"))
              /\ submitApproved(t) \/ UNCHANGED request
           \/ /\ ~StillEligible(c)
              /\ Become(t, Respond(c, "LEAVE_PROPOSAL_CHANGED"))
              /\ UNCHANGED request
        /\ UNCHANGED <<world, checkpoint, auditOwner, calls>>

Submit(t) ==
    LET c == call[t]
    IN  /\ c.pc = "submit"
        /\ \/ /\ StillEligible(c)
              /\ submitApproved(t)
              /\ Become(t, Respond(c, "SUBMITTED"))
              /\ UNCHANGED <<checkpoint, auditOwner>>
           \/ /\ ~StillEligible(c)
              /\ Become(t, Respond(c, "LEAVE_PROPOSAL_CHANGED"))
              /\ UNCHANGED <<checkpoint, auditOwner, request>>
           \/ StillEligible(c) /\ Throw(t)
        /\ UNCHANGED <<world, calls>>

(***************************************************************************)
(* Crashes, and the world around a call                                    *)
(***************************************************************************)

(* The process dies.  Checkpoints are written while the next node runs, so *)
(* that the last that is found may be that of any node the run has begun,  *)
(* or the one before the run; an interrupt is saved before it is answered. *)
Crash(t) ==
    LET c == call[t]
    IN  /\ Crashes
        /\ c.pc \notin {"idle", "answered"}
        /\ changes < MaxChanges /\ calls + changes < MaxEvents
        /\ changes' = changes + 1
        /\ Become(t, Idle)
        /\ \/ UNCHANGED checkpoint
           \/ \E node \in c.trail :
                /\ c.pc # "interrupted"
                /\ checkpoint' = [checkpoint EXCEPT ![t] =
                    LET before == node \in {"request_guard", "intent_normalization"}
                    IN  [owner |-> c.actor, at |-> node,
                         proposal |-> IF node = "leave_approval" THEN c.proposal
                                      ELSE NoProposal,
                         pending |-> IF before THEN @.pending ELSE c.pending,
                         origin |-> IF before THEN @.origin ELSE c.origin]]
        /\ UNCHANGED <<tables, today, auditOwner, request, calls>>

Witness ==
    call' = [t \in Threads |->
        IF call[t].pc \in {"idle", "answered"} THEN call[t]
        ELSE [call[t] EXCEPT !.seen = @ \cup {[tables |-> tables', today |-> today']}]]

(* Somebody maintains the tables, or a day passes.                         *)
Change ==
    /\ changes < MaxChanges /\ calls + changes < MaxEvents
    /\ changes' = changes + 1
    /\ \/ tables' \in Tables \ {tables} /\ UNCHANGED today
       \/ today < LastDay /\ today' = today + 1 /\ UNCHANGED tables
    /\ Witness
    /\ UNCHANGED <<checkpoint, auditOwner, request, calls>>

Step(t) ==
    \/ Identify(t)
    \/ RequestGuard(t)
    \/ NormalizeIntent(t)
    \/ Route(t)
    \/ ReadActor(t, "employee_lookup", "looking_up")
    \/ EmployeeLookup(t)
    \/ ReadActor(t, "onboarding_calculation", "calculating")
    \/ OnboardingCalculation(t)
    \/ ReadActor(t, "manager_notification", "notifying")
    \/ ManagerNotification(t)
    \/ \E x \in Tools : ReadRow(t, x)
    \/ ReadPolicy(t)
    \/ ReadBalance(t)
    \/ LoadingFails(t)
    \/ LeaveProposal(t)
    \/ Interrupt(t)
    \/ AwaitApproval(t)
    \/ Reject(t)
    \/ Approve(t)
    \/ Submit(t)
    \/ RespondAndAudit(t)
    \/ Finish(t)
    \/ Return(t)

Next ==
    \/ \E t \in Threads :
        \/ \E actor \in Codes :
            \/ \E query \in Queries : Ask(t, actor, "NONE", query)
            \/ \E decision \in {"APPROVE", "REJECT"} : Ask(t, actor, decision, EmptyQuery)
        \/ Step(t)
        \/ Crash(t)
    \/ Change

Spec == Init /\ [][Next]_vars

-----------------------------------------------------------------------------
(* Properties                                                              *)

PCs == Nodes \cup {"idle", "identity", "looking_up", "calculating", "notifying",
                    "interrupted", "revalidation", "submit", "finish", "answered"}

Outcomes ==
    {"NONE", "COMPLETED", "INTERNAL_ERROR", "AUTHENTICATION_REQUIRED",
     "THREAD_IDENTITY_MISMATCH", "ALREADY_SUBMITTED", "LEAVE_REQUEST_ALREADY_SUBMITTED",
     "UNSAFE_REQUEST_REJECTED", "MODEL_UNAVAILABLE", "UNSUPPORTED_REQUEST",
     "NEED_MORE_INFORMATION", "EMPLOYEE_NOT_FOUND", "AUTHORIZATION_DENIED",
     "EMPLOYEE_INACTIVE", "ONBOARDING_REVIEW_NOT_FOUND", "LEAVE_BALANCE_NOT_FOUND",
     "INVALID_LEAVE_DATES", "LEAVE_APPROVAL_REQUIRED", "LEAVE_REQUEST_REJECTED",
     "LEAVE_PROPOSAL_CHANGED", "SUBMITTED"}

Calls ==
    [pc: PCs, actor: Codes \cup {NoEmployee}, decision: Decisions, query: Query,
     intent: Intent \cup {NoIntent}, pending: Intent, origin: Query, behind: Query,
     actorRow: Row \cup {NoRow, Unread}, day: Nat, review: {"NONE", "WITHIN", "OUTSIDE"},
     tools: [Tools -> Reading], terms: Terms, proposal: Proposals \cup {NoProposal},
     notified: Employees \cup {NoEmployee},
     outcome: Outcomes, audited: BOOLEAN, trail: SUBSET Nodes, seen: SUBSET Snapshot]

(* The variables have their types, and a call that ends has a result       *)
(* (GraphResultMissing is never thrown at the end of a run).               *)
TypeOK ==
    /\ tables \in Tables
    /\ today \in Nat /\ changes \in Nat /\ calls \in Nat
    /\ checkpoint \in [Threads -> Checkpoints]
    /\ auditOwner \in [Threads -> Employees \cup {NoEmployee}]
    /\ request \in [Threads -> Requests]
    /\ call \in [Threads -> Calls]
    /\ \A t \in Threads : call[t].pc \in {"finish", "answered"} => call[t].outcome # "NONE"

(* A conversation keeps its first owner, and its only leave request is the *)
(* proposal that waited for a decision, approved by the owner: threads and *)
(* crashes between storing, checkpoint and audit never make it another one *)
(* or a second one.                                                        *)
Decision == INSTANCE LeaveDecision WITH
    owner <- [t \in Threads |-> checkpoint[t].owner],
    shown <- [t \in Threads |-> checkpoint[t].proposal],
    submitted <- request

ImplementsLeaveDecision == Decision!Spec

(* What a decision is answered is true: 201 names a request that is the    *)
(* proposal this call approved, and after a rejection or a failed          *)
(* revalidation the conversation has none.                                 *)
DecisionsAreTrue ==
    \A t \in Threads :
        LET c == call[t]
        IN  /\ c.outcome = "SUBMITTED" =>
                request[t] = [proposal |-> c.proposal, by |-> c.actor]
            /\ c.outcome \in {"LEAVE_REQUEST_REJECTED", "LEAVE_PROPOSAL_CHANGED"} =>
                request[t] = NoRequest
            /\ c.outcome = "ALREADY_SUBMITTED" => request[t] # NoRequest

(* A request is submitted only if, since its approval came in, there was a *)
(* moment when the actor was active and HR or the employee, one when the   *)
(* employee was active, and when policy, balance and date, each at one     *)
(* moment, allowed it by the reference rules.  The reads of two tools are  *)
(* no snapshot: no single moment need have allowed it.  An approval of an  *)
(* old proposal is worth nothing by itself.                                *)
RevalidatedSinceApproval ==
    \A t \in Threads :
        LET c == call[t]
            p == c.proposal
        IN  c.outcome = "SUBMITTED" =>
                /\ p.days = WorkingDaysFrom(p.start, p.end)
                /\ \E s \in c.seen :
                    /\ s.tables.staff[c.actor].active
                    /\ c.actor = p.employee \/ s.tables.staff[c.actor].role = "HR"
                /\ \E s \in c.seen : s.tables.staff[p.employee].active
                /\ \E s, next, last \in c.seen :
                    LET available == next.tables.balance[p.employee][YearOf(p.start)]
                    IN  /\ available # NoBalance
                        /\ WithinPolicy(last.today, p.start, p.end, s.tables.policy, available)

(* Whatever the model answers, a query concerns an employee it names, or   *)
(* the actor where it speaks of himself, and only the dates it names; the  *)
(* text of a decision concerns nobody.                                     *)
TargetsAreNamed ==
    \A t \in Threads :
        LET c == call[t]
            i == c.intent
        IN  i # NoIntent =>
                /\ \/ i.employee \in c.query.codes \cup {NoEmployee}
                   \/ i.employee = c.actor /\ c.query.self
                /\ {i.start, i.end} \subseteq DatesIn(c.query) \cup {NoDay}

(* A manager is notified only if the query, or the one whose question for  *)
(* the employee this query answers, asked for it in so many words, and     *)
(* there were moments during the call when the actor was HR, or a manager  *)
(* and the employee's, when the employee was active, and when the review   *)
(* ended within the days asked for.  The rows of actor and employee are    *)
(* read one after the other, so that these moments may differ.             *)
NotifiedAsAsked ==
    \A t \in Threads :
        LET c == call[t]
            e == c.notified
        IN  e # NoEmployee =>
                \E q \in {c.query} \cup (IF c.query.bareCode THEN {c.behind} ELSE {}) :
                    /\ asksNotification(q)
                    /\ \E s, later \in c.seen :
                        mayNotify(s.tables.staff[c.actor].role, c.actor,
                                  later.tables.staff[e].manager)
                    /\ \E s \in c.seen : s.tables.staff[e].active
                    /\ \E s \in c.seen :
                        ReviewEnd[e] \in s.today .. (s.today + resolveThresholdDays(q))

(* No employee is answered anything but an internal error without an audit *)
(* row of the call, and with the row of a rejected one the thread has an   *)
(* audited owner.                                                          *)
AnswersAreAudited ==
    \A t \in Threads :
        LET c == call[t]
        IN  c.pc = "answered" /\ c.outcome \notin {"INTERNAL_ERROR", "AUTHENTICATION_REQUIRED"}
                => c.audited /\ auditOwner[t] # NoEmployee

(* The employee to whom a conversation is bound is not turned away from it *)
(* as a stranger: the audit and the checkpoint name the same owner.        *)
OwnerIsServed ==
    \A t \in Threads :
        call[t].outcome = "THREAD_IDENTITY_MISMATCH" => call[t].actor # checkpoint[t].owner
=============================================================================
