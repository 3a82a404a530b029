# Verification of the HCM agent platform

TLA+ models, TLC runs and TLAPS proofs about the TypeScript service in this
repository: an HR assistant that runs LangGraph workflows for HTTP requests,
webhooks, a daily schedule and RabbitMQ messages, answers questions from
indexed documents, and keeps its state in PostgreSQL. File names below are
relative to the repository's own `src/` unless another directory is given.

## Inventory

| Component | State | Operations | Interacts with | What makes it correct |
| --- | --- | --- | --- | --- |
| Technical-event processor (`services/onboarding-trigger-processor.ts`, `repositories/processed-event.repository.ts`) | table `processed_events` (status, payload hash) | claim (INSERT, SELECT, conditional UPDATE), run, complete, fail | called by all triggers, calls the agent | one run per event at a time, one content per identifier, a completed event is final, failed events can be retried |
| RabbitMQ transport (`triggers/rabbitmq-onboarding.transport.ts`) | channel, consumer tag; queue, dead-letter queue and outstanding confirmations at the broker | start, publish, consume, retry, dead-letter, close | broker, processor | no acknowledged delivery without a trace, bounded retries, everything settles |
| Webhook, development endpoint, schedule | cron job | call the processor, publish | processor, transport | a failure is visible to somebody |
| Agent service and controller (`services/hcm-agent.service.ts`, `controllers/agent.controller.ts`) | per-thread promise chain; event queue and wake callback of a stream | invoke, stream, resume; write a body or a stream | runner, clients | one call per conversation at a time, in order, none forgotten; no event of a stream lost, every stream ends |
| Runner and ownership (`services/hcm-agent-runner.service.ts`, `repositories/agent-run.repository.ts`) | checkpoint (owner, pending proposal, pending intent), run audit | run, interrupt, resume | checkpointer, graphs, audit | a conversation answers to its owner only; a resume decides the proposal that was shown |
| Supervisor graph (`graphs`, `graph-nodes/shared`, `graph-routing`, `security/intent-consistency.ts`) | graph state, pending intent | guard, normalise, route, answer, audit | language model | whatever the model answers, only what the text says is acted on; every run is audited |
| Leave workflow (`graph-nodes/leave`, `services/leave-*.ts`, `repositories/leave.repository.ts`) | leave requests (unique per thread), balances | propose, approve, reject, document | runner, database | no request without approval, one per conversation, rules evaluated again at approval |
| Onboarding workflow (`graph-nodes/onboarding`, `services/onboarding-review.service.ts`) | none | look up, compute, notify | employees, notifications | notifies only when asked, allowed and due |
| Knowledge index (`repositories/knowledge.repository.ts`, `services/knowledge-directory-indexer.service.ts`, `services/knowledge-ingestion.service.ts`) | documents, chunks, active version | discover, inspect, embed, prepare, activate, search | embeddings, files | readers see one whole version, which never goes back; nothing unsafe is sent out |
| Knowledge query (`services/knowledge-query.service.ts`) | none | guards, embed, search, answer, trace | index, model, security events | no answer without evidence in force or past a failed guard; one true trace |
| Runtime (`bootstrap/application-runtime.ts`) | HTTP server, stop promise, signal handlers | start, stop | all of the above | what was opened is closed once, in order, also after a failed start; the process ends |
| Authorization and safety (`security`) | none | who may read or notify; text patterns | all workflows | the roles' matrix; what patterns find is rejected |
| MCP, health, observability, adapters, configuration, studio, evaluation | none that matters to the others | parsing, mapping, logging | | |

Where it is hard:

- The event path: several triggers reach one table in several database calls
  each, any of which may fail or be applied without an answer; the broker
  repeats deliveries; the process may die or lose its channel between any two
  steps.
- Conversations: the state of a thread is spread over a checkpoint, an audit
  table and a request table that are written one after the other; calls may
  fail, or the process die, between them; data and date change between a
  proposal and its approval; the language model may answer anything.
- The index: a version is published in two calls, runs of the command overlap,
  and questions are answered meanwhile.
- Streams and shutdown: producer, generator and settling promise take turns in
  the event loop, clients hang up, and signals arrive at any moment.

`PROJECT.json` lists every hazard at its line, with the properties that would
show it going wrong, or the reason why there is none.

## Plan

The modules in the order of importance, and what became of them:

1. Event delivery: `ExclusiveClaim`, `ProcessedEvents`, `OnboardingDelivery`,
   with proofs. Done.
2. Thread lock: `FifoLock`, `ThreadExecutionLock`, with proofs. Done.
3. Streams over the lock: `AgentStream`, with proofs. Done.
4. Conversations: `LeaveDecision`, `ConversationRules`, `AgentConversation`,
   with proofs. Done. Planned as separate modules for leave, onboarding review,
   pending intents and rules, they became one: a call goes through one graph
   on one checkpoint, and what is hard lies between its workflows. The rules
   are operators of `ConversationRules`, with a closed form of the working-day
   rules that does not count day by day as their reference.
5. The index and its questions: `Chunking`, `KnowledgeShelf`,
   `KnowledgeIndex`, `KnowledgeQuery`, with proofs. Done.
6. The process: `ApplicationRuntime` and its composition with the streams,
   `Server`, with proofs. Done.
7. Left: the daily schedule's batch and identifiers (see "Not modelled").

How the modules are composed:

    ProcessedEvents   <- OnboardingDelivery                 implements ExclusiveClaim
    ConversationRules <- AgentConversation                  implements LeaveDecision
    Chunking <- KnowledgeIndex <- KnowledgeQuery            implements KnowledgeShelf
    ThreadExecutionLock <- AgentStream <- Server            implements FifoLock
                           ApplicationRuntime <- Server

`X_proofs` holds the theorems about `X`; those of `KnowledgeIndex` and its
questions are together in `KnowledgeQuery_proofs`, those of
`ApplicationRuntime` in `Server_proofs`. `MC*` modules and `.cfg` files are the
instances for TLC.

## Modules

### ProcessedEvents, ExclusiveClaim

A handler is one call of `OnboardingTriggerProcessor.process`. `status` and
`payloadHash` are the columns of the table (`"ABSENT"`: no row), `pc` is the
place of a handler between two database calls, `body` the event it works on.
`sent` counts, up to two, the manager notifications an event has caused.

| Action | Code |
| --- | --- |
| `Start` | a caller enters `process` |
| `Create`, `Find`, `Reclaim` | INSERT, SELECT and `UPDATE ... WHERE status = 'FAILED'` of `claim` |
| `Notify`, `AgentAnswers` | inside `agent.invoke`: the notification, then an answer below 500, an answer of 500 or more, or an exception |
| `Complete`, `Fail` | the call that records the outcome; its failure enters the catch block |
| `Abort` | the `fail` of the catch block, whose own failure is not caught |
| `Finish` | the caller takes the result |
| `Die` | the process of some handlers dies; the table survives |

Every database call may fail without effect. With `LostReplies` a write may
also be applied while its caller sees an error (a connection lost between
commit and answer). Contents are compared through their hash, so that a
content is its hash. The attempt, run and thread columns are audit data that
no decision reads, and are left out.

`ExclusiveClaim` is the promise without rows and hashes: events are open, taken
or done, one holder at a time, effects only by holders, no way back from done,
and a holder may vanish, after which the event stays taken.

### OnboardingDelivery

Extends `ProcessedEvents` with the queue and all callers. Every accepted
publication is a copy of its own, `unused`, then `ready`, `unacked`, `acked`,
or `dead` (in the dead-letter queue). `holds` is the delivery of a handler,
`confirming` the handlers that wait for a retry or dead letter to be
confirmed. `abandoned` are the `unacked` copies that nobody holds any more,
because the publication of their retry or dead letter failed: the code swallows
that error and keeps the channel, so that they count against the prefetch limit
until the channel closes. The broker knows them only as unacknowledged.

| Action | Code |
| --- | --- |
| `Publish` | the development endpoint, or an external producer with any header |
| `StartConsumer` | `start` of a (new) process |
| `Deliver` | `consumeMessage` up to the call of the processor |
| `Process` | a step of the processor |
| `Acknowledge` | `ack` after COMPLETED or DUPLICATE |
| `Republish` (`Threw`, `Resend`) | the catch block up to the publication, accepted or refused |
| `Confirmed`, `ConfirmFails` | `waitForConfirms` and the `ack` after it, or its rejection |
| `Settle`, `Abandon` (operators) | how a handler lets its delivery go: acknowledged, or left unacknowledged for good |
| `Call`, `Return` | webhook and schedule; also the result of a handler without a channel |
| `ChannelLost` | `close` at shutdown, or a connection closed under the consumer |
| `Crash` | the process dies |

Reading a fault switch: `BrokerFaults` lets publications be refused or not
confirmed (also because of another publication on the same channel),
`ChannelLosses`, `Crashes` and `DirectTriggers` enable the actions above.

### ThreadExecutionLock, FifoLock

`ThreadExecutionLock.run`: a call chains behind the tail promise of its thread
and becomes the tail (`Run`), begins when the awaited promise is resolved
(`Work`), and at its end, returned or thrown, releases its successor and
deletes the map entry if it still is the tail (`Release`). A tail promise is
resolved exactly when its call has ended, so `predecessor` becomes `NoCall` at
that moment. `ahead` is a history variable: who came earlier and has not
ended. `FifoLock` is the lock stated with `ahead` alone.

### AgentConversation, ConversationRules, LeaveDecision

One call of the runner on a thread at a time (the lock), many threads. A call
is a record in `call[t]`; `pc` is the node of the graph it is in. `checkpoint`
is the saved state of the graph (owner, node, proposal of an interrupt, pending
intent), `auditOwner` the actor of the thread's earliest audit row, which is
what `findOwner` reads, and `request` the leave request whose id is computed
from the thread. `tables` and `today` are the employee and leave tables and the
clock; `seen` remembers what a call could have read of them, `behind` and
`origin` the query a pending intent comes from.

Where a node awaits several reads of employee data, each read is a step, and
tables and date may change in between. An onboarding tool reads the row of the
actor and then that of the employee; `actorRow` and `day` hold what it has
read. The two tools of the leave context run side by side, and each reads the
rows of actor and employee in any order, authorizes, and then reads policy or
balance: `tools` and `terms`. One call of a repository is one read, joins
included (`findByEmployeeCode` fetches the manager's code with the row). What
only the calls of one thread write, its owner and its request, is read in the
step that needs it. No code of the repository deletes an employee, so that an
identified actor has a row.

| Action | Code |
| --- | --- |
| `Ask` | `runHcmAgentGraph` is called with a query, or a decision on a proposal |
| `Identify` | actor, owner by audit and checkpoint, existing request; start, resume, or nothing to resume |
| `RequestGuard`, `NormalizeIntent`, `Route` | the shared nodes: unsafe text, any answer of the model put through consistency, continuation and self target, and the route of the result |
| `ReadActor`, then `EmployeeLookup`, `OnboardingCalculation` or `ManagerNotification` | the onboarding nodes, each of which authorizes on its own: the actor's row, then the employee's and what follows from both |
| `ReadRow`, `ReadPolicy`, `ReadBalance`, `LoadingFails` | `loadLeaveContext`, of the context node and of the approval: the reads of its two tools, in any order, or an error of one of them |
| `LeaveProposal` | the deterministic proposal |
| `Interrupt`, `AwaitApproval` | the interrupt is saved, then audited and answered 202 |
| `Reject`, `Approve`, `Submit` | the approval node: a rejection; the employee's id resolved, or not found, after which the reads above come again; eligibility checked again and the upsert |
| `RespondAndAudit`, `Finish`, `Return` | the audit node, the last checkpoint, the caller's answer |
| `Crash` | the process dies; the checkpoint is that of any node begun, or the one from before |
| `Change` | a table is maintained, or a day passes |

Every database access may fail; where the code catches, the node answers 500
and the graph goes on; where it does not, the graph stays where it is. The
model may give any intent its contract lets pass. Texts are records of what
the code's patterns find in them. A policy row that is missing is not told
from a balance row that is missing.

`ConversationRules` holds the pure functions, given rows that may have been
read at different moments: `enforceIntentConsistency`,
`continueNormalizedIntent`, `resolveAuthenticatedSelfTarget`, the
authorization matrix, working days, notice, eligibility, threshold; and
`WithinPolicy`, the leave rules with a closed formula for working days.

`LeaveDecision` is the promise: a conversation belongs to one employee from
its first turn on; it submits at most one request, and that is the proposal
shown last, approved by its owner.

### KnowledgeIndex, KnowledgeQuery, Chunking, KnowledgeShelf

`documents` and `chunks` are the tables (the chunks of one version as one
element), `disk` the files, `run[i]` a run of the index command, `query` the
question in work. A content is its size, the lengths of its pages, and where
an instruction and a link stand in it. `Chunking` says which intervals of a
page become chunks.

| Action | Code |
| --- | --- |
| `Discover`, `Open` | the directory is listed; a file is read, or is no longer what was listed |
| `Lookup` | the active index of the path and its hash: skip, or go on with the version found |
| `Inspect`, `Embed` | limits, chunks and safety patterns; the embedding service |
| `Prepare` | the transaction: a new document with version 0 if there is none, the next version, its chunks |
| `Activate` | the UPDATE with the expected version, or a conflict |
| `End`, `Die` | the command ends or its process dies |
| `Edit`, `Seed` | a file changes; the database is seeded anew |
| `Receive`, `QueryGuard`, `FindDocument`, `EmbedQuery`, `Retrieve`, `EvidenceGuard`, `Generate`, `OutputValidation` | controller and stages of `query` |
| `Trace`, `Reply` | the trace of a question, taken or refused; its answer |

Similarity is arbitrary: a search may find any set of active chunks up to the
limit, and the model may answer and cite anything, a chunk it made up included.
The failure codes of a file are one status FAILED. A blank answer fares like
one that cites nothing.

`KnowledgeShelf` is the promise: per path nothing or one whole edition,
replaced only by a later one of its document, and evidence is taken at one
moment.

### AgentStream, ApplicationRuntime, Server

`AgentStream` extends the lock with what the service and the controller hold
for a call: the event queue, the registered wake callback, the generator, the
reply. Calls are answered with a JSON body, on a stream, or to a trigger.

| Action | Code |
| --- | --- |
| `Receive`, `Begin` | a call chains behind its thread; its run begins |
| `EmitProgress`, `EmitAnswer` | the sink queues an event and wakes the generator |
| `RunReturns`, `RunThrows`, `Settle` | the run ends and releases the lock; catch and finally of its promise |
| `Yield`, `Sleep`, `EndStream` | the turns of the generator's loop |
| `Reply`, `HangUp` | the body or the trigger's result; a client that goes away |

`ApplicationRuntime` is `start` (`InitializeCore`, `Connect`,
`AssertTopology`, `Consume`, `Listen`, `StartFails`), the signals (`Signal`)
and the memoised `stop` (`HttpCloses`, `CloseBroker`, `CloseCore`, `Exit`), one
action per await. Every step of `start` may throw, that after the consumer was
attached included (`Consume`: the schedule or the listener cannot be started),
and so may stopping the job, which then stays scheduled (`Stop`). `Server` composes both: calls are admitted while the listener
or the triggers are up, the listener closes when the last connection has
ended, a run without a database throws. A listener told to close takes no
further request, and idle keep-alive connections are left out.

## Runs

| Run | Question | Result |
| --- | --- | --- |
| `claim` | three concurrent deliveries of one identifier with two contents, database calls failing | one run at a time, completed is final, the table implements `ExclusiveClaim` |
| `notified_twice` | at most one notification per event? | no: retried after a failure behind the notification |
| `delivery` | queue alone; broker faults, crashes and lost replies | an acknowledged event is completed, queued, dead-lettered or stranded in PROCESSING |
| `delivery_all_faults` | every trigger and every fault, lost replies included | one content per identifier; acknowledged deliveries leave a trace; deliveries, attempts and rows agree |
| `delivery_live` | two messages, refused publications and failed confirmations | retries multiply nothing and are bounded; every step leads on; no delivery is stuck and everything settles, under fairness, except what was abandoned, or waits for a prefetch limit that abandoned deliveries have used up |
| `lost_after_crash` | is an acknowledged event completed, dead-lettered, queued or in work? | no: a crash strands the row in PROCESSING |
| `lost_behind_webhook` | the same question with a webhook and no crash | no: acknowledged as a duplicate of a run that fails, and nobody retries it |
| `lock` | four calls, two threads | exclusion, order of arrival, no stale entry, nobody waits in vain, every call gets its turn |
| `conversation` | up to four calls of two employees on one thread, any answer of the model, failures, crashes and changes between any two reads | implements `LeaveDecision`; decisions are answered truly and revalidated; targets named, notifications asked for, answers audited |
| `owner_locked_out` | is the employee a conversation is bound to served? | no: after a failed audit, the audit row of a stranger's rejected call names the stranger as owner |
| `knowledge` | two index runs and a question, failures, a death, an edit or a new seed | implements `KnowledgeShelf`; answers grounded in evidence in force; nothing unsafe sent; true reports, traces and findings |
| `server` | two calls of any kind under start, failing start, signals and stop | streams are whole, parts close in order; neither a call nor the shutdown is stuck, calls wind down; every client is served, the process ends |

Four runs look for a violation and find it. Each states what a document or a
test of the repository says (quoted in `PROJECT.json`) and shows a behaviour of
the code that contradicts it. Observations without a run of their own:

- With lost replies `CompletedIsFinal` fails, since the `fail` of the catch
  block overwrites a `complete` whose answer was lost; the proofs assume that a
  refused write was not applied.
- A delivery whose retry was not confirmed stays with the consumer, which
  neither returns it nor reconnects, so that it is delivered again only after
  the channel or the process has ended.
- An approval reads employees, policy, balance and date at several moments, and
  a request may be submitted although no single moment would have allowed it:
  the policy of one moment and the balance of another. In `conversation` such a
  submission occurs. `RevalidatedSinceApproval` therefore asks for a moment per
  fact, each after the approval came in. In the same way a notification may
  rest on the actor's role before a change and the employee's manager after it
  (`NotifiedAsAsked`).
- A second proposal on a thread that has submitted a request is answered as
  already submitted (`hcm-agent-runner.service.ts:145`), and after a crash
  between the checkpoint of the approval node and the interrupt a decision
  acts on a proposal whose 202 nobody received. A request over the turn of the
  year is charged to the year of its first day; a weekend is an eligible
  request of no days; balances are checked but never reserved.
- A run that dies, or whose activation fails, after the transaction that
  creates a document with version 0 blocks its path: later runs find no active
  index, create the document again and fail on the unique path, whereas
  `docs/knowledge-indexing.md:79` says that a later controlled run can index
  the source again.
- The expected version is read again inside the preparing transaction, so that
  a run that looked a file up before another run's activation still wins
  with its older content.
- The patterns inspect single chunks: an instruction longer than the overlap
  plus one character can straddle a cut and pass. Titles are not inspected.
- When `start` of the transport fails between connecting and assigning its
  fields (`triggers/rabbitmq-onboarding.transport.ts:60`), nobody closes the
  connection, and the process does not exit. Nor does it after the daily job
  could not be stopped, which goes on to start reviews. `ShutdownEnds` excepts
  both (`LeftBehind`).
- A run that throws after its response event makes its stream carry a second
  one, with status 500. The database is closed under triggered runs and under
  runs whose client hung up. A second signal of the same kind, or one before
  `start` has completed, kills the process.

### Bounds and why they are enough

- Three handlers for one identifier give every race of `claim`: one that
  completes or fails, and two that read the same FAILED row. Two contents
  tell a conflict from a duplicate. Events do not interact, so that the runs
  have one identifier; the proofs are for any number.
- Two attempts have a first retry and a last one; a header of 0 stands for
  all that `deliveryAttempt` rejects. Two originals with two contents (or one
  malformed) contain reuse, conflict and duplicate. The copies of a run bound
  the publications of a behaviour: with four retry copies for two originals
  and two attempts no retry ever lacks one (each original can cause one retry
  and one dead letter), so that `delivery_live` is complete. With crashes and
  faults a behaviour can need more copies than there are; a handler then
  waits, which is why those runs check safety only and do not check deadlock.
  The other delivery runs do not check deadlock because the system may rest
  when nobody publishes any more.
- `Prefetch` is two, so that one abandoned delivery leaves room for the other
  and two stop the consumer.
- `delivery_live` has one content, besides the malformed one, and headers of
  0 only; the other contents and headers are in the safety runs.
- `lock` has four calls, so that a thread can have a working call, a waiting
  one, and one that arrives at any moment, while another thread is in use.
  There is always a call that may start or end: deadlock is checked.
- `conversation`: four calls (`MaxCalls`) are a proposal, a decision on it, a
  further query and a further decision, by the owner or by a stranger. Seven
  texts have each kind of target, date, threshold and safety. The two tables
  differ in a role, an activity, the balances and the notice, and the days
  have a Friday, a weekend and the turn of the year. A request over four days
  passes by the first table on the first day, by neither on the second, but
  then by the policy of one and the balance of the other. `MaxChanges` is two
  crashes or changes, at any step of any call, so that a table may change and
  change back between reads; `MaxEvents` bounds calls, crashes and changes
  together by four: a proposal and its approval with two changes or crashes, a
  repeated decision after a crash, or four calls undisturbed. Threads meet
  only in tables, which change by `Change`, so that the run has one; the proofs
  are for any number and any bounds.
- `knowledge`: chunks of three characters that share one, contents of two to
  nine characters: one chunk, several, one with an instruction across the cut,
  one beyond every limit. Two runs (`MaxRuns`), one event (`MaxEvents`: death,
  edit or seed), one question. Paths are independent but for the order in
  which a run takes them; the run has one, the proofs any number.
- `server`: two calls on one thread, so that one may wait for the other while
  the process goes down, one progress event, both signals.

Deadlock is not checked in the last three runs: no further call may come, the
index may rest, and the process may exit. Symmetry is used in safety runs only,
over values the specification treats alike.

### Fairness

`FairDeliverySpec` assumes that a process is started, that the broker delivers
a ready message to a consumer with room, and that every continuation of a
handler runs: database calls, workflow and confirmation answer or throw. The
event loop gives the last one as long as no awaited call hangs, which the code
does not guard against with timeouts of its own. `FairSpec` of the lock assumes
the event loop and that a graph run answers or throws. `FairServerSpec` assumes
weak fairness of the steps of each call that the event loop runs when they are
ready (a run answers, or throws once the database is closed) and of the
runtime: the services behind `start` and `stop` answer or fail. No fairness is
assumed of producers, requests, hang-ups, signals, progress events, exceptions
of a run, faults, closures or crashes.

## Proofs

For every value of the constants:

`ProcessedEvents_proofs`, `OnboardingDelivery_proofs`,
`ThreadExecutionLock_proofs`

- `TypeCorrect`, `DeliveryTypeCorrect`, `LockTypeCorrect`: the type invariants. No
  run checks these three again.
- `ContentFixed`. `OneContentPerEvent` is not inductive: a handler becomes the
  holder of a row it compared two calls earlier. `ContentInv` adds that a row
  has a hash from its creation on, that a handler past the INSERT knows the
  row exists, and that a reclaiming handler has compared the content. Holds
  with lost replies.
- `ClaimInvariant`, `ExclusiveRun` and `CompletedStays`, assuming
  `~LostReplies`. The strengthening `ClaimInv` says that the row of a working
  handler is PROCESSING, which neither INSERT nor reclaim passes; with lost
  replies that is false.
- `ClaimRefinement`: the refinement of `ExclusiveClaim`, step by step, under
  the same assumption. The mapping takes the holders of an event to the
  handlers between claim and outcome.
- `Drives`: every step of the delivery system is a step of the processor or
  leaves it alone, so that the theorems above carry over (`TriggersExclude`,
  with the assumption of `ExclusiveRun`). This holds by the composition of the
  modules and says nothing about the code; no run checks it.
- `TraceInvariant`, `AcknowledgedLeavesTrace`, without any assumption on
  faults. The inductive `TraceInv` adds that a delivery is in one handler's
  hands, that this handler works on its content, and that a handler waits for a
  confirmation only when the retry or dead letter is with the broker. It rests
  on three lemmas: a row never changes its content (`KnownStays`), an accepted
  copy never changes and a dead letter stays (`CopiesOnlyGrow`), and a delivery
  is acknowledged only with a reason (`AckJustified`).
- `AcknowledgedIsNotForgotten`, assuming `~DirectTriggers` and
  `~ChannelLosses` (without which it is false, see `lost_behind_webhook`). The
  strengthening `OwedInv` follows the surviving copy of every event: a content
  is `Pending` while some copy of it is dead-lettered, or queued with a holder
  that has not been told to acknowledge. Whoever lets a delivery go leaves its
  content claimed or pending, and the content of a FAILED row is pending. The
  crucial lemma, `PendingStays`: a content stops to be pending only where a
  handler is told that it was claimed and has not failed.
- `RetriesEnd` (`PublicationsAreBounded`), for finitely many copies while no
  channel closes and no process dies; broker faults are allowed. A handler
  whose publication failed keeps its delivery, so that nothing limits it by
  its own state. The inductive `Bounded` counts pairs of a copy and an attempt:
  those used up and those left to a delivery are together at most
  `MaxAttempts` per published message, and `Republish` trades one for the
  other (`BoundedStep`), the dead letter included.
- `DeliveriesGoOn` (`NoDeliveryIsStuck`), while no channel closes and no
  process dies, broker faults allowed, for at least one handler and any
  `Prefetch`. `InHand` says that every unacknowledged copy is abandoned, or
  with a handler that works on it, waits for a confirmation, or cannot parse
  it. That a handler finds a copy for its retry follows from `Bounded` if there
  are `MaxAttempts` for each original (`RoomToRepublish`): the bound on copies
  then limits the model only where the code has no limit to hit. A queued
  message may have to wait for good once `Prefetch` deliveries are abandoned,
  and not before.
- `DeliveriesEnd` (`DeliveriesWindDown`), without any assumption: `Todo` is a
  rank of a handler's place, and no step of the processor leads back
  (`StepAdvances`).
- `TriggersShareClaims`, `TriggersKeepCompleted`: the refinement of
  `ExclusiveClaim` and the finality of a completed event, carried over to the
  whole delivery system by `Drives`, assuming `~LostReplies`.
- `NothingMultiplies`, for finitely many copies while no channel closes and no
  process dies, each of which does duplicate a delivery; publications may be
  refused, or enqueued without a confirmation. A retry takes the place of the
  copy it was made from (`BalancedStep`), whether that is acknowledged in the
  end or abandoned: an abandoned copy is in nobody's hands, and nobody
  publishes it again (`AwayInvariant`).
- `ChainInvariant`, `CallsExclude`, `LockRefinement`. `ChainInv` ties every
  predecessor to the order of arrival: the calls ahead of a call are its
  predecessor and those ahead of that one. Mutual exclusion follows, since two
  working calls have nobody ahead, and of two calls of a thread one is ahead
  of the other.
- `NoDeadlock` (`NobodyWaitsInVain`), for finitely many calls. `AheadInv`
  says that to be ahead is irreflexive and transitive on a thread; a finite set
  has a first element in such an order (`SomebodyIsFirst`), and who has nobody
  ahead works or waits for a resolved promise.

There is no theorem for `NoEventLost`, not even a conditional one: without
crashes and with the queue alone, a `fail` of the catch block that is refused
still strands a row in PROCESSING. `AcknowledgedIsNotForgotten` says what holds
instead.

`AgentConversation_proofs`

- `ConversationInvariant`: the inductive invariant `IInv`, a conjunction about
  each call and the checkpoint, audit owner and request of its thread
  (`CallInv`). None of the properties is inductive by itself; what they lean
  on is, per conjunct: a checkpoint has an owner, a proposal exactly where a
  run waits, and a pending intent that is an onboarding review as its query
  asked for it (`Kept`, `PendingOf`); in the graph the actor is the owner by
  both tables (`Owned`); an intent never leaves the words of the query behind
  it (`Named`, `Asked`); a decision works on the proposal of the checkpoint,
  and there is no request yet (`Decides`); each row that a tool has read was in
  the tables at some moment of the call (`ToolRead`, `Loads`); and so was each
  fact that its result rests on (`Onboards`, `Notifies`, `MayRequest`,
  `BalanceRead`).
- From it: `TypeCorrect`, `DecisionsTrue`, `Revalidated`, `NamedTargets`,
  `AskedNotifications`, `AuditedAnswers`, and `ConversationsDecide`, the
  refinement of `LeaveDecision`: interrupts, last checkpoints and crashes map
  to `Converse`, the submission to `Submit`, everything else stutters.
- `NothingIsReassigned` reads the same refinement back into the code's own
  state: the owner of a checkpoint and a stored request never change.
- `OwnersAreServed` (`OwnerIsServed`), assuming `~AuditFails` and `~Crashes`,
  is the other side of `owner_locked_out`: the lockout takes an audit that
  fails, or a process that dies before it. `SameOwner` says that the two
  tables name one owner, except between the interrupt of a run and its audit
  row; there the run's own actor is bound in the checkpoint already.
- `Revalidated` and `AskedNotifications` hold for any number of changes, at
  any moment between the reads: they claim a moment since the start of the call
  for each fact, the rows of the two tools being read at up to four.
- `DaysCounted`, on which `Revalidated` rests: counting working days one by
  one gives the closed formula, for every range, by a least counterexample.
- The assumptions: a text that is a bare code names one, the text that comes
  with a decision names no dates, and `NoProposal` is no proposal.

`Chunking_proofs`, `KnowledgeQuery_proofs`

- `ChunksAreBounded` and `ShortSpansStayWhole`: no chunk is longer than the
  configured size, and a span of at most overlap plus one characters lies in
  some chunk as a whole, for any sizes. With the history of what passed the
  patterns it gives `UnsafeStays` (`NothingUnsafeIsSent`).
- `ShelfRefinement`. `DataInv` says that ids and versions are given once and
  that an active version has its chunks, with the content of its row;
  `RunInv` that the version a run has stored is later than the one it expects
  to replace, as long as its document is there.
- `AnswersGrounded`, `OneTrace`, `FindingsRecorded`: by what a question has
  established at each stage (`Sound`): evidence that was in force at the
  search, only safe evidence at the model, no finding and no trace before the
  end.
- `ReportsAreTrue`: what is in force is in the history of every run in work,
  and the results of a run and what it has to do are all files.
- The assumptions: an instruction or a link lies inside a page of its
  content, and `NoRow` is no row.

`AgentStream_proofs`, `Server_proofs`

- `WholeStreams`, for any number of calls and events: `StreamInv` ties
  generator, wake callback, queue and settled promise together. The streams use
  the lock by its protocol (`StreamsDriveLock`), so that its theorems hold of
  them (`StreamsExclude`); the process is an instance of the streams
  (`ServerDrivesStreams`, `ServerStreamsAreWhole`, `ServerCallsExclude`).
  Both implement `FifoLock` (`StreamsQueueUp`, `ServerCallsQueueUp`).
- `NoCallIsStuck`, `ServerNobodyIsStuck` (`NobodyIsStuck`), for finitely many
  calls: `RunInv` says that a call which is owed an answer has a run on the
  lock or a generator, and `NoDeadlock` leads from a waiting call to one that
  can go on; `StreamInv` excludes a generator that sleeps behind a settled
  promise.
- `CallsEnd`, `ServerCallsEnd` (`CallsWindDown`): each step of a call lowers
  `Rank`, a natural number that no other call changes. An event weighs more
  before it is emitted than in the queue, and more there than the turn of the
  generator it causes, so that sink and generator cannot keep each other busy.
- `ShutdownOrder`: `RuntimeInv` follows the parts through start and stop, also
  where a step of either throws.
- `ShutdownGoesOn` (`ShutdownIsNotStuck`), for finitely many calls: what the
  clean-up waits for is the connection of a call in progress (`StoppingInv`),
  and by `NobodyIsStuck` that call can go on or waits for one that can. The
  exceptions are those of `ShutdownEnds` (`LeftBehind`).

The assumptions on constants (named `...Assumption` in the modules) separate
the "no value" constants from the real ones, give numbers their type and state
the facts named above; TLC evaluates them in the runs.

Only model-checked: liveness (`EveryMessageSettles`, `EveryCallWorks`,
`EveryClientIsServed`, `ShutdownEnds`), which this prover cannot express. What
such a property rests on is proved, as far as it is a matter of single states
and steps: somebody can always go on (`NobodyWaitsInVain`, `NobodyIsStuck`,
`ShutdownIsNotStuck`, `NoDeliveryIsStuck`), every step brings its call or
delivery nearer to its end (`CallsWindDown`, `DeliveriesWindDown`), and what
starts a delivery anew is bounded (`PublicationsAreBounded`). That fair
scheduling then takes those steps, and that the guards listed in `CanGoOn`,
`GoesOn` and `CleanUpGoesOn` are those of the actions (`ENABLED`), is left to
the runs with fairness.

## Not modelled

- The daily schedule's batch: the derived identifiers and the settling of its
  events. A scheduled event is a call of the processor (`Call`), and the
  events of a batch do not depend on each other.
- The typed commands of the triggers inside the graph: seen from the event
  processor as a run that notifies and answers, fails or throws.
- Two API processes on one checkpoint table: the lock is local to a process,
  and what two concurrent runs of a thread do to each other is decided in the
  checkpointer library, which is not in the repository.
- The download of a request's PDF, health, and the MCP onboarding tool: they
  change no state.
- Redaction, thread and correlation identifiers, text patterns, and everything
  the language model, the embeddings and the ranking compute: strings and
  numbers without control flow here; what they may yield is an arbitrary
  choice in the models.
- Contents of logs and traces, PDF layout, configuration, the studio, the
  evaluation tooling, and the schema's audit columns.
