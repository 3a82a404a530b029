-------------------------- MODULE ProcessedEvents ---------------------------
(***************************************************************************)
(* The technical-event processor and its processed_events table.           *)
(*                                                                         *)
(* A handler is one call of OnboardingTriggerProcessor.process, made by    *)
(* the RabbitMQ consumer, the webhook or the schedule.  It claims the      *)
(* event in PrismaProcessedEventRepository, runs the agent workflow and    *)
(* records the outcome.  Every database call is a step of its own: other   *)
(* handlers run between any two of them.  A database call may fail; with   *)
(* LostReplies it may also fail after the database has applied it.         *)
(*                                                                         *)
(* pc is the place of a handler in process:                                *)
(*   creating, finding, reclaiming   the three calls of claim              *)
(*   running, notified               inside agent.invoke, before and after *)
(*                                   the manager notification was sent     *)
(*   completing, failing             the call that records the result      *)
(*   aborting                        the fail of the catch block           *)
(*   COMPLETED, DUPLICATE, CONFLICT, ERROR   what process gave its caller  *)
(***************************************************************************)
CONSTANTS
  EventIds,     \* event identifiers
  Hashes,       \* payload contents, as the table tells them apart
  Handlers,     \* calls of process that may be in progress at once
  NoHash,       \* the hash of an event without a row
  NoBody,       \* the body of an idle handler
  LostReplies   \* TRUE: a write may be applied though its caller sees an error

Body == [id : EventIds, hash : Hashes]

ASSUME ProcessedEventsAssumption ==
  /\ LostReplies \in BOOLEAN
  /\ NoHash \notin Hashes
  /\ NoBody \notin Body

VARIABLES
  status,       \* processed_events.status, "ABSENT" without a row
  payloadHash,  \* processed_events.payload_hash
  pc,           \* where each handler is
  body,         \* the event each handler processes
  sent          \* manager notifications an event has caused: none, once, again

vars == <<status, payloadHash, pc, body, sent>>

Statuses == {"ABSENT", "PROCESSING", "COMPLETED", "FAILED"}
Claiming == {"creating", "finding", "reclaiming"}
Working  == {"running", "notified", "completing", "failing", "aborting"}
Results  == {"COMPLETED", "DUPLICATE", "CONFLICT", "ERROR"}

(* The state of the table and of the handlers has its declared shape, and a
   handler has an event exactly while it is not idle. *)
TypeOK ==
  /\ status \in [EventIds -> Statuses]
  /\ payloadHash \in [EventIds -> Hashes \cup {NoHash}]
  /\ pc \in [Handlers -> {"idle"} \cup Claiming \cup Working \cup Results]
  /\ body \in [Handlers -> Body \cup {NoBody}]
  /\ sent \in [EventIds -> {"none", "once", "again"}]
  /\ \A h \in Handlers : pc[h] = "idle" <=> body[h] = NoBody

Init ==
  /\ status      = [e \in EventIds |-> "ABSENT"]
  /\ payloadHash = [e \in EventIds |-> NoHash]
  /\ pc          = [h \in Handlers |-> "idle"]
  /\ body        = [h \in Handlers |-> NoBody]
  /\ sent        = [e \in EventIds |-> "none"]

-----------------------------------------------------------------------------
Id(h) == body[h].id

Goto(h, place) ==
  /\ pc' = [pc EXCEPT ![h] = place]
  /\ UNCHANGED <<body, sent>>

(* A database call of h that changes nothing, then continues at place. *)
Unapplied(h, place) == Goto(h, place) /\ UNCHANGED <<status, payloadHash>>

SetStatus(h, value) ==
  /\ status' = [status EXCEPT ![Id(h)] = value]
  /\ UNCHANGED payloadHash

(* An UPDATE of h's row: it is answered, or refused, or applied though the
   answer is lost. *)
Write(h, value, answered, refused) ==
  \/ SetStatus(h, value) /\ Goto(h, answered)
  \/ Unapplied(h, refused)
  \/ LostReplies /\ SetStatus(h, value) /\ Goto(h, refused)

-----------------------------------------------------------------------------
(* A caller hands event b to process. *)
Start(h, b) ==
  /\ pc[h] = "idle"
  /\ pc'   = [pc EXCEPT ![h] = "creating"]
  /\ body' = [body EXCEPT ![h] = b]
  /\ UNCHANGED <<status, payloadHash, sent>>

Insert(h) ==
  /\ status[Id(h)] = "ABSENT"
  /\ status'      = [status EXCEPT ![Id(h)] = "PROCESSING"]
  /\ payloadHash' = [payloadHash EXCEPT ![Id(h)] = body[h].hash]

(* MUTANT of Create: an upsert takes an existing row over. *)
CreateByUpsert(h) ==
  /\ pc[h] = "creating"
  /\ \/ /\ status'      = [status EXCEPT ![Id(h)] = "PROCESSING"]
        /\ payloadHash' = [payloadHash EXCEPT ![Id(h)] = body[h].hash]
        /\ Goto(h, "running")
     \/ Unapplied(h, "ERROR")

(* claim, INSERT: the primary key lets one handler in. *)
Create(h) ==
  /\ pc[h] = "creating"
  /\ \/ Insert(h) /\ Goto(h, "running")
     \/ status[Id(h)] # "ABSENT" /\ Unapplied(h, "finding")
     \/ Unapplied(h, "ERROR")
     \/ LostReplies /\ Insert(h) /\ Goto(h, "ERROR")

(* MUTANT of Find: the contents are not compared. *)
FindById(h) ==
  /\ pc[h] = "finding"
  /\ \/ status[Id(h)] \in {"COMPLETED", "PROCESSING"} /\ Unapplied(h, "DUPLICATE")
     \/ status[Id(h)] = "FAILED" /\ Unapplied(h, "reclaiming")
     \/ Unapplied(h, "ERROR")

(* claim, SELECT: what the existing row makes of this delivery. *)
Find(h) ==
  /\ pc[h] = "finding"
  /\ LET mine == payloadHash[Id(h)] = body[h].hash IN
     \/ ~mine /\ Unapplied(h, "CONFLICT")
     \/ mine /\ status[Id(h)] \in {"COMPLETED", "PROCESSING"} /\ Unapplied(h, "DUPLICATE")
     \/ mine /\ status[Id(h)] = "FAILED" /\ Unapplied(h, "reclaiming")
     \/ Unapplied(h, "ERROR")

(* MUTANT of Reclaim: the UPDATE does not check the status again. *)
ReclaimUnconditionally(h) ==
  /\ pc[h] = "reclaiming"
  /\ Write(h, "PROCESSING", "running", "ERROR")

(* MUTANT of Reclaim: who loses the race claims again. *)
ReclaimAgain(h) ==
  /\ pc[h] = "reclaiming"
  /\ \/ status[Id(h)] = "FAILED" /\ Write(h, "PROCESSING", "running", "ERROR")
     \/ status[Id(h)] # "FAILED" /\ \E place \in {"creating", "ERROR"} : Unapplied(h, place)

(* claim, UPDATE ... WHERE status = 'FAILED': one of the readers wins. *)
Reclaim(h) ==
  /\ pc[h] = "reclaiming"
  /\ \/ status[Id(h)] = "FAILED" /\ Write(h, "PROCESSING", "running", "ERROR")
     \/ status[Id(h)] # "FAILED" /\ \E place \in {"DUPLICATE", "ERROR"} : Unapplied(h, place)

(* The workflow sends the manager notification, at most once in a run. *)
Notify(h) ==
  /\ pc[h] = "running"
  /\ pc'   = [pc EXCEPT ![h] = "notified"]
  /\ sent' = [sent EXCEPT ![Id(h)] = IF @ = "none" THEN "once" ELSE "again"]
  /\ UNCHANGED <<status, payloadHash, body>>

(* agent.invoke answers below 500, answers 500 or above, or throws. *)
AgentAnswers(h) ==
  /\ pc[h] \in {"running", "notified"}
  /\ \E place \in {"completing", "failing", "aborting"} : Unapplied(h, place)

(* MUTANT of Complete: something else in the try block throws after it. *)
CompleteThenThrow(h) ==
  /\ pc[h] = "completing"
  /\ Write(h, "COMPLETED", "aborting", "aborting")

(* complete: an unconditional UPDATE by event id. *)
Complete(h) ==
  /\ pc[h] = "completing"
  /\ Write(h, "COMPLETED", "COMPLETED", "aborting")

(* MUTANT of Fail: the error it throws is caught as if the call had failed. *)
FailTwice(h) ==
  /\ pc[h] = "failing"
  /\ Write(h, "FAILED", "aborting", "aborting")

(* fail(WORKFLOW_FAILED): a failed call is caught and retried by Abort. *)
Fail(h) ==
  /\ pc[h] = "failing"
  /\ Write(h, "FAILED", "ERROR", "aborting")

(* fail(INTERNAL_ERROR) of the catch block: its own failure is not caught. *)
Abort(h) ==
  /\ pc[h] = "aborting"
  /\ Write(h, "FAILED", "ERROR", "ERROR")

(* One step of process on behalf of h. *)
Step(h) ==
  \/ Create(h)
  \/ Find(h)
  \/ Reclaim(h)
  \/ Notify(h)
  \/ AgentAnswers(h)
  \/ Complete(h)
  \/ Fail(h)
  \/ Abort(h)

(* The caller takes the result of h. *)
Finish(h) ==
  /\ pc[h] \in Results
  /\ pc'   = [pc EXCEPT ![h] = "idle"]
  /\ body' = [body EXCEPT ![h] = NoBody]
  /\ UNCHANGED <<status, payloadHash, sent>>

(* The operating-system process of handlers S dies; the table survives. *)
Die(S) ==
  /\ pc'   = [h \in Handlers |-> IF h \in S THEN "idle" ELSE pc[h]]
  /\ body' = [h \in Handlers |-> IF h \in S THEN NoBody ELSE body[h]]
  /\ UNCHANGED <<status, payloadHash, sent>>

Next ==
  \/ \E h \in Handlers :
       \/ \E b \in Body : Start(h, b)
       \/ Step(h)
       \/ Finish(h)
  \/ \E S \in SUBSET Handlers : Die(S)

Spec == Init /\ [][Next]_vars

-----------------------------------------------------------------------------
HoldersOf(e) == {h \in Handlers : pc[h] \in Working /\ Id(h) = e}

(* Two handlers never run the workflow of one event at the same time,
   whatever triggers delivered it and wherever a database call failed.
   Claims of processed-event.repository.ts exclude each other. *)
OneRunPerEvent ==
  \A h, k \in Handlers :
    pc[h] \in Working /\ pc[k] \in Working /\ Id(h) = Id(k) => h = k

(* Whoever runs the workflow of an event runs the content that first claimed
   the identifier: a reuse of the identifier with other content is a conflict
   for as long as the row exists, also when the claimed run failed. *)
OneContentPerEvent ==
  \A h \in Handlers : pc[h] \in Working => payloadHash[Id(h)] = body[h].hash

(* A completed event stays completed and causes no further notification:
   complete and fail update by event id alone, so this rests on nobody but
   the holder of the claim reaching them. *)
CompletedIsFinal ==
  [][\A e \in EventIds :
       status[e] = "COMPLETED" => status'[e] = "COMPLETED" /\ sent'[e] = sent[e]]_vars

(* An event causes at most one manager notification, however often it is
   delivered or retried. *)
NotifiedAtMostOnce == \A e \in EventIds : sent[e] # "again"

(* What keeps OneContentPerEvent: a row has a hash from its creation on, a
   handler past the failed INSERT knows the row exists, and whoever is about
   to reclaim it or answers COMPLETED or DUPLICATE has compared the hash. *)
ContentInv ==
  /\ OneContentPerEvent
  /\ \A e \in EventIds : status[e] = "ABSENT" <=> payloadHash[e] = NoHash
  /\ \A h \in Handlers :
       /\ pc[h] \in {"finding", "reclaiming"} \cup Working => status[Id(h)] # "ABSENT"
       /\ pc[h] \in {"reclaiming", "COMPLETED", "DUPLICATE"} =>
            payloadHash[Id(h)] = body[h].hash

(* What keeps OneRunPerEvent when no reply is lost: the row of a working
   handler is PROCESSING, which no claim passes. *)
ClaimInv ==
  /\ OneRunPerEvent
  /\ \A h \in Handlers : pc[h] \in Working => status[Id(h)] = "PROCESSING"

(* The table keeps the promise of ExclusiveClaim. *)
Claims == INSTANCE ExclusiveClaim WITH
  phase   <- [e \in EventIds |->
                CASE status[e] = "PROCESSING" -> "taken"
                  [] status[e] = "COMPLETED"  -> "done"
                  [] OTHER                    -> "open"],
  holders <- [e \in EventIds |-> HoldersOf(e)]

ImplementsExclusiveClaim == Claims!Spec
=============================================================================
