------------------------- MODULE OnboardingDelivery -------------------------
(***************************************************************************)
(* Delivery of onboarding events: the RabbitMQ queue, its consumer with    *)
(* retries and dead-lettering, and the webhook and schedule triggers, all  *)
(* of them callers of the processor in ProcessedEvents.                    *)
(*                                                                         *)
(* Every publication is a copy of its own, from the broker's acceptance to *)
(* its acknowledgement, which stays visible as "acked".  A handler holds   *)
(* the copy it was delivered; a handler without a copy serves a webhook or *)
(* schedule call, or has outlived the channel its delivery came from.  A   *)
(* copy whose retry or dead-letter publication failed is abandoned: it     *)
(* stays unacked, held by nobody, until the channel closes.                *)
(***************************************************************************)
EXTENDS ProcessedEvents, Integers, FiniteSets

CONSTANTS
  Copies,           \* broker messages: bounds the publications of a behaviour
  Originals,        \* the copies producers publish; the others are retries
  NoCopy,           \* held by a handler without a delivery
  Malformed,        \* content the event schema rejects
  Headers,          \* x-attempt values of producers; 0 stands for an invalid one
  MaxAttempts,      \* RABBITMQ_MAX_ATTEMPTS
  Prefetch,         \* RABBITMQ_PREFETCH
  DirectTriggers,   \* TRUE: webhook and schedule call the processor as well
  BrokerFaults,     \* TRUE: a publication may be refused or not confirmed
  ChannelLosses,    \* TRUE: the channel may close under running handlers
  Crashes           \* TRUE: the process may die

Contents == Body \cup {Malformed}

ASSUME DeliveryAssumption ==
  /\ Originals \subseteq Copies
  /\ NoCopy \notin Copies
  /\ Malformed \notin Body \cup {NoBody}
  /\ Headers \subseteq Int
  /\ MaxAttempts \in Nat \ {0}
  /\ Prefetch \in Nat \ {0}
  /\ {DirectTriggers, BrokerFaults, ChannelLosses, Crashes} \subseteq BOOLEAN

VARIABLES
  place,        \* where each copy is
  content,      \* the event or the malformed text it carries
  attempt,      \* its x-attempt header
  consumer,     \* TRUE while a consumer is attached to the queue
  holds,        \* the delivery each handler works on
  confirming,   \* handlers that wait for a retry or dead letter to be confirmed
  abandoned     \* deliveries of the channel whose publication failed

queueVars == <<place, content, attempt>>
transportVars == <<place, content, attempt, consumer, holds, confirming, abandoned>>
deliveryVars == <<vars, transportVars>>

DeliveryTypeOK ==
  /\ TypeOK
  /\ place \in [Copies -> {"unused", "ready", "unacked", "acked", "dead"}]
  /\ content \in [Copies -> Contents \cup {NoBody}]
  /\ attempt \in [Copies -> Int]
  /\ consumer \in BOOLEAN
  /\ holds \in [Handlers -> Copies \cup {NoCopy}]
  /\ confirming \in SUBSET Handlers
  /\ abandoned \in SUBSET Copies
  /\ \A c \in Copies : place[c] = "unused" <=> content[c] = NoBody
  /\ \A h \in Handlers : holds[h] # NoCopy => content[holds[h]] # NoBody
  /\ \A h \in confirming : holds[h] # NoCopy

DeliveryInit ==
  /\ Init
  /\ place      = [c \in Copies |-> "unused"]
  /\ content    = [c \in Copies |-> NoBody]
  /\ attempt    = [c \in Copies |-> 0]
  /\ consumer   = FALSE
  /\ holds      = [h \in Handlers |-> NoCopy]
  /\ confirming = {}
  /\ abandoned  = {}

-----------------------------------------------------------------------------
deliveryAttempt(c) == IF attempt[c] >= 1 THEN attempt[c] ELSE 1

Free(h) == pc[h] = "idle" /\ holds[h] = NoCopy

(* The broker accepts a copy. *)
Enqueue(c, where, what, header) ==
  /\ place[c] = "unused"
  /\ place'   = [place EXCEPT ![c] = where]
  /\ content' = [content EXCEPT ![c] = what]
  /\ attempt' = [attempt EXCEPT ![c] = header]

(* Handler h is done with its delivery, which ends up at where. *)
LetGo(h, where) ==
  /\ place' = [place EXCEPT ![holds[h]] = where]
  /\ holds' = [holds EXCEPT ![h] = NoCopy]
  /\ confirming' = confirming \ {h}
  /\ UNCHANGED <<content, attempt, consumer>>

(* Its publication, or processing, went well: the delivery is settled. *)
Settle(h, where) == LetGo(h, where) /\ UNCHANGED abandoned

(* Its publication failed: the handler returns without an acknowledgement. *)
Abandon(h) ==
  /\ LetGo(h, "unacked")
  /\ abandoned' = abandoned \cup {holds[h]}

(* The broker takes back what a closed channel left unacknowledged. *)
Requeue ==
  /\ consumer'   = FALSE
  /\ place'      = [c \in Copies |-> IF place[c] = "unacked" THEN "ready" ELSE place[c]]
  /\ holds'      = [h \in Handlers |-> NoCopy]
  /\ confirming' = {}
  /\ abandoned'  = {}
  /\ UNCHANGED <<content, attempt>>

-----------------------------------------------------------------------------
(* The development endpoint or an external producer publishes an event. *)
Publish(c, what, header) ==
  /\ Enqueue(c, "ready", what, header)
  /\ UNCHANGED <<vars, consumer, holds, confirming, abandoned>>

(* A process starts and attaches its consumer. *)
StartConsumer ==
  /\ ~consumer
  /\ consumer' = TRUE
  /\ UNCHANGED <<vars, queueVars, holds, confirming, abandoned>>

(* consumeMessage begins: a parsable event goes to the processor. *)
Deliver(h, c) ==
  /\ consumer
  /\ Free(h)
  /\ place[c] = "ready"
  /\ Cardinality({d \in Copies : place[d] = "unacked"}) < Prefetch
  /\ place' = [place EXCEPT ![c] = "unacked"]
  /\ holds' = [holds EXCEPT ![h] = c]
  /\ IF content[c] = Malformed THEN UNCHANGED vars ELSE Start(h, content[c])
  /\ UNCHANGED <<content, attempt, consumer, confirming, abandoned>>

(* MUTANT of Acknowledge: failed deliveries are acknowledged as well. *)
AcknowledgeAll(h) ==
  /\ holds[h] # NoCopy
  /\ pc[h] \in {"COMPLETED", "DUPLICATE", "ERROR"}
  /\ Finish(h)
  /\ Settle(h, "acked")

(* The processor answered COMPLETED or DUPLICATE: acknowledge. *)
Acknowledge(h) ==
  /\ holds[h] # NoCopy
  /\ pc[h] \in {"COMPLETED", "DUPLICATE"}
  /\ Finish(h)
  /\ Settle(h, "acked")

(* Parsing or processing the delivery of h threw. *)
Threw(h) ==
  /\ holds[h] # NoCopy
  /\ h \notin confirming
  /\ \/ pc[h] \in {"CONFLICT", "ERROR"} /\ Finish(h)
     \/ content[holds[h]] = Malformed /\ UNCHANGED vars

(* The broker takes a retry, or a dead letter after the last attempt. *)
Resend(h, next) ==
  LET c == holds[h] IN
  /\ \E d \in Copies \ Originals :
       IF deliveryAttempt(c) < MaxAttempts
       THEN Enqueue(d, "ready", content[c], next)
       ELSE Enqueue(d, "dead", content[c], deliveryAttempt(c))
  /\ confirming' = confirming \cup {h}
  /\ UNCHANGED <<consumer, holds, abandoned>>

(* MUTANT of Republish: acknowledged even if the publication failed. *)
RepublishFinallyAck(h) ==
  /\ Threw(h)
  /\ \/ Resend(h, deliveryAttempt(holds[h]) + 1)
     \/ BrokerFaults /\ Settle(h, "acked")

(* MUTANT of Republish: the retry carries the attempt of its original. *)
RepublishSameAttempt(h) ==
  /\ Threw(h)
  /\ \/ Resend(h, deliveryAttempt(holds[h]))
     \/ BrokerFaults /\ Abandon(h)

(* The catch block of consumeMessage: publish the content again, with the
   next attempt or to the dead-letter exchange.  A publication that fails
   is swallowed and leaves the delivery unacknowledged. *)
Republish(h) ==
  /\ Threw(h)
  /\ \/ Resend(h, deliveryAttempt(holds[h]) + 1)
     \/ BrokerFaults /\ Abandon(h)

(* MUTANT of Confirmed: the original goes back to the queue. *)
ConfirmedNack(h) ==
  /\ h \in confirming
  /\ Settle(h, "ready")
  /\ UNCHANGED vars

(* MUTANT of Confirmed: the original is not acknowledged. *)
ConfirmedSilently(h) ==
  /\ h \in confirming
  /\ Settle(h, "unacked")
  /\ UNCHANGED vars

(* The broker confirms the retry or dead letter: acknowledge. *)
Confirmed(h) ==
  /\ h \in confirming
  /\ Settle(h, "acked")
  /\ UNCHANGED vars

(* waitForConfirms rejects: for this publication or for another one that is
   outstanding on the shared channel. *)
ConfirmFails(h) ==
  /\ BrokerFaults
  /\ h \in confirming
  /\ Abandon(h)
  /\ UNCHANGED vars

(* A webhook request or the daily policy calls the processor. *)
Call(h, b) ==
  /\ DirectTriggers
  /\ Free(h)
  /\ Start(h, b)
  /\ UNCHANGED transportVars

(* The result reaches a direct caller, or a handler that lost its channel:
   neither has anything to acknowledge or publish. *)
Return(h) ==
  /\ holds[h] = NoCopy
  /\ Finish(h)
  /\ UNCHANGED transportVars

Process(h) == Step(h) /\ UNCHANGED transportVars

(* close() at shutdown, or a connection closed under the consumer: handlers
   run on, but their acknowledgements and publications are in vain. *)
ChannelLost ==
  /\ ChannelLosses
  /\ consumer
  /\ Requeue
  /\ UNCHANGED vars

Crash ==
  /\ Crashes
  /\ Requeue
  /\ Die(Handlers)

DeliveryNext ==
  \/ \E c \in Originals, what \in Contents, header \in Headers : Publish(c, what, header)
  \/ StartConsumer
  \/ \E h \in Handlers :
       \/ \E c \in Copies : Deliver(h, c)
       \/ \E b \in Body : Call(h, b)
       \/ Process(h)
       \/ Acknowledge(h)
       \/ Republish(h)
       \/ Confirmed(h)
       \/ ConfirmFails(h)
       \/ Return(h)
  \/ ChannelLost
  \/ Crash

DeliverySpec == DeliveryInit /\ [][DeliveryNext]_deliveryVars

(* A process is started, the broker delivers to a consumer with room, and
   every continuation of a handler runs: its database call, workflow or
   confirmation answers or throws. *)
FairDeliverySpec ==
  /\ DeliverySpec
  /\ WF_deliveryVars(StartConsumer)
  /\ \A c \in Copies : WF_deliveryVars(\E h \in Handlers : Deliver(h, c))
  /\ \A h \in Handlers :
       WF_deliveryVars(\/ Process(h) \/ Acknowledge(h) \/ Republish(h)
                       \/ Confirmed(h) \/ Return(h))

-----------------------------------------------------------------------------
SameContent(c) == {d \in Copies : content[d] = content[c]}
Queued(c) == place[c] \in {"ready", "unacked"}
Superseded(c) ==
  \E d \in SameContent(c) : place[d] = "dead" \/ attempt[d] > attempt[c]
Known(b) == b # Malformed /\ payloadHash[b.id] = b.hash
Stranded(e) == status[e] = "PROCESSING" /\ HoldersOf(e) = {}

(* No delivery disappears without a trace, whatever fails: the content of an
   acknowledged copy has been claimed in processed_events under its
   identifier, or has been published again with a later attempt, or is in
   the dead-letter queue. *)
AckedLeavesTrace ==
  \A c \in Copies : place[c] = "acked" => Known(content[c]) \/ Superseded(c)

(* What keeps AckedLeavesTrace: a delivery is in the hands of one handler,
   which processes its content, and which waits for a confirmation only when
   the retry or the dead letter has reached the broker. *)
TraceInv ==
  /\ AckedLeavesTrace
  /\ ContentInv
  /\ \A h \in Handlers : holds[h] # NoCopy =>
       /\ place[holds[h]] = "unacked"
       /\ pc[h] # "idle" => body[h] = content[holds[h]]
       /\ \A k \in Handlers : holds[k] = holds[h] => k = h
  /\ \A h \in confirming : holds[h] # NoCopy /\ pc[h] = "idle" /\ Superseded(holds[h])

(* While the queue is the only trigger and handlers end with their channel,
   an acknowledged event is completed, still queued, dead-lettered, or
   stranded: it is never left FAILED with nothing to retry it. *)
AckedIsNotForgotten ==
  \A c \in Copies : place[c] = "acked" =>
    \/ \E d \in SameContent(c) : Queued(d) \/ place[d] = "dead"
    \/ /\ Known(content[c])
       /\ status[content[c].id] = "COMPLETED" \/ Stranded(content[c].id)

(* An acknowledged event is completed, dead-lettered, or somebody or
   something still in the system will work on it. *)
NoEventLost ==
  \A c \in Copies : place[c] = "acked" =>
    \/ \E d \in SameContent(c) : Queued(d) \/ place[d] = "dead"
    \/ /\ Known(content[c])
       /\ status[content[c].id] = "COMPLETED" \/ HoldersOf(content[c].id) # {}

(* Unless a channel closes, retrying multiplies nothing, also when the broker
   refuses publications or enqueues what it does not confirm: a content is in
   the queue, in work or dead-lettered at most as often as producers published
   it.  A retry in the queue stands for the delivery that waits for its
   confirmation, or was abandoned. *)
RetriesDoNotMultiply ==
  \A c \in Copies : content[c] # NoBody =>
    Cardinality({d \in SameContent(c) :
                   \/ place[d] = "dead"
                   \/ Queued(d) /\ d \notin abandoned /\ \A h \in confirming : holds[h] # d})
      <= Cardinality(SameContent(c) \cap Originals)

(* Retries end, also when publications and confirmations fail: as long as no
   channel closes under its handlers, the broker is given at most MaxAttempts
   retries and dead letters for each published message, whatever x-attempt the
   producer stated and however handlers and deliveries interleave. *)
PublicationsAreBounded ==
  Cardinality({d \in Copies \ Originals : place[d] # "unused"})
    <= MaxAttempts * Cardinality({c \in Originals : place[c] # "unused"})

(* A step of handler h that needs nothing but its turn: the guards of Process,
   Acknowledge, Return, Republish and Confirmed. *)
GoesOn(h) ==
  LET room == \E d \in Copies \ Originals : place[d] = "unused" IN
  \/ pc[h] \in Claiming \cup Working \cup {"COMPLETED", "DUPLICATE"}
  \/ pc[h] \in {"CONFLICT", "ERROR"} /\ (holds[h] = NoCopy \/ (h \notin confirming /\ room))
  \/ holds[h] # NoCopy /\ content[holds[h]] = Malformed /\ h \notin confirming /\ room
  \/ h \in confirming

(* No delivery is left with nobody to settle it, unless its publication
   failed: whoever holds it can go on.  A queued message is delivered next or
   waits for a handler that can go on, as long as fewer than Prefetch
   publications have failed: what the limit counts besides is in somebody's
   hands. *)
NoDeliveryIsStuck ==
  \A c \in Copies :
    /\ place[c] = "unacked" => c \in abandoned \/ \E h \in Handlers : holds[h] = c /\ GoesOn(h)
    /\ place[c] = "ready" =>
         \/ ~consumer
         \/ /\ \E h \in Handlers : Free(h)
            /\ Cardinality({d \in Copies : place[d] = "unacked"}) < Prefetch
         \/ \E h \in Handlers : GoesOn(h)
         \/ Cardinality(abandoned) >= Prefetch

(* What is left to do for the delivery in the hands of handler h. *)
Todo(h) ==
  CASE pc[h] = "creating"                -> 9
    [] pc[h] = "finding"                 -> 8
    [] pc[h] = "reclaiming"              -> 7
    [] pc[h] = "running"                 -> 6
    [] pc[h] = "notified"                -> 5
    [] pc[h] \in {"completing", "failing"} -> 4
    [] pc[h] = "aborting"                -> 3
    [] pc[h] \in Results                 -> 2
    [] OTHER                             -> IF h \in confirming THEN 0 ELSE 1

(* Every step of a handler brings its delivery nearer to its end, where it is
   acknowledged, abandoned, or back in the queue of a closed channel: no claim is tried
   again and no failure retried within one delivery, and what is settled
   stays settled. *)
DeliveriesWindDown ==
  [][/\ \A c \in Copies : place[c] \in {"acked", "dead"} => place'[c] = place[c]
     /\ \A h \in Handlers :
          holds[h] # NoCopy /\ <<pc[h], holds[h], h \in confirming>>'
                                 # <<pc[h], holds[h], h \in confirming>>
          => IF holds'[h] = holds[h]
             THEN Todo(h)' < Todo(h)
             ELSE /\ holds'[h] = NoCopy
                  /\ place'[holds[h]] = "unacked" => holds[h] \in abandoned']_deliveryVars

(* Every message the broker accepted is acknowledged or dead-lettered in the
   end, unless its own publication fails or Prefetch others have: retries end,
   no delivery waits for another for ever, and the consumer stands still only
   when abandoned deliveries have used up its prefetch limit. *)
EveryMessageSettles ==
  \A c \in Copies :
    (place[c] # "unused") ~> \/ place[c] \in {"acked", "dead"}
                            \/ c \in abandoned
                            \/ Cardinality(abandoned) >= Prefetch

(* The delivery system drives the processor only through its operations. *)
DrivesProcessedEvents == Spec
=============================================================================
