---------------------- MODULE OnboardingDelivery_proofs ---------------------
(* Proofs about OnboardingDelivery, for every number of messages, handlers
   and events, every prefetch and every bound on attempts. *)
EXTENDS OnboardingDelivery, ProcessedEvents_proofs, FiniteSetTheorems

(* Every step of the delivery system is a step of the processor or leaves the
   processor alone. *)
LEMMA StepsDriveProcessor ==
  ASSUME DeliveryTypeOK, [DeliveryNext]_deliveryVars
  PROVE  [Next]_vars
<1>1. ASSUME NEW h \in Handlers, NEW c \in Copies, Deliver(h, c) PROVE [Next]_vars
  <2>1. content[c] \in Contents
    BY <1>1 DEF Deliver, DeliveryTypeOK
  <2> QED
    BY <1>1, <2>1 DEF Deliver, Contents, Next
<1>2. ASSUME NEW h \in Handlers PROVE Republish(h) => [Next]_vars
  BY DEF Republish, Threw, Next
<1>3. Crash => Next
  BY DEF Crash, Next
<1> QED
  BY <1>1, <1>2, <1>3
  DEF DeliveryNext, Publish, StartConsumer, Call, Process, Acknowledge, Confirmed, ConfirmFails,
      Return, ChannelLost, Next, deliveryVars

(* DeliveryTypeOK is inductive. *)
LEMMA DeliveryTypeStep ==
  ASSUME DeliveryTypeOK, [DeliveryNext]_deliveryVars
  PROVE  DeliveryTypeOK'
<1>1. TypeOK'
  BY StepsDriveProcessor, TypeStep DEF DeliveryTypeOK
<1> DEFINE Transport ==
      /\ place \in [Copies -> {"unused", "ready", "unacked", "acked", "dead"}]
      /\ content \in [Copies -> Contents \cup {NoBody}]
      /\ attempt \in [Copies -> Int]
      /\ consumer \in BOOLEAN
      /\ holds \in [Handlers -> Copies \cup {NoCopy}]
      /\ confirming \in SUBSET Handlers
      /\ abandoned \in SUBSET Copies
      /\ \A c \in Copies : place[c] = "unused" <=> content[c] = NoBody
      /\ \A h \in Handlers : holds[h] # NoCopy => content[holds[h]] # NoBody
      /\ \A h \in confirming : holds[h] # NoCopy
<1>2. Transport'
  <2> USE DEF DeliveryTypeOK
  <2>1. \A b \in Contents : b # NoBody
    BY ProcessedEventsAssumption, DeliveryAssumption DEF Contents
  <2>2. ASSUME NEW c \in Copies, NEW where \in {"ready", "dead"}, NEW what \in Contents,
               NEW header \in Int, Enqueue(c, where, what, header),
               UNCHANGED <<holds, consumer, abandoned>>, confirming' \in SUBSET Handlers,
               \A h \in confirming' : holds[h] # NoCopy
        PROVE  Transport'
    BY <2>1, <2>2 DEF Enqueue
  <2>3. ASSUME NEW c \in Originals, NEW what \in Contents, NEW header \in Headers,
               Publish(c, what, header)
        PROVE  Transport'
    BY <2>2, <2>3, DeliveryAssumption DEF Publish
  <2>4. CASE StartConsumer
    BY <2>4 DEF StartConsumer, queueVars
  <2>5. ASSUME NEW h \in Handlers, NEW c \in Copies, Deliver(h, c) PROVE Transport'
    BY <2>5, DeliveryAssumption DEF Deliver
  <2>6. ASSUME NEW h \in Handlers, holds[h] # NoCopy,
               NEW where \in {"acked", "unacked"}, LetGo(h, where),
               abandoned' \in SUBSET Copies
        PROVE  Transport'
    BY <2>6, DeliveryAssumption DEF LetGo
  <2>7. ASSUME NEW h \in Handlers, Acknowledge(h) PROVE Transport'
    BY <2>6, <2>7 DEF Acknowledge, Settle
  <2>8. ASSUME NEW h \in Handlers, Republish(h) PROVE Transport'
    <3>1. /\ holds[h] \in Copies /\ content[holds[h]] \in Contents
          /\ deliveryAttempt(holds[h]) \in Int /\ deliveryAttempt(holds[h]) + 1 \in Int
      BY <2>8 DEF Republish, Threw, deliveryAttempt
    <3>2. CASE Abandon(h)
      BY <2>6, <2>8, <3>1, <3>2 DEF Republish, Threw, Abandon
    <3>3. ASSUME NEW d \in Copies, NEW where \in {"ready", "dead"}, NEW header \in Int,
                 Enqueue(d, where, content[holds[h]], header),
                 UNCHANGED <<holds, consumer, abandoned>>, confirming' = confirming \cup {h}
          PROVE  Transport'
      <4>1. holds[h] # NoCopy
        BY <2>8 DEF Republish, Threw, Resend
      <4> QED
        BY <2>2, <3>1, <3>3, <4>1
    <3> QED
      BY <2>8, <3>1, <3>2, <3>3 DEF Republish, Threw, Resend
  <2>9. ASSUME NEW h \in Handlers, Confirmed(h) \/ ConfirmFails(h) PROVE Transport'
    BY <2>6, <2>9 DEF Confirmed, ConfirmFails, Settle, Abandon
  <2>10. CASE Requeue
    BY <2>10 DEF Requeue
  <2>11. CASE UNCHANGED transportVars
    BY <2>11 DEF transportVars
  <2> QED
    BY <2>3, <2>4, <2>5, <2>7, <2>8, <2>9, <2>10, <2>11
    DEF DeliveryNext, Call, Return, Process, ChannelLost, Crash, deliveryVars
<1> QED
  BY <1>1, <1>2 DEF DeliveryTypeOK

(* Every reachable state of the queue, its consumers and the processor has
   its declared shape. *)
THEOREM DeliveryTypeCorrect == DeliverySpec => []DeliveryTypeOK
<1>1. DeliveryInit => DeliveryTypeOK
  <2>1. Init => TypeOK
    BY DEF Init, TypeOK, Statuses
  <2> SUFFICES ASSUME DeliveryInit PROVE DeliveryTypeOK
    OBVIOUS
  <2> USE DEF DeliveryInit
  <2>2. place \in [Copies -> {"unused", "ready", "unacked", "acked", "dead"}]
    OBVIOUS
  <2>3. content \in [Copies -> Contents \cup {NoBody}] /\ attempt \in [Copies -> Int]
    OBVIOUS
  <2>4. holds \in [Handlers -> Copies \cup {NoCopy}] /\ confirming \in SUBSET Handlers
    OBVIOUS
  <2> QED
    BY <2>1, <2>2, <2>3, <2>4 DEF DeliveryTypeOK
<1> QED
  BY <1>1, DeliveryTypeStep, PTL DEF DeliverySpec

(* The queue, the webhook and the schedule reach processed_events only through
   the processor: whatever holds of ProcessedEvents holds of the deployed
   system, under every broker failure and crash. *)
THEOREM Drives == DeliverySpec => DrivesProcessedEvents
<1>1. DeliveryInit => Init
  BY DEF DeliveryInit
<1> QED
  BY <1>1, StepsDriveProcessor, DeliveryTypeCorrect, PTL
  DEF DeliverySpec, DrivesProcessedEvents, Spec

(* No two triggers run the workflow of one event at the same time, however
   deliveries are repeated, if a refused database write was not applied. *)
THEOREM TriggersExclude ==
  ASSUME ~LostReplies
  PROVE  DeliverySpec => []OneRunPerEvent
  BY Drives, ExclusiveRun, PTL DEF DrivesProcessedEvents

(* Retries, dead-lettering, webhook and schedule share the table as
   ExclusiveClaim promises it, through every broker failure, closed channel
   and crash. *)
THEOREM TriggersShareClaims ==
  ASSUME ~LostReplies
  PROVE  DeliverySpec => ImplementsExclusiveClaim
  BY Drives, ClaimRefinement DEF DrivesProcessedEvents

(* No retry and no other trigger reopens a completed event or notifies its
   manager again. *)
THEOREM TriggersKeepCompleted ==
  ASSUME ~LostReplies
  PROVE  DeliverySpec => CompletedIsFinal
  BY Drives, CompletedStays DEF DrivesProcessedEvents

-----------------------------------------------------------------------------
(* A row never changes the content it was created with. *)
LEMMA KnownStays ==
  ASSUME TypeOK, ContentInv, [Next]_vars, NEW b \in Contents, Known(b)
  PROVE  Known(b)'
<1>1. b \in Body /\ b.id \in EventIds /\ b.hash \in Hashes /\ b.hash # NoHash
  BY ProcessedEventsAssumption DEF Known, Contents, Body
<1>2. payloadHash[b.id] = b.hash /\ status[b.id] # "ABSENT"
  BY <1>1 DEF Known, ContentInv
<1>3. ASSUME NEW h \in Handlers, Step(h) PROVE payloadHash'[b.id] = payloadHash[b.id]
  BY <1>1, <1>2, <1>3, StepFrame, StepOutcomes DEF StepOutcome
<1>4. payloadHash'[b.id] = payloadHash[b.id]
  BY <1>3 DEF Next, vars, Start, Finish, Die
<1> QED
  BY <1>2, <1>4 DEF Known

(* What a step may do to the copies: content and attempt are fixed when a
   copy is accepted, and a dead letter stays one. *)
CopiesGrow ==
  \A c \in Copies : place[c] # "unused" =>
    /\ content'[c] = content[c] /\ attempt'[c] = attempt[c] /\ place'[c] # "unused"
    /\ place[c] = "dead" => place'[c] = "dead"

LEMMA SupersededStays ==
  ASSUME DeliveryTypeOK, CopiesGrow, NEW c \in Copies, place[c] # "unused", Superseded(c)
  PROVE  Superseded(c)'
<1>1. PICK d \in Copies : /\ content[d] = content[c]
                          /\ place[d] = "dead" \/ attempt[d] > attempt[c]
  BY DEF Superseded, SameContent
<1>2. place[d] # "unused"
  BY <1>1 DEF DeliveryTypeOK
<1> QED
  BY <1>1, <1>2 DEF CopiesGrow, Superseded, SameContent

LEMMA CopiesOnlyGrow ==
  ASSUME DeliveryTypeOK, TraceInv, [DeliveryNext]_deliveryVars
  PROVE  CopiesGrow
<1> USE DEF CopiesGrow
<1>1. ASSUME NEW c \in Copies, NEW where, NEW what, NEW header, Enqueue(c, where, what, header)
      PROVE  CopiesGrow
  BY <1>1 DEF Enqueue, DeliveryTypeOK
<1>2. ASSUME NEW h \in Handlers, holds[h] # NoCopy,
             NEW where \in {"acked", "unacked"}, LetGo(h, where)
      PROVE  CopiesGrow
  BY <1>2 DEF LetGo, DeliveryTypeOK, TraceInv
<1>3. ASSUME NEW h \in Handlers, NEW c \in Copies, Deliver(h, c) PROVE CopiesGrow
  BY <1>3 DEF Deliver, DeliveryTypeOK
<1>4. ASSUME NEW h \in Handlers, Acknowledge(h) \/ Confirmed(h) \/ ConfirmFails(h)
      PROVE  CopiesGrow
  BY <1>2, <1>4 DEF Settle, Abandon, Acknowledge, Confirmed, ConfirmFails, DeliveryTypeOK
<1>5. ASSUME NEW h \in Handlers, Republish(h) PROVE CopiesGrow
  BY <1>1, <1>2, <1>5 DEF Settle, Abandon, Republish, Threw, Resend
<1>6. CASE Requeue
  BY <1>6 DEF Requeue, DeliveryTypeOK
<1>7. CASE UNCHANGED queueVars
  BY <1>7 DEF queueVars
<1>8. ASSUME NEW c \in Originals, NEW what \in Contents, NEW header \in Headers,
             Publish(c, what, header)
      PROVE  CopiesGrow
  BY <1>1, <1>8, DeliveryAssumption DEF Publish
<1> QED
  BY <1>3, <1>4, <1>5, <1>6, <1>7, <1>8
  DEF DeliveryNext, StartConsumer, Call, Return, Process, ChannelLost, Crash,
      deliveryVars, transportVars, queueVars

(* A delivery is acknowledged only when its content has been claimed or
   published again. *)
LEMMA AckJustified ==
  ASSUME DeliveryTypeOK, TraceInv, [DeliveryNext]_deliveryVars,
         NEW c \in Copies, place[c] # "acked", place'[c] = "acked"
  PROVE  place[c] = "unacked" /\ (Known(content[c]) \/ Superseded(c))
<1>1. ASSUME NEW h \in Handlers, Acknowledge(h) PROVE place[c] = "unacked" /\ Known(content[c])
  <2>1. c = holds[h]
    BY <1>1 DEF Settle, Abandon, Acknowledge, LetGo, DeliveryTypeOK
  <2>2. pc[h] # "idle" /\ body[h] \in Body /\ payloadHash[Id(h)] = body[h].hash
    BY <1>1, BusyHasBody DEF Acknowledge, TraceInv, ContentInv, DeliveryTypeOK
  <2>3. body[h] = content[c] /\ place[c] = "unacked"
    BY <1>1, <2>1, <2>2 DEF Acknowledge, TraceInv
  <2> QED
    BY <2>2, <2>3, DeliveryAssumption DEF Known, Id
<1>2. ASSUME NEW h \in Handlers, Confirmed(h) PROVE place[c] = "unacked" /\ Superseded(c)
  BY <1>2 DEF Settle, Abandon, Confirmed, LetGo, DeliveryTypeOK, TraceInv
<1>3. ASSUME NEW h \in Handlers, LetGo(h, "unacked") PROVE FALSE
  BY <1>3 DEF LetGo, DeliveryTypeOK
<1>4. ASSUME NEW d \in Copies, NEW where \in {"ready", "dead"}, NEW what, NEW header,
             Enqueue(d, where, what, header)
      PROVE  FALSE
  BY <1>4 DEF Enqueue, DeliveryTypeOK
<1>5. ASSUME NEW h \in Handlers, Republish(h) PROVE FALSE
  BY <1>3, <1>4, <1>5 DEF Settle, Abandon, Republish, Threw, Resend
<1>6. ASSUME NEW h \in Handlers, NEW d \in Copies, Deliver(h, d) PROVE FALSE
  BY <1>6 DEF Deliver, DeliveryTypeOK
<1>7. ~Requeue /\ ~UNCHANGED queueVars
  BY DEF Requeue, queueVars, DeliveryTypeOK
<1>8. ASSUME NEW d \in Originals, NEW what \in Contents, NEW header \in Headers,
             Publish(d, what, header)
      PROVE  FALSE
  BY <1>4, <1>8, DeliveryAssumption DEF Publish
<1> QED
  BY <1>1, <1>2, <1>3, <1>5, <1>6, <1>7, <1>8
  DEF Abandon, DeliveryNext, StartConsumer, ConfirmFails, Call, Return, Process, ChannelLost,
      Crash, deliveryVars, transportVars, queueVars

(* The hands of the handlers: the part of TraceInv about holds. *)
HeldOnce ==
  \A h \in Handlers : holds[h] # NoCopy =>
    /\ place[holds[h]] = "unacked"
    /\ pc[h] # "idle" => body[h] = content[holds[h]]
    /\ \A k \in Handlers : holds[k] = holds[h] => k = h

Waiting ==
  \A h \in confirming : holds[h] # NoCopy /\ pc[h] = "idle" /\ Superseded(holds[h])

(* Steps of the processor alone keep a handler on its event. *)
LEMMA StepKeepsBody ==
  ASSUME TypeOK, NEW h \in Handlers, Step(h)
  PROVE  /\ pc[h] # "idle" /\ body' = body
         /\ \A k \in Handlers \ {h} : pc'[k] = pc[k]
  BY StepFrame DEF Claiming, Working

LEMMA FinishIdles ==
  ASSUME TypeOK, NEW h \in Handlers, Finish(h)
  PROVE  /\ pc'[h] = "idle" /\ pc[h] # "idle"
         /\ \A k \in Handlers \ {h} : pc'[k] = pc[k] /\ body'[k] = body[k]
  BY DEF Finish, TypeOK, Results

(* HeldOnce and Waiting are inductive together. *)
LEMMA HandsStep ==
  ASSUME DeliveryTypeOK, TraceInv, [DeliveryNext]_deliveryVars
  PROVE  HeldOnce' /\ Waiting'
<1> DEFINE Hands == HeldOnce /\ Waiting
<1>0. Hands
  BY DEF TraceInv, HeldOnce, Waiting
<1>1. \A c \in Copies : place[c] # "unused" /\ Superseded(c) => Superseded(c)'
  BY CopiesOnlyGrow, SupersededStays
<1>2. \A h \in Handlers : holds[h] \in Copies \cup {NoCopy}
  BY DEF DeliveryTypeOK
<1>3. ASSUME UNCHANGED <<vars, holds, confirming>>,
             \A h \in Handlers : holds[h] # NoCopy =>
               place'[holds[h]] = place[holds[h]] /\ content'[holds[h]] = content[holds[h]]
      PROVE  Hands'
  BY <1>0, <1>1, <1>2, <1>3 DEF HeldOnce, Waiting, vars, DeliveryTypeOK
<1>4. ASSUME NEW c \in Originals, NEW what \in Contents, NEW header \in Headers,
             Publish(c, what, header)
      PROVE  Hands'
  BY <1>0, <1>2, <1>3, <1>4, DeliveryAssumption DEF Publish, Enqueue, HeldOnce, DeliveryTypeOK
<1>5. CASE StartConsumer
  BY <1>3, <1>5 DEF StartConsumer, queueVars
<1>6. ASSUME NEW h \in Handlers, NEW c \in Copies, Deliver(h, c) PROVE Hands'
  <2>1. /\ \A k \in Handlers \ {h} : pc'[k] = pc[k] /\ body'[k] = body[k] /\ holds'[k] = holds[k]
        /\ holds'[h] = c /\ c # NoCopy
        /\ h \notin confirming
        /\ pc'[h] # "idle" => body'[h] = content[c]
    BY <1>0, <1>6, DeliveryAssumption
    DEF Deliver, Free, Start, vars, DeliveryTypeOK, TypeOK, Waiting
  <2>2. \A k \in Handlers : holds[k] # c
    BY <1>0, <1>6, <2>1 DEF Deliver, HeldOnce
  <2>3. HeldOnce'
    BY <1>0, <1>2, <1>6, <2>1, <2>2 DEF Deliver, HeldOnce, DeliveryTypeOK
  <2>4. Waiting'
    BY <1>0, <1>1, <1>2, <1>6, <2>1 DEF Deliver, Waiting, HeldOnce, DeliveryTypeOK
  <2> QED
    BY <2>3, <2>4
<1>7. ASSUME NEW h \in Handlers, holds[h] # NoCopy, NEW where \in {"acked", "unacked"},
             LetGo(h, where),
             \A k \in Handlers \ {h} : pc'[k] = pc[k] /\ body'[k] = body[k]
      PROVE  Hands'
  <2>1. /\ \A k \in Handlers \ {h} : holds'[k] = holds[k] /\ holds[k] # holds[h]
        /\ holds'[h] = NoCopy /\ confirming' = confirming \ {h}
        /\ \A c \in Copies \ {holds[h]} : place'[c] = place[c]
        /\ content' = content
    BY <1>0, <1>7 DEF LetGo, HeldOnce, DeliveryTypeOK
  <2>2. HeldOnce'
    BY <1>0, <1>2, <1>7, <2>1 DEF HeldOnce
  <2>3. Waiting'
    BY <1>0, <1>1, <1>2, <1>7, <2>1 DEF Waiting, HeldOnce, DeliveryTypeOK
  <2> QED
    BY <2>2, <2>3
<1>8. ASSUME NEW h \in Handlers, Acknowledge(h) PROVE Hands'
  BY <1>7, <1>8, FinishIdles DEF Settle, Abandon, Acknowledge, DeliveryTypeOK
<1>9. ASSUME NEW h \in Handlers, Confirmed(h) \/ ConfirmFails(h) PROVE Hands'
  BY <1>7, <1>9 DEF Settle, Abandon, Confirmed, ConfirmFails, DeliveryTypeOK, vars
<1>10. ASSUME NEW h \in Handlers, Republish(h) PROVE Hands'
  <2>1. /\ holds[h] \in Copies /\ place[holds[h]] = "unacked"
        /\ content[holds[h]] \in Contents /\ attempt[holds[h]] \in Int
    BY <1>0, <1>10, <1>2 DEF Republish, Threw, HeldOnce, DeliveryTypeOK
  <2>2. /\ pc'[h] = "idle"
        /\ \A k \in Handlers \ {h} : pc'[k] = pc[k] /\ body'[k] = body[k]
    <3>1. CASE Finish(h)
      BY <3>1, FinishIdles DEF DeliveryTypeOK
    <3>2. CASE content[holds[h]] = Malformed /\ UNCHANGED vars
      BY <1>0, <1>10, <3>2, BusyHasBody, DeliveryAssumption
      DEF Republish, Threw, HeldOnce, DeliveryTypeOK, vars
    <3> QED
      BY <1>10, <3>1, <3>2 DEF Republish, Threw, Resend
  <2>3. CASE LetGo(h, "unacked")
    BY <1>7, <1>10, <2>2, <2>3 DEF Republish, Threw, Resend
  <2>4. ASSUME NEW d \in Copies, NEW where \in {"ready", "dead"}, NEW header \in Int,
               Enqueue(d, where, content[holds[h]], header),
               where = "dead" \/ header > attempt[holds[h]],
               holds' = holds, confirming' = confirming \cup {h}
        PROVE  Hands'
    <3>1. /\ d # holds[h] /\ place'[d] = where
          /\ content'[d] = content[holds[h]] /\ attempt'[d] = header
          /\ \A c \in Copies \ {d} : /\ place'[c] = place[c]
                                     /\ content'[c] = content[c] /\ attempt'[c] = attempt[c]
      BY <2>1, <2>4 DEF Enqueue, DeliveryTypeOK
    <3>2. Superseded(holds[h])'
      BY <2>1, <2>4, <3>1 DEF Superseded, SameContent
    <3>3. Waiting'
      BY <1>0, <1>1, <1>10, <1>2, <2>2, <2>4, <3>2 DEF Republish, Threw, Waiting, HeldOnce, DeliveryTypeOK
    <3>4. \A k \in Handlers : holds[k] # d
      <4>1. place[d] = "unused" /\ d # NoCopy
        BY <2>4, DeliveryAssumption DEF Enqueue
      <4> QED
        BY <1>0, <4>1 DEF HeldOnce
    <3>5. HeldOnce'
      BY <1>0, <1>2, <2>2, <2>4, <3>1, <3>4 DEF HeldOnce
    <3> QED
      BY <3>3, <3>5
  <2>5. CASE ~LetGo(h, "unacked")
    <3>1. deliveryAttempt(holds[h]) + 1 \in Int /\ deliveryAttempt(holds[h]) + 1 > attempt[holds[h]]
      BY <2>1 DEF deliveryAttempt
    <3>2. deliveryAttempt(holds[h]) \in Int
      BY <2>1 DEF deliveryAttempt
    <3> QED
      BY <1>10, <2>1, <2>4, <2>5, <3>1, <3>2 DEF Settle, Abandon, Republish, Threw, Resend
  <2> QED
    BY <2>3, <2>5
<1>11. ASSUME NEW h \in Handlers, NEW b \in Body, Call(h, b) PROVE Hands'
  <2>1. /\ holds[h] = NoCopy /\ UNCHANGED transportVars
        /\ \A k \in Handlers \ {h} : pc'[k] = pc[k] /\ body'[k] = body[k]
    BY <1>11 DEF Call, Free, Start, DeliveryTypeOK, TypeOK
  <2> QED
    BY <1>0, <1>1, <1>2, <2>1 DEF HeldOnce, Waiting, transportVars, DeliveryTypeOK
<1>12. ASSUME NEW h \in Handlers, Return(h) PROVE Hands'
  <2>1. /\ holds[h] = NoCopy /\ UNCHANGED transportVars
        /\ \A k \in Handlers \ {h} : pc'[k] = pc[k] /\ body'[k] = body[k]
    BY <1>12, FinishIdles DEF Return, DeliveryTypeOK
  <2> QED
    BY <1>0, <1>1, <1>2, <2>1 DEF HeldOnce, Waiting, transportVars, DeliveryTypeOK
<1>13. ASSUME NEW h \in Handlers, Process(h) PROVE Hands'
  <2>1. /\ pc[h] # "idle" /\ body' = body /\ UNCHANGED transportVars
        /\ \A k \in Handlers \ {h} : pc'[k] = pc[k]
    BY <1>13, StepKeepsBody DEF Process, DeliveryTypeOK
  <2> QED
    BY <1>0, <1>1, <1>2, <2>1 DEF HeldOnce, Waiting, transportVars, DeliveryTypeOK
<1>14. CASE Requeue
  BY <1>14 DEF Requeue, HeldOnce, Waiting
<1>15. CASE UNCHANGED deliveryVars
  BY <1>3, <1>15 DEF deliveryVars, transportVars
<1> QED
  BY <1>4, <1>5, <1>6, <1>8, <1>9, <1>10, <1>11, <1>12, <1>13, <1>14, <1>15
  DEF DeliveryNext, ChannelLost, Crash

(* TraceInv is inductive. *)
LEMMA TraceStep ==
  ASSUME DeliveryTypeOK, TraceInv, [DeliveryNext]_deliveryVars
  PROVE  TraceInv'
<1>1. ContentInv'
  BY StepsDriveProcessor, ContentStep DEF DeliveryTypeOK, TraceInv
<1>2. ASSUME NEW c \in Copies, place'[c] = "acked"
      PROVE  (Known(content[c]) \/ Superseded(c))'
  <2>1. place[c] # "unused"
    BY <1>2, AckJustified
  <2>2. content'[c] = content[c] /\ content[c] \in Contents
    BY <2>1, CopiesOnlyGrow DEF CopiesGrow, DeliveryTypeOK
  <2>3. Known(content[c]) \/ Superseded(c)
    BY <1>2, AckJustified DEF TraceInv, AckedLeavesTrace
  <2>4. CASE Known(content[c])
    <3>1. \A b \in Contents : Known(b) => b # Malformed /\ payloadHash'[b.id] = b.hash
      BY StepsDriveProcessor, KnownStays DEF DeliveryTypeOK, TraceInv, Known
    <3> QED
      BY <2>2, <2>4, <3>1 DEF Known
  <2>5. CASE Superseded(c)
    BY <2>1, <2>5, CopiesOnlyGrow, SupersededStays
  <2> QED
    BY <2>3, <2>4, <2>5
<1> QED
  BY <1>1, <1>2, HandsStep DEF TraceInv, AckedLeavesTrace, HeldOnce, Waiting

(* In every reachable state a delivery is in the hands of one handler, which
   works on its content and waits only for what the broker has accepted. *)
THEOREM TraceInvariant == DeliverySpec => []TraceInv
<1>1. DeliveryInit => TraceInv
  <2>1. Init => ContentInv
    BY DEF Init, ContentInv, OneContentPerEvent, Working
  <2> QED
    BY <2>1 DEF DeliveryInit, TraceInv, AckedLeavesTrace
<1> QED
  BY <1>1, TraceStep, DeliveryTypeCorrect, PTL DEF DeliverySpec

(* No delivery disappears without a trace: whatever fails, crashes or is lost,
   the content of an acknowledged message has been claimed in
   processed_events, or published again, or dead-lettered. *)
THEOREM AcknowledgedLeavesTrace == DeliverySpec => []AckedLeavesTrace
<1>1. TraceInv => AckedLeavesTrace
  BY DEF TraceInv
<1> QED
  BY <1>1, TraceInvariant, PTL

-----------------------------------------------------------------------------
(* A copy that will make its content be worked on: a dead letter, or a queued
   copy whose holder, if there is one, has neither got an answer that lets it
   acknowledge nor published its replacement. *)
Promising(d) ==
  \/ place[d] = "dead"
  \/ /\ Queued(d)
     /\ \A h \in Handlers : holds[h] = d =>
          h \notin confirming /\ pc[h] \notin {"COMPLETED", "DUPLICATE"}

Pending(b) == \E d \in Copies : content[d] = b /\ Promising(d)

(* What keeps AckedIsNotForgotten: whoever lets a delivery go leaves its
   content claimed or pending, a failed event is pending, and every busy
   handler has a delivery. *)
OwedInv ==
  /\ \A c \in Copies : place[c] = "acked" \/ (\E h \in confirming : holds[h] = c) =>
       Known(content[c]) \/ Pending(content[c])
  /\ \A e \in EventIds : status[e] = "FAILED" => Pending([id |-> e, hash |-> payloadHash[e]])
  /\ \A h \in Handlers : pc[h] # "idle" => holds[h] # NoCopy

(* A handler is told COMPLETED or DUPLICATE only for content that has been
   claimed and has not failed. *)
LEMMA StepAnswers ==
  ASSUME TypeOK, ContentInv, NEW h \in Handlers, Step(h),
         pc'[h] \in {"COMPLETED", "DUPLICATE"}
  PROVE  payloadHash'[Id(h)] = body[h].hash /\ status'[Id(h)] # "FAILED"
<1> USE DEF TypeOK, ContentInv, OneContentPerEvent, Working, Claiming
<1>1. Id(h) \in EventIds
  BY StepFrame
<1>2. CASE Create(h)
  BY <1>1, <1>2 DEF Create, Insert, Unapplied, Goto
<1>3. CASE Find(h)
  BY <1>1, <1>3 DEF Find, Unapplied, Goto
<1>4. CASE Reclaim(h)
  BY <1>1, <1>4 DEF Reclaim, Write, SetStatus, Unapplied, Goto
<1>5. CASE Notify(h)
  BY <1>1, <1>5 DEF Notify
<1>6. CASE AgentAnswers(h)
  BY <1>1, <1>6 DEF AgentAnswers, Unapplied, Goto
<1>7. CASE Complete(h)
  BY <1>1, <1>7 DEF Complete, Write, SetStatus, Unapplied, Goto
<1>8. CASE Fail(h) \/ Abort(h)
  BY <1>1, <1>8 DEF Fail, Abort, Write, SetStatus, Unapplied, Goto
<1> QED
  BY <1>2, <1>3, <1>4, <1>5, <1>6, <1>7, <1>8 DEF Step

(* A row becomes FAILED only by the working handler of its event. *)
LEMMA StepFails ==
  ASSUME TypeOK, NEW h \in Handlers, Step(h), NEW e \in EventIds,
         status[e] # "FAILED", status'[e] = "FAILED"
  PROVE  e = Id(h) /\ pc[h] \in Working /\ pc'[h] \notin {"COMPLETED", "DUPLICATE"}
         /\ payloadHash'[e] = payloadHash[e]
<1> USE DEF TypeOK, Working
<1>1. e = Id(h)
  BY StepFrame
<1>2. ~Create(h) /\ ~Find(h) /\ ~Reclaim(h) /\ ~Notify(h) /\ ~AgentAnswers(h) /\ ~Complete(h)
  BY <1>1 DEF Create, Insert, Find, Reclaim, Notify, AgentAnswers, Complete, Write, SetStatus,
              Unapplied, Goto
<1>3. CASE Fail(h) \/ Abort(h)
  BY <1>1, <1>3 DEF Fail, Abort, Write, SetStatus, Unapplied, Goto
<1> QED
  BY <1>1, <1>2, <1>3 DEF Step

(* A new copy of the broker's is pending. *)
LEMMA NewCopyPending ==
  ASSUME DeliveryTypeOK, TraceInv, NEW d \in Copies, NEW where \in {"ready", "dead"},
         NEW what, NEW header, Enqueue(d, where, what, header), holds' = holds
  PROVE  Pending(what)'
<1>1. content'[d] = what /\ place'[d] = where
  BY DEF Enqueue, DeliveryTypeOK
<1>2. \A h \in Handlers : holds'[h] # d
  <2>1. place[d] = "unused" /\ d # NoCopy
    BY DeliveryAssumption DEF Enqueue
  <2> QED
    BY <2>1 DEF TraceInv
<1> QED
  BY <1>1, <1>2 DEF Pending, Promising, Queued

(* A pending content stays pending until somebody is told it was claimed. *)
LEMMA PendingStays ==
  ASSUME DeliveryTypeOK, TraceInv, [DeliveryNext]_deliveryVars,
         ~DirectTriggers, NEW b \in Contents, Pending(b)
  PROVE  Pending(b)' \/ (Known(b)' /\ status'[b.id] # "FAILED")
<1> DEFINE Done == Pending(b)' \/ (Known(b)' /\ status'[b.id] # "FAILED")
           Loose(d) == \A k \in Handlers : holds[k] = d =>
                         k \notin confirming /\ pc[k] \notin {"COMPLETED", "DUPLICATE"}
<1>1. PICK d \in Copies : content[d] = b /\ Promising(d)
  BY DEF Pending
<1>2. place[d] # "unused" /\ content'[d] = b
  BY <1>1, CopiesOnlyGrow DEF Promising, Queued, CopiesGrow
<1>3. CASE place[d] = "dead"
  BY <1>2, <1>3, CopiesOnlyGrow DEF CopiesGrow, Pending, Promising
<1>4. CASE Queued(d) /\ Loose(d)
  <2>1. ASSUME Queued(d)', Loose(d)' PROVE Pending(b)'
    BY <1>2, <2>1 DEF Pending, Promising
  <2>2. ASSUME UNCHANGED <<pc, holds, confirming>>, place'[d] = place[d] PROVE Pending(b)'
    BY <1>4, <2>1, <2>2 DEF Queued
  <2>3. ASSUME NEW c \in Copies, NEW where, NEW what, NEW header, Enqueue(c, where, what, header)
        PROVE  place'[d] = place[d]
    BY <1>2, <2>3 DEF Enqueue, DeliveryTypeOK
  <2>4. ASSUME NEW c \in Originals, NEW what \in Contents, NEW header \in Headers,
               Publish(c, what, header)
        PROVE  Pending(b)'
    BY <2>2, <2>3, <2>4, DeliveryAssumption DEF Publish, vars
  <2>5. CASE StartConsumer
    BY <2>2, <2>5 DEF StartConsumer, vars, queueVars
  <2>6. ASSUME NEW h \in Handlers, NEW c \in Copies, Deliver(h, c) PROVE Pending(b)'
    <3>1. /\ \A k \in Handlers \ {h} : pc'[k] = pc[k] /\ holds'[k] = holds[k]
          /\ holds'[h] = c /\ confirming' = confirming
          /\ h \notin confirming /\ pc'[h] \notin {"COMPLETED", "DUPLICATE"}
          /\ \A x \in Copies \ {c} : place'[x] = place[x]
          /\ place'[c] = "unacked"
      BY <2>6, DeliveryAssumption
      DEF Deliver, Free, Start, vars, DeliveryTypeOK, TypeOK, TraceInv
    <3> QED
      BY <1>4, <2>1, <3>1 DEF Queued
  <2>7. ASSUME NEW h \in Handlers, Process(h) PROVE Done
    <3>1. UNCHANGED transportVars /\ \A k \in Handlers \ {h} : pc'[k] = pc[k]
      BY <2>7, StepKeepsBody DEF Process, DeliveryTypeOK
    <3>2. CASE holds[h] = d /\ pc'[h] \in {"COMPLETED", "DUPLICATE"}
      <4>1. pc[h] # "idle"
        BY <2>7, StepKeepsBody DEF Process, DeliveryTypeOK
      <4>2. body[h] = b /\ b \in Body
        BY <1>1, <3>2, <4>1, BusyHasBody, DeliveryAssumption DEF TraceInv, DeliveryTypeOK
      <4>3. payloadHash'[b.id] = b.hash /\ status'[b.id] # "FAILED"
        BY <2>7, <3>2, <4>2, StepAnswers DEF Process, DeliveryTypeOK, TraceInv, Id
      <4> QED
        BY <4>2, <4>3, DeliveryAssumption DEF Known
    <3>3. CASE ~(holds[h] = d /\ pc'[h] \in {"COMPLETED", "DUPLICATE"})
      BY <1>4, <2>1, <3>1, <3>3 DEF transportVars, Queued
    <3> QED
      BY <3>2, <3>3
  <2>8. ASSUME NEW h \in Handlers, holds[h] # d,
               \A x \in Copies \ {holds[h]} : place'[x] = place[x],
               \A k \in Handlers \ {h} : pc'[k] = pc[k],
               \A k \in Handlers : holds'[k] \in {holds[k], NoCopy},
               confirming' \subseteq confirming \cup {h}
        PROVE  Pending(b)'
    <3>1. \A k \in Handlers : holds'[k] = d => k # h /\ holds[k] = d
      BY <2>8, DeliveryAssumption
    <3> QED
      BY <1>4, <2>1, <2>8, <3>1 DEF Queued
  <2>9. ASSUME NEW h \in Handlers, NEW where, LetGo(h, where)
        PROVE  /\ \A x \in Copies \ {holds[h]} : place'[x] = place[x]
               /\ \A k \in Handlers : holds'[k] \in {holds[k], NoCopy}
               /\ holds'[h] = NoCopy
               /\ \A k \in Handlers \ {h} : holds'[k] = holds[k]
               /\ confirming' = confirming \ {h}
               /\ holds[h] \in Copies => place'[holds[h]] = where
    BY <2>9 DEF LetGo, DeliveryTypeOK
  <2>10. ASSUME NEW h \in Handlers, Acknowledge(h) PROVE Pending(b)'
    <3>1. holds[h] # d
      BY <1>4, <2>10 DEF Acknowledge
    <3>2. LetGo(h, "acked") /\ \A k \in Handlers \ {h} : pc'[k] = pc[k]
      BY <2>10, FinishIdles DEF Settle, Abandon, Acknowledge, DeliveryTypeOK
    <3> QED
      BY <2>8, <2>9, <3>1, <3>2
  <2>11. ASSUME NEW h \in Handlers, Confirmed(h) \/ ConfirmFails(h) PROVE Pending(b)'
    <3>1. holds[h] # d
      BY <1>4, <2>11 DEF Confirmed, ConfirmFails
    <3>2. PICK where \in {"acked", "unacked"} : LetGo(h, where)
      BY <2>11 DEF Settle, Abandon, Confirmed, ConfirmFails
    <3>3. pc' = pc
      BY <2>11 DEF Confirmed, ConfirmFails, vars
    <3> QED
      BY <2>8, <2>9, <3>1, <3>2, <3>3
  <2>12. ASSUME NEW h \in Handlers, Republish(h) PROVE Pending(b)'
    <3>1. holds[h] \in Copies /\ holds[h] # NoCopy /\ \A k \in Handlers \ {h} : pc'[k] = pc[k]
      BY <2>12, FinishIdles DEF Republish, Threw, DeliveryTypeOK, vars
    <3>2. CASE LetGo(h, "unacked") /\ holds[h] = d
      <4>1. \A k \in Handlers : holds'[k] # d
        BY <2>9, <3>1, <3>2, DeliveryAssumption DEF TraceInv
      <4> QED
        BY <2>1, <2>9, <3>2, <4>1 DEF Queued
    <3>3. CASE LetGo(h, "unacked") /\ holds[h] # d
      BY <2>8, <2>9, <3>1, <3>3
    <3>4. ASSUME NEW x \in Copies, NEW where \in {"ready", "dead"}, NEW header,
                 Enqueue(x, where, content[holds[h]], header),
                 holds' = holds, confirming' = confirming \cup {h}
          PROVE  Pending(b)'
      <4>1. CASE holds[h] = d
        BY <1>1, <3>4, <4>1, NewCopyPending
      <4>2. CASE holds[h] # d
        <5>1. place'[d] = place[d]
          BY <2>3, <3>4
        <5>2. \A k \in Handlers : holds[k] = d => k # h
          BY <4>2
        <5> QED
          BY <1>4, <2>1, <3>1, <3>4, <5>1, <5>2 DEF Queued
      <4> QED
        BY <4>1, <4>2
    <3> QED
      BY <2>12, <3>2, <3>3, <3>4 DEF Settle, Abandon, Republish, Resend
  <2>13. ASSUME NEW h \in Handlers, Return(h) PROVE Pending(b)'
    <3>1. /\ holds[h] # d /\ UNCHANGED transportVars
          /\ \A k \in Handlers \ {h} : pc'[k] = pc[k]
      BY <2>13, FinishIdles, DeliveryAssumption DEF Return, DeliveryTypeOK
    <3> QED
      BY <2>8, <3>1 DEF transportVars
  <2>14. CASE Requeue
    <3>1. place'[d] = "ready" /\ \A k \in Handlers : holds'[k] # d
      BY <1>4, <2>14, DeliveryAssumption DEF Requeue, Queued
    <3> QED
      BY <2>1, <3>1 DEF Queued
  <2>15. CASE UNCHANGED deliveryVars
    BY <2>2, <2>15 DEF deliveryVars, vars, transportVars
  <2> QED
    BY <2>4, <2>5, <2>6, <2>7, <2>10, <2>11, <2>12, <2>13, <2>14, <2>15
    DEF DeliveryNext, Call, ChannelLost, Crash
<1> QED
  BY <1>1, <1>3, <1>4 DEF Promising

(* A record of Body is its identifier and its hash. *)
LEMMA SameBody ==
  ASSUME NEW x \in Body, NEW y \in Body, x.id = y.id, x.hash = y.hash
  PROVE  x = y
  BY DEF Body

(* OwedInv is inductive while the queue is the only trigger and no channel
   closes under a running handler. *)
LEMMA OwedStep ==
  ASSUME DeliveryTypeOK, TraceInv, OwedInv, [DeliveryNext]_deliveryVars,
         ~DirectTriggers, ~ChannelLosses
  PROVE  OwedInv'
<1> DEFINE Owed(c) == place[c] = "acked" \/ (\E h \in confirming : holds[h] = c)
<1>1. ASSUME NEW b \in Contents, Known(b) \/ Pending(b) PROVE Known(b)' \/ Pending(b)'
  BY <1>1, PendingStays, KnownStays, StepsDriveProcessor DEF DeliveryTypeOK, TraceInv
<1>2. ASSUME NEW c \in Copies, place[c] # "unused", Known(content[c]) \/ Pending(content[c])
      PROVE  (Known(content[c]) \/ Pending(content[c]))'
  <2>1. content'[c] = content[c] /\ content[c] \in Contents
    BY <1>2, CopiesOnlyGrow DEF CopiesGrow, DeliveryTypeOK
  <2>2. Known(content[c])' \/ Pending(content[c])'
    BY <1>1, <1>2, <2>1
  <2> QED
    BY <2>1, <2>2 DEF Known, Pending
<1>3. ASSUME NEW c \in Copies, Owed(c)' PROVE (Known(content[c]) \/ Pending(content[c]))'
  <2>1. CASE Owed(c)
    BY <1>2, <2>1 DEF OwedInv, DeliveryTypeOK
  <2>2. ASSUME NEW h \in Handlers, Acknowledge(h), ~Owed(c)
        PROVE  (Known(content[c]) \/ Pending(content[c]))'
    <3>1. c = holds[h]
      BY <1>3, <2>2 DEF Settle, Abandon, Acknowledge, LetGo, DeliveryTypeOK
    <3>2. pc[h] # "idle" /\ body[h] \in Body /\ payloadHash[Id(h)] = body[h].hash
      BY <2>2, BusyHasBody DEF Acknowledge, TraceInv, ContentInv, DeliveryTypeOK
    <3>3. body[h] = content[c] /\ place[c] = "unacked"
      BY <2>2, <3>1, <3>2 DEF Acknowledge, TraceInv
    <3>4. Known(content[c])
      BY <3>2, <3>3, DeliveryAssumption DEF Known, Id
    <3> QED
      BY <1>2, <3>3, <3>4
  <2>3. ASSUME NEW h \in Handlers, Republish(h), ~Owed(c)
        PROVE  (Known(content[c]) \/ Pending(content[c]))'
    <3>0. PICK b : b = content[holds[h]]
      OBVIOUS
    <3>1. holds[h] \in Copies /\ place[holds[h]] = "unacked"
      BY <2>3 DEF Republish, Threw, TraceInv, DeliveryTypeOK
    <3>2. ~LetGo(h, "unacked")
      BY <1>3, <2>3, <3>1 DEF LetGo, DeliveryTypeOK
    <3>3. ASSUME NEW d \in Copies, NEW where \in {"ready", "dead"}, NEW header,
                 Enqueue(d, where, b, header),
                 holds' = holds, confirming' = confirming \cup {h}
          PROVE  (Known(content[c]) \/ Pending(content[c]))'
      <4>1. c = holds[h]
        BY <1>3, <2>3, <3>3 DEF Enqueue, DeliveryTypeOK
      <4>2. content'[c] = b
        BY <3>0, <3>1, <4>1, CopiesOnlyGrow DEF CopiesGrow
      <4>3. Pending(b)'
        BY <3>3, NewCopyPending
      <4> QED
        BY <4>2, <4>3 DEF Pending
    <3> QED
      BY <2>3, <3>0, <3>2, <3>3 DEF Settle, Abandon, Republish, Resend
  <2>4. ASSUME NEW h \in Handlers, Confirmed(h) \/ ConfirmFails(h) PROVE Owed(c)
    <3>1. PICK where \in {"acked", "unacked"} : LetGo(h, where)
      BY <2>4 DEF Settle, Abandon, Confirmed, ConfirmFails
    <3>2. h \in confirming
      BY <2>4 DEF Confirmed, ConfirmFails
    <3> QED
      BY <1>3, <3>1, <3>2 DEF LetGo, DeliveryTypeOK
  <2>5. ASSUME NEW h \in Handlers, NEW x \in Copies, Deliver(h, x) PROVE Owed(c)
    BY <1>3, <2>5 DEF Deliver, Free, DeliveryTypeOK
  <2>6. ASSUME NEW x \in Originals, NEW what \in Contents, NEW header \in Headers,
               Publish(x, what, header)
        PROVE  Owed(c)
    BY <1>3, <2>6, DeliveryAssumption DEF Publish, Enqueue, DeliveryTypeOK
  <2>7. CASE Requeue
    BY <1>3, <2>1, <2>7 DEF Requeue
  <2>8. CASE UNCHANGED <<place, holds, confirming>>
    BY <1>3, <2>1, <2>8
  <2> QED
    BY <2>1, <2>2, <2>3, <2>4, <2>5, <2>6, <2>7, <2>8
    DEF DeliveryNext, StartConsumer, Call, Return, Process, ChannelLost, Crash,
        deliveryVars, transportVars, queueVars
<1>4. \A h \in Handlers : pc'[h] # "idle" => holds'[h] # NoCopy
  <2> USE DEF OwedInv
  <2>1. ASSUME NEW h \in Handlers, NEW c \in Copies, Deliver(h, c)
        PROVE  \A k \in Handlers : pc'[k] # "idle" => holds'[k] # NoCopy
    BY <2>1, DeliveryAssumption DEF Deliver, Free, Start, vars, DeliveryTypeOK, TypeOK
  <2>2. ASSUME NEW h \in Handlers, Acknowledge(h)
        PROVE  \A k \in Handlers : pc'[k] # "idle" => holds'[k] # NoCopy
    BY <2>2, FinishIdles DEF Settle, Abandon, Acknowledge, LetGo, DeliveryTypeOK
  <2>3. ASSUME NEW h \in Handlers, Confirmed(h) \/ ConfirmFails(h)
        PROVE  \A k \in Handlers : pc'[k] # "idle" => holds'[k] # NoCopy
    <3>1. pc[h] = "idle" /\ pc' = pc
      BY <2>3 DEF Confirmed, ConfirmFails, TraceInv, vars
    <3> QED
      BY <2>3, <3>1 DEF Settle, Abandon, Confirmed, ConfirmFails, LetGo, DeliveryTypeOK
  <2>4. ASSUME NEW h \in Handlers, Republish(h)
        PROVE  \A k \in Handlers : pc'[k] # "idle" => holds'[k] # NoCopy
    <3>1. pc'[h] = "idle" /\ \A k \in Handlers \ {h} : pc'[k] = pc[k]
      <4>1. CASE Finish(h)
        BY <4>1, FinishIdles DEF DeliveryTypeOK
      <4>2. CASE content[holds[h]] = Malformed /\ UNCHANGED vars
        BY <2>4, <4>2, BusyHasBody, DeliveryAssumption
        DEF Republish, Threw, TraceInv, DeliveryTypeOK, vars
      <4> QED
        BY <2>4, <4>1, <4>2 DEF Republish, Threw
    <3> QED
      BY <2>4, <3>1 DEF Settle, Abandon, Republish, Resend, LetGo, DeliveryTypeOK
  <2>5. ASSUME NEW h \in Handlers, Process(h)
        PROVE  \A k \in Handlers : pc'[k] # "idle" => holds'[k] # NoCopy
    BY <2>5, StepKeepsBody DEF Process, transportVars, DeliveryTypeOK
  <2>6. ASSUME NEW h \in Handlers, Return(h)
        PROVE  \A k \in Handlers : pc'[k] # "idle" => holds'[k] # NoCopy
    BY <2>6, FinishIdles DEF Return, transportVars, DeliveryTypeOK
  <2>7. CASE Crash
    BY <2>7 DEF Crash, Die
  <2>8. CASE UNCHANGED <<pc, holds>>
    BY <2>8
  <2> QED
    BY <2>1, <2>2, <2>3, <2>4, <2>5, <2>6, <2>7, <2>8
    DEF DeliveryNext, Publish, StartConsumer, Call, ChannelLost,
        deliveryVars, transportVars, vars
<1>5. ASSUME NEW e \in EventIds, status'[e] = "FAILED"
      PROVE  Pending([id |-> e, hash |-> payloadHash[e]])'
  <2>1. CASE status[e] = "FAILED"
    <3>0. PICK b : b = [id |-> e, hash |-> payloadHash[e]]
      OBVIOUS
    <3>1. payloadHash[e] \in Hashes
      BY <2>1 DEF TraceInv, ContentInv, DeliveryTypeOK, TypeOK
    <3>2. b \in Body /\ b.id = e /\ b.hash = payloadHash[e] /\ b # Malformed
      BY <3>0, <3>1, DeliveryAssumption DEF Body
    <3>3. Known(b) /\ Pending(b)
      BY <2>1, <3>0, <3>2 DEF Known, OwedInv
    <3>4. Known(b)'
      BY <3>2, <3>3, StepsDriveProcessor, KnownStays DEF DeliveryTypeOK, TraceInv, Contents
    <3>5. payloadHash'[e] = payloadHash[e]
      BY <3>2, <3>4 DEF Known
    <3>6. Pending(b)'
      BY <1>5, <3>2, <3>3, PendingStays DEF Contents
    <3> QED
      BY <3>0, <3>5, <3>6 DEF Pending
  <2>2. CASE status[e] # "FAILED"
    <3>1. ASSUME NEW h \in Handlers, Process(h) PROVE Pending([id |-> e, hash |-> payloadHash[e]])'
      <4>1. /\ e = Id(h) /\ pc[h] \in Working /\ pc'[h] \notin {"COMPLETED", "DUPLICATE"}
            /\ payloadHash'[e] = payloadHash[e] /\ UNCHANGED transportVars
        BY <1>5, <2>2, <3>1, StepFails DEF Process, DeliveryTypeOK
      <4>2. pc[h] # "idle" /\ h \notin confirming
        BY <4>1 DEF Working, TraceInv
      <4>3. /\ holds[h] \in Copies /\ place[holds[h]] = "unacked" /\ body[h] = content[holds[h]]
            /\ \A k \in Handlers : holds[k] = holds[h] => k = h
        BY <4>2 DEF OwedInv, TraceInv, DeliveryTypeOK
      <4>4. body[h] = [id |-> e, hash |-> payloadHash'[e]]
        <5>1. body[h] \in Body /\ payloadHash[e] = body[h].hash
          BY <4>1, <4>2, BusyHasBody DEF TraceInv, ContentInv, OneContentPerEvent, DeliveryTypeOK
        <5> QED
          BY <4>1, <5>1 DEF Body, Id
      <4>5. Promising(holds[h])'
        BY <4>1, <4>2, <4>3 DEF Promising, Queued, transportVars
      <4> QED
        BY <4>1, <4>3, <4>4, <4>5 DEF Pending, transportVars
    <3>2. ASSUME ~(\E h \in Handlers : Process(h)) PROVE status' = status
      BY <3>2 DEF DeliveryNext, Publish, StartConsumer, Deliver, Start, Call, Acknowledge, Finish,
              Republish, Threw, Confirmed, ConfirmFails, Return, ChannelLost, Crash, Die,
              deliveryVars, vars
    <3> QED
      BY <1>5, <2>2, <3>1, <3>2
  <2> QED
    BY <2>1, <2>2
<1> QED
  BY <1>3, <1>4, <1>5 DEF OwedInv

(* While the queue is the only trigger and handlers end with their channel, no
   acknowledged event is forgotten, even if the database applies writes whose
   caller sees an error: it is completed, still queued, dead-lettered, or
   stranded by a handler that vanished. *)
THEOREM AcknowledgedIsNotForgotten ==
  ASSUME ~DirectTriggers, ~ChannelLosses
  PROVE  DeliverySpec => []AckedIsNotForgotten
<1>1. DeliveryInit => OwedInv
  BY DEF DeliveryInit, Init, OwedInv
<1>2. DeliveryTypeOK /\ TraceInv /\ OwedInv /\ [DeliveryNext]_deliveryVars => OwedInv'
  BY OwedStep
<1>3. DeliveryTypeOK /\ TraceInv /\ OwedInv => AckedIsNotForgotten
  <2> SUFFICES ASSUME DeliveryTypeOK, TraceInv, OwedInv, NEW c \in Copies, place[c] = "acked",
                      ~\E d \in SameContent(c) : Queued(d) \/ place[d] = "dead"
               PROVE  /\ Known(content[c])
                      /\ status[content[c].id] = "COMPLETED" \/ Stranded(content[c].id)
    BY DEF AckedIsNotForgotten
  <2> DEFINE b == content[c]
             e == b.id
  <2>1. ~Pending(b)
    BY DEF Pending, Promising, SameContent
  <2>2. Known(b)
    BY <2>1 DEF OwedInv
  <2>3. b \in Body /\ e \in EventIds /\ payloadHash[e] = b.hash /\ b.hash \in Hashes
    BY <2>2 DEF Known, DeliveryTypeOK, Contents, Body
  <2>4. status[e] # "ABSENT"
    BY <2>3, ProcessedEventsAssumption DEF TraceInv, ContentInv
  <2>5. status[e] # "FAILED"
    <3>1. b = [id |-> e, hash |-> payloadHash[e]]
      BY <2>3 DEF Body
    <3> QED
      BY <2>1, <2>3, <3>1 DEF OwedInv
  <2>6. ASSUME NEW h \in HoldersOf(e) PROVE FALSE
    <3>1. h \in Handlers /\ pc[h] \in Working /\ Id(h) = e
      BY DEF HoldersOf
    <3>2. pc[h] # "idle" /\ body[h] \in Body /\ payloadHash[e] = body[h].hash
      BY <3>1, BusyHasBody DEF Working, TraceInv, ContentInv, OneContentPerEvent, DeliveryTypeOK
    <3>3. body[h] = b
      BY <2>3, <3>1, <3>2, SameBody DEF Id
    <3>4. holds[h] \in Copies /\ place[holds[h]] = "unacked" /\ content[holds[h]] = b
      BY <3>1, <3>2, <3>3 DEF OwedInv, TraceInv, DeliveryTypeOK
    <3> QED
      BY <3>4 DEF SameContent, Queued
  <2> QED
    BY <2>2, <2>3, <2>4, <2>5, <2>6 DEF Stranded, DeliveryTypeOK, TypeOK, Statuses
<1> QED
  BY <1>1, <1>2, <1>3, TraceInvariant, DeliveryTypeCorrect, PTL DEF DeliverySpec

-----------------------------------------------------------------------------
(* What has been abandoned stays unacknowledged, and nobody holds it. *)
Away == \A c \in abandoned : place[c] = "unacked" /\ \A h \in Handlers : holds[h] # c

(* Away is inductive. *)
LEMMA AwayStep ==
  ASSUME DeliveryTypeOK, TraceInv, Away, [DeliveryNext]_deliveryVars
  PROVE  Away'
<1> USE DEF Away
<1>1. ASSUME UNCHANGED <<place, holds, abandoned>> PROVE Away'
  BY <1>1
<1>2. ASSUME NEW c \in Copies, NEW where, NEW what, NEW header, Enqueue(c, where, what, header),
             UNCHANGED <<holds, abandoned>>
      PROVE  Away'
  BY <1>2 DEF Enqueue, DeliveryTypeOK
<1>3. ASSUME NEW c \in Originals, NEW what \in Contents, NEW header \in Headers,
             Publish(c, what, header)
      PROVE  Away'
  BY <1>2, <1>3, DeliveryAssumption DEF Publish
<1>4. ASSUME NEW h \in Handlers, NEW c \in Copies, Deliver(h, c) PROVE Away'
  BY <1>4 DEF Deliver, DeliveryTypeOK
<1>5. ASSUME NEW h \in Handlers, holds[h] # NoCopy, Settle(h, "acked") PROVE Away'
  BY <1>5, DeliveryAssumption DEF Settle, LetGo, DeliveryTypeOK
<1>6. ASSUME NEW h \in Handlers, holds[h] # NoCopy, Abandon(h) PROVE Away'
  BY <1>6, DeliveryAssumption DEF Abandon, LetGo, TraceInv, DeliveryTypeOK
<1>7. ASSUME NEW h \in Handlers, Republish(h) PROVE Away'
  <2>1. holds[h] # NoCopy
    BY <1>7 DEF Republish, Threw
  <2>2. CASE Abandon(h)
    BY <1>6, <2>1, <2>2
  <2>3. CASE ~Abandon(h)
    <3>1. Resend(h, deliveryAttempt(holds[h]) + 1)
      BY <1>7, <2>3 DEF Republish
    <3> QED
      BY <1>2, <3>1 DEF Resend
  <2> QED
    BY <2>2, <2>3
<1>8. ASSUME NEW h \in Handlers, Acknowledge(h) \/ Confirmed(h) \/ ConfirmFails(h)
      PROVE  Away'
  BY <1>5, <1>6, <1>8 DEF Acknowledge, Confirmed, ConfirmFails, TraceInv, DeliveryTypeOK
<1>9. CASE Requeue
  BY <1>9 DEF Requeue
<1> QED
  BY <1>1, <1>3, <1>4, <1>7, <1>8, <1>9
  DEF DeliveryNext, StartConsumer, Call, Return, Process, ChannelLost, Crash,
      deliveryVars, transportVars, queueVars

(* Away holds from the start. *)
LEMMA AwayInvariant == DeliverySpec => []Away
<1>1. DeliveryInit => Away
  BY DEF DeliveryInit, Away
<1>2. DeliveryTypeOK /\ TraceInv /\ Away /\ [DeliveryNext]_deliveryVars => Away'
  BY AwayStep
<1> QED
  BY <1>1, <1>2, TraceInvariant, DeliveryTypeCorrect, PTL DEF DeliverySpec

-----------------------------------------------------------------------------
(* The copies of a content whose delivery is still to come or under way, or
   that are dead-lettered, and those its producers published. *)
Alive(b) == {d \in Copies : /\ content[d] = b
                            /\ \/ place[d] = "dead"
                               \/ /\ Queued(d) /\ d \notin abandoned
                                  /\ \A h \in confirming : holds[h] # d}
Given(b) == {d \in Originals : content[d] = b}

Balanced == \A b \in Contents : Cardinality(Alive(b)) <= Cardinality(Given(b))

(* A part of a finite set has at most its cardinality. *)
LEMMA Part ==
  ASSUME NEW S, IsFiniteSet(S), NEW T, T \subseteq S
  PROVE  Cardinality(T) \in Nat /\ Cardinality(S) \in Nat /\ Cardinality(T) <= Cardinality(S)
<1>1. IsFiniteSet(T) /\ Cardinality(T) <= Cardinality(S)
  <2>1. T \in SUBSET S
    OBVIOUS
  <2> QED
    BY <2>1, FS_Subset
<1>2. Cardinality(T) \in Nat /\ Cardinality(S) \in Nat
  BY <1>1, FS_CardinalityType
<1> QED
  BY <1>1, <1>2

(* Exchanging an element keeps a set within a bound, adding one raises it. *)
LEMMA Exchange ==
  ASSUME NEW A, NEW G, NEW B, NEW x, NEW y, IsFiniteSet(A), IsFiniteSet(G),
         Cardinality(A) <= Cardinality(G)
  PROVE  /\ B \subseteq A => Cardinality(B) <= Cardinality(G)
         /\ x \in A /\ B \subseteq (A \ {x}) \cup {y} => Cardinality(B) <= Cardinality(G)
         /\ y \notin G /\ B \subseteq A \cup {y} => Cardinality(B) <= Cardinality(G \cup {y})
<1>0. Cardinality(A) \in Nat /\ Cardinality(G) \in Nat
  BY FS_CardinalityType
<1>1. ASSUME B \subseteq A PROVE Cardinality(B) <= Cardinality(G)
  <2>1. Cardinality(B) <= Cardinality(A) /\ Cardinality(B) \in Nat
    BY <1>1, Part
  <2> QED
    BY <1>0, <2>1
<1>2. ASSUME x \in A, B \subseteq (A \ {x}) \cup {y} PROVE Cardinality(B) <= Cardinality(G)
  <2>1. PICK R : R = A \ {x}
    OBVIOUS
  <2>2. IsFiniteSet(R) /\ Cardinality(R) = Cardinality(A) - 1
    BY <1>2, <2>1, FS_RemoveElement
  <2>3. PICK E : E = R \cup {y}
    OBVIOUS
  <2>4. IsFiniteSet(E) /\ (Cardinality(E) = Cardinality(R) \/ Cardinality(E) = Cardinality(R) + 1)
    BY <2>2, <2>3, FS_AddElement
  <2>5. Cardinality(B) <= Cardinality(E) /\ Cardinality(B) \in Nat /\ Cardinality(E) \in Nat
    BY <1>2, <2>1, <2>3, <2>4, Part
  <2> QED
    BY <1>0, <2>2, <2>4, <2>5
<1>3. ASSUME y \notin G, B \subseteq A \cup {y} PROVE Cardinality(B) <= Cardinality(G \cup {y})
  <2>1. Cardinality(G \cup {y}) = Cardinality(G) + 1
    BY <1>3, FS_AddElement
  <2>2. PICK E : E = A \cup {y}
    OBVIOUS
  <2>3. IsFiniteSet(E) /\ (Cardinality(E) = Cardinality(A) \/ Cardinality(E) = Cardinality(A) + 1)
    BY <2>2, FS_AddElement
  <2>4. Cardinality(B) <= Cardinality(E) /\ Cardinality(B) \in Nat /\ Cardinality(E) \in Nat
    BY <1>3, <2>2, <2>3, Part
  <2> QED
    BY <1>0, <2>1, <2>3, <2>4
<1> QED
  BY <1>1, <1>2, <1>3

(* Balanced is inductive unless a channel closes or the process dies: a retry
   takes the place of the copy it was made from, and an abandoned copy that of
   a retry, or of nothing. *)
LEMMA BalancedStep ==
  ASSUME IsFiniteSet(Copies), ~ChannelLosses, ~Crashes,
         DeliveryTypeOK, TraceInv, Away, Balanced, [DeliveryNext]_deliveryVars
  PROVE  Balanced'
<1> SUFFICES ASSUME NEW b \in Contents
             PROVE  Cardinality(Alive(b))' <= Cardinality(Given(b))'
  BY DEF Balanced
<1>1. IsFiniteSet(Alive(b)) /\ IsFiniteSet(Given(b))
  BY FS_Subset, DeliveryAssumption DEF Alive, Given
<1>2. Cardinality(Alive(b)) <= Cardinality(Given(b))
  BY DEF Balanced
<1>3. b # NoBody
  BY ProcessedEventsAssumption, DeliveryAssumption DEF Contents
<1>4. ASSUME Alive(b)' \subseteq Alive(b), Given(b)' = Given(b)
      PROVE  Cardinality(Alive(b))' <= Cardinality(Given(b))'
  BY <1>1, <1>2, <1>4, Exchange
<1>5. ASSUME UNCHANGED transportVars PROVE Cardinality(Alive(b))' <= Cardinality(Given(b))'
  <2>1. Alive(b)' = Alive(b) /\ Given(b)' = Given(b)
    BY <1>5 DEF transportVars, Alive, Given, Queued
  <2> QED
    BY <1>4, <2>1
<1>6. ASSUME NEW c \in Originals, NEW what \in Contents, NEW header \in Headers,
             Publish(c, what, header)
      PROVE  Cardinality(Alive(b))' <= Cardinality(Given(b))'
  <2>1. /\ content[c] = NoBody /\ content' = [content EXCEPT ![c] = what]
        /\ place' = [place EXCEPT ![c] = "ready"]
        /\ UNCHANGED <<holds, confirming, abandoned>>
        /\ c \in Copies
    BY <1>6, DeliveryAssumption DEF Publish, Enqueue, DeliveryTypeOK
  <2>2. CASE what = b
    <3>1. Alive(b)' \subseteq Alive(b) \cup {c}
      BY <2>1 DEF Alive, Queued, DeliveryTypeOK
    <3>2. Given(b)' = Given(b) \cup {c} /\ c \notin Given(b)
      BY <1>3, <2>1, <2>2, DeliveryAssumption DEF Given, DeliveryTypeOK
    <3> QED
      BY <1>1, <1>2, <3>1, <3>2, Exchange
  <2>3. CASE what # b
    <3>1. Alive(b)' \subseteq Alive(b)
      BY <2>1, <2>3 DEF Alive, Queued, DeliveryTypeOK
    <3>2. Given(b)' = Given(b)
      BY <1>3, <2>1, <2>3, DeliveryAssumption DEF Given, DeliveryTypeOK
    <3> QED
      BY <1>4, <3>1, <3>2
  <2> QED
    BY <2>2, <2>3
<1>7. CASE StartConsumer
  <2>1. Alive(b)' = Alive(b) /\ Given(b)' = Given(b)
    BY <1>7 DEF StartConsumer, queueVars, Alive, Given, Queued
  <2> QED
    BY <1>4, <2>1
<1>8. ASSUME NEW h \in Handlers, NEW c \in Copies, Deliver(h, c)
      PROVE  Cardinality(Alive(b))' <= Cardinality(Given(b))'
  <2>1. /\ place[c] = "ready" /\ place' = [place EXCEPT ![c] = "unacked"]
        /\ content' = content /\ UNCHANGED <<confirming, abandoned>>
        /\ holds[h] = NoCopy /\ holds' = [holds EXCEPT ![h] = c]
        /\ h \notin confirming
    BY <1>8 DEF Deliver, Free, TraceInv
  <2>2. Given(b)' = Given(b)
    BY <2>1 DEF Given
  <2>3. \A k \in confirming : holds[k] # c /\ holds'[k] = holds[k]
    BY <2>1 DEF TraceInv, DeliveryTypeOK
  <2>4. Alive(b)' \subseteq Alive(b)
    BY <2>1, <2>3 DEF Alive, Queued, DeliveryTypeOK
  <2> QED
    BY <1>4, <2>2, <2>4
<1>9. ASSUME NEW h \in Handlers, holds[h] # NoCopy,
             Settle(h, "acked") \/ Abandon(h)
      PROVE  Cardinality(Alive(b))' <= Cardinality(Given(b))'
  <2>1. /\ holds[h] \in Copies /\ content' = content /\ confirming' = confirming \ {h}
        /\ \/ place' = [place EXCEPT ![holds[h]] = "acked"] /\ abandoned' = abandoned
           \/ /\ place' = [place EXCEPT ![holds[h]] = "unacked"]
              /\ abandoned' = abandoned \cup {holds[h]}
        /\ \A k \in Handlers \ {h} : holds'[k] = holds[k]
        /\ place[holds[h]] = "unacked"
    BY <1>9 DEF Settle, Abandon, LetGo, DeliveryTypeOK, TraceInv
  <2>2. Given(b)' = Given(b)
    BY <2>1 DEF Given
  <2>3. Alive(b)' \subseteq Alive(b)
    BY <2>1 DEF Alive, Queued, DeliveryTypeOK
  <2> QED
    BY <1>4, <2>2, <2>3
<1>10. ASSUME NEW h \in Handlers, Republish(h), ~Abandon(h)
       PROVE  Cardinality(Alive(b))' <= Cardinality(Given(b))'
  <2> DEFINE c == holds[h]
  <2>1. /\ c \in Copies /\ place[c] = "unacked" /\ h \notin confirming
        /\ \A k \in Handlers : holds[k] = c => k = h
    BY <1>10 DEF Republish, Threw, TraceInv, DeliveryTypeOK
  <2>2. PICK d \in Copies \ Originals, where \in {"ready", "dead"}, header \in Int :
          Enqueue(d, where, content[c], header)
    <3>1. deliveryAttempt(c) \in Int /\ deliveryAttempt(c) + 1 \in Int
      BY <2>1 DEF deliveryAttempt, DeliveryTypeOK
    <3>2. Resend(h, deliveryAttempt(c) + 1)
      BY <1>10 DEF Republish
    <3>3. CASE deliveryAttempt(c) < MaxAttempts
      BY <3>1, <3>2, <3>3 DEF Resend
    <3>4. CASE ~(deliveryAttempt(c) < MaxAttempts)
      BY <3>1, <3>2, <3>4 DEF Resend
    <3> QED
      BY <3>3, <3>4
  <2>3. /\ place[d] = "unused" /\ place' = [place EXCEPT ![d] = where]
        /\ content[d] = NoBody /\ content' = [content EXCEPT ![d] = content[c]]
        /\ UNCHANGED <<holds, abandoned>> /\ confirming' = confirming \cup {h} /\ c # d
    BY <1>10, <2>1, <2>2 DEF Republish, Resend, Enqueue, DeliveryTypeOK
  <2>4. Given(b)' = Given(b)
    BY <2>2, <2>3 DEF Given, DeliveryTypeOK
  <2>5. CASE content[c] = b
    <3>1. c \in Alive(b)
      <4>1. c \notin abandoned
        BY <1>10 DEF Away
      <4>2. \A k \in confirming : holds[k] # c
        BY <1>10, <2>1 DEF DeliveryTypeOK
      <4> QED
        BY <2>1, <2>5, <4>1, <4>2 DEF Alive, Queued
    <3>2. c \notin Alive(b)'
      BY <2>1, <2>3 DEF Alive, DeliveryTypeOK
    <3>3. Alive(b)' \subseteq Alive(b) \cup {d}
      BY <2>3 DEF Alive, Queued, DeliveryTypeOK
    <3>4. Alive(b)' \subseteq (Alive(b) \ {c}) \cup {d}
      BY <3>2, <3>3
    <3> HIDE DEF c
    <3> QED
      BY <1>1, <1>2, <2>4, <3>1, <3>4, Exchange
  <2>6. CASE content[c] # b
    <3>1. Alive(b)' \subseteq Alive(b)
      BY <2>3, <2>6 DEF Alive, Queued, DeliveryTypeOK
    <3> QED
      BY <1>4, <2>4, <3>1
  <2> QED
    BY <2>5, <2>6
<1>11. ASSUME NEW h \in Handlers,
              \/ Acknowledge(h) \/ Confirmed(h) \/ ConfirmFails(h)
              \/ Republish(h) /\ Abandon(h)
       PROVE  Cardinality(Alive(b))' <= Cardinality(Given(b))'
  BY <1>9, <1>11 DEF Acknowledge, Confirmed, ConfirmFails, Republish, Threw, DeliveryTypeOK
<1> QED
  BY <1>5, <1>6, <1>7, <1>8, <1>10, <1>11
  DEF DeliveryNext, Call, Process, Return, ChannelLost, Crash, deliveryVars

(* Unless a channel closes or the process dies, retrying multiplies nothing,
   whatever publications the broker refuses or leaves unconfirmed: of every
   content no more copies are queued, in work or dead-lettered than producers
   published. *)
THEOREM NothingMultiplies ==
  ASSUME IsFiniteSet(Copies), ~ChannelLosses, ~Crashes
  PROVE  DeliverySpec => []RetriesDoNotMultiply
<1>1. DeliveryInit => Balanced
  <2> SUFFICES ASSUME DeliveryInit, NEW b \in Contents
               PROVE  Cardinality(Alive(b)) <= Cardinality(Given(b))
    BY DEF Balanced
  <2>1. b # NoBody
    BY ProcessedEventsAssumption, DeliveryAssumption DEF Contents
  <2>2. Alive(b) = {} /\ Given(b) = {}
    BY <2>1, DeliveryAssumption DEF DeliveryInit, Alive, Given
  <2> QED
    BY <2>2, FS_EmptySet
<1>2. DeliveryTypeOK /\ TraceInv /\ Away /\ Balanced /\ [DeliveryNext]_deliveryVars => Balanced'
  BY BalancedStep
<1>3. DeliveryTypeOK /\ Balanced => RetriesDoNotMultiply
  <2> SUFFICES ASSUME DeliveryTypeOK, Balanced, NEW c \in Copies, content[c] # NoBody
               PROVE  Cardinality({d \in SameContent(c) :
                                     \/ place[d] = "dead"
                                     \/ /\ Queued(d) /\ d \notin abandoned
                                        /\ \A h \in confirming : holds[h] # d})
                        <= Cardinality(SameContent(c) \cap Originals)
    BY DEF RetriesDoNotMultiply
  <2>1. content[c] \in Contents
    BY DEF DeliveryTypeOK
  <2>2. {d \in SameContent(c) : \/ place[d] = "dead"
                                \/ /\ Queued(d) /\ d \notin abandoned
                                   /\ \A h \in confirming : holds[h] # d}
          = Alive(content[c])
    BY DEF SameContent, Alive
  <2>3. SameContent(c) \cap Originals = Given(content[c])
    BY DeliveryAssumption DEF SameContent, Given
  <2> QED
    BY <2>1, <2>2, <2>3 DEF Balanced
<1> QED
  BY <1>1, <1>2, <1>3, AwayInvariant, TraceInvariant, DeliveryTypeCorrect, PTL DEF DeliverySpec

-----------------------------------------------------------------------------
(* What has been, and may still be, published again: a pair <<d, 0>> for the
   retry or dead letter d, and <<d, i>> for each attempt i that is left to a
   copy which waits for delivery or is in the hands of a handler that has not
   published it again. *)
Attemptable(d) ==
  \/ place[d] = "ready"
  \/ \E h \in Handlers \ confirming : holds[h] = d
Left(d) == {i \in 1 .. MaxAttempts : i >= deliveryAttempt(d) \/ i = MaxAttempts}
Resent == {d \in Copies \ Originals : place[d] # "unused"}
Published == {c \in Originals : place[c] # "unused"}
Budget ==
  {w \in Copies \X (0 .. MaxAttempts) :
     IF w[2] = 0 THEN w[1] \in Resent ELSE Attemptable(w[1]) /\ w[2] \in Left(w[1])}

Bounded == Cardinality(Budget) <= MaxAttempts * Cardinality(Published)

(* The image of a finite set is at most as large. *)
LEMMA Mapped ==
  ASSUME NEW S, IsFiniteSet(S), NEW f, NEW T, T \subseteq {f[x] : x \in S}
  PROVE  Cardinality(T) <= Cardinality(S)
<1> DEFINE g == [x \in S |-> f[x]]
           I == {f[x] : x \in S}
<1>1. g \in Surjection(S, I)
  BY DEF Surjection
<1>2. IsFiniteSet(I) /\ Cardinality(I) <= Cardinality(S)
  <2> HIDE DEF g, I
  <2> QED
    BY <1>1, FS_Surjection
<1>3. Cardinality(T) <= Cardinality(I) /\ Cardinality(T) \in Nat /\ Cardinality(I) \in Nat
  <2> HIDE DEF I
  <2>1. T \subseteq I
    BY DEF I
  <2> QED
    BY <1>2, <2>1, Part
<1>4. Cardinality(S) \in Nat
  BY FS_CardinalityType
<1> QED
  BY <1>2, <1>3, <1>4

(* Bounded is inductive while no channel closes and no process dies: whoever
   publishes a copy again uses up one of the attempts that were left to it. *)
LEMMA BoundedStep ==
  ASSUME IsFiniteSet(Copies), ~ChannelLosses, ~Crashes,
         DeliveryTypeOK, TraceInv, Bounded, [DeliveryNext]_deliveryVars
  PROVE  Bounded'
<1>1. /\ IsFiniteSet(Budget) /\ Cardinality(Budget) \in Nat
      /\ IsFiniteSet(Published) /\ Cardinality(Published) \in Nat
      /\ Cardinality(Budget) <= MaxAttempts * Cardinality(Published)
      /\ MaxAttempts \in Nat
  <2>1. IsFiniteSet(0 .. MaxAttempts)
    BY FS_Interval, DeliveryAssumption
  <2>2. IsFiniteSet(Copies \X (0 .. MaxAttempts))
    BY <2>1, FS_Product
  <2>3. IsFiniteSet(Budget)
    BY <2>2, FS_Subset DEF Budget
  <2>4. IsFiniteSet(Published)
    BY FS_Subset, DeliveryAssumption DEF Published
  <2> QED
    BY <2>3, <2>4, FS_CardinalityType, DeliveryAssumption DEF Bounded
<1>2. ASSUME Budget' \subseteq Budget, Published' = Published
      PROVE  Bounded'
  <2>1. Cardinality(Budget') <= Cardinality(Budget) /\ Cardinality(Budget') \in Nat
    BY <1>1, <1>2, Part
  <2> QED
    BY <1>1, <1>2, <2>1 DEF Bounded
<1>3. ASSUME UNCHANGED transportVars PROVE Bounded'
  <2>1. Budget' = Budget /\ Published' = Published
    BY <1>3 DEF transportVars, Budget, Resent, Published, Attemptable, Left, deliveryAttempt
  <2> QED
    BY <1>2, <2>1
<1>4. ASSUME NEW c \in Originals, NEW what \in Contents, NEW header \in Headers,
             Publish(c, what, header)
      PROVE  Bounded'
  <2>1. /\ place[c] = "unused" /\ place' = [place EXCEPT ![c] = "ready"]
        /\ attempt' = [attempt EXCEPT ![c] = header]
        /\ UNCHANGED <<holds, confirming>> /\ c \in Copies
    BY <1>4, DeliveryAssumption DEF Publish, Enqueue
  <2> DEFINE N == {c} \X (1 .. MaxAttempts)
  <2>2. Budget' \subseteq Budget \cup N
    BY <2>1 DEF Budget, Resent, Attemptable, Left, deliveryAttempt, DeliveryTypeOK
  <2>3. IsFiniteSet(N) /\ Cardinality(N) = MaxAttempts
    <3>1. IsFiniteSet(1 .. MaxAttempts) /\ Cardinality(1 .. MaxAttempts) = MaxAttempts
      BY <1>1, FS_Interval, DeliveryAssumption
    <3>2. IsFiniteSet({c}) /\ Cardinality({c}) = 1
      BY FS_Singleton
    <3>3. IsFiniteSet(N) /\ Cardinality(N) = Cardinality({c}) * Cardinality(1 .. MaxAttempts)
      BY <3>1, <3>2, FS_Product
    <3> HIDE DEF N
    <3> QED
      BY <1>1, <3>1, <3>2, <3>3
  <2>4. Cardinality(Budget') <= Cardinality(Budget) + MaxAttempts
    <3> HIDE DEF N
    <3>1. PICK U : U = Budget \cup N
      OBVIOUS
    <3>2. IsFiniteSet(U) /\ Cardinality(U) = Cardinality(Budget) + Cardinality(N) - Cardinality(Budget \cap N)
      BY <1>1, <2>3, <3>1, FS_Union
    <3>3. Cardinality(Budget \cap N) \in Nat
      BY <1>1, FS_Intersection, FS_CardinalityType
    <3>4. Cardinality(Budget') <= Cardinality(U) /\ Cardinality(Budget') \in Nat /\ Cardinality(U) \in Nat
      BY <2>2, <3>1, <3>2, Part
    <3> QED
      BY <1>1, <2>3, <3>2, <3>3, <3>4
  <2>5. Cardinality(Published') = Cardinality(Published) + 1
    <3>1. Published' = Published \cup {c} /\ c \notin Published
      BY <2>1, DeliveryAssumption DEF Published, DeliveryTypeOK
    <3> QED
      BY <1>1, <3>1, FS_AddElement
  <2>6. Cardinality(Budget') \in Nat
    <3>1. IsFiniteSet(Budget \cup N)
      BY <1>1, <2>3, FS_Union
    <3> HIDE DEF N
    <3> QED
      BY <2>2, <3>1, FS_Subset, FS_CardinalityType
  <2>7. MaxAttempts * (Cardinality(Published) + 1) = MaxAttempts * Cardinality(Published) + MaxAttempts
    BY <1>1
  <2> QED
    BY <1>1, <2>4, <2>5, <2>6, <2>7 DEF Bounded
<1>5. CASE StartConsumer
  <2>1. Budget' = Budget /\ Published' = Published
    BY <1>5 DEF StartConsumer, queueVars, Budget, Resent, Published, Attemptable, Left, deliveryAttempt
  <2> QED
    BY <1>2, <2>1
<1>6. ASSUME NEW h \in Handlers, NEW c \in Copies, Deliver(h, c) PROVE Bounded'
  <2>1. /\ place[c] = "ready" /\ place' = [place EXCEPT ![c] = "unacked"]
        /\ attempt' = attempt /\ confirming' = confirming
        /\ holds[h] = NoCopy /\ holds' = [holds EXCEPT ![h] = c]
        /\ h \notin confirming
    BY <1>6 DEF Deliver, Free, TraceInv
  <2>2. \A d \in Copies : Attemptable(d)' => Attemptable(d)
    BY <2>1 DEF Attemptable, DeliveryTypeOK
  <2>3. Budget' \subseteq Budget
    BY <2>1, <2>2 DEF Budget, Resent, Left, deliveryAttempt, DeliveryTypeOK
  <2>4. Published' = Published
    BY <2>1, DeliveryAssumption DEF Published, DeliveryTypeOK
  <2> QED
    BY <1>2, <2>3, <2>4
<1>7. ASSUME NEW h \in Handlers, holds[h] # NoCopy, NEW where \in {"acked", "unacked"},
             LetGo(h, where)
      PROVE  Bounded'
  <2>1. /\ holds[h] \in Copies /\ place[holds[h]] = "unacked"
        /\ place' = [place EXCEPT ![holds[h]] = where]
        /\ attempt' = attempt /\ confirming' = confirming \ {h}
        /\ holds' = [holds EXCEPT ![h] = NoCopy]
    BY <1>7 DEF LetGo, TraceInv, DeliveryTypeOK
  <2>2. \A d \in Copies : Attemptable(d)' => Attemptable(d)
    BY <2>1, DeliveryAssumption DEF Attemptable, DeliveryTypeOK
  <2>3. Budget' \subseteq Budget
    BY <2>1, <2>2 DEF Budget, Resent, Left, deliveryAttempt, DeliveryTypeOK
  <2>4. Published' = Published
    BY <2>1, DeliveryAssumption DEF Published, DeliveryTypeOK
  <2> QED
    BY <1>2, <2>3, <2>4
<1>8. ASSUME NEW h \in Handlers, Threw(h), Resend(h, deliveryAttempt(holds[h]) + 1)
      PROVE  Bounded'
  <2> DEFINE c == holds[h]
             a == IF deliveryAttempt(c) < MaxAttempts THEN deliveryAttempt(c) ELSE MaxAttempts
  <2>1. /\ c \in Copies /\ place[c] = "unacked" /\ h \notin confirming
        /\ \A k \in Handlers : holds[k] = c => k = h
        /\ deliveryAttempt(c) \in Nat \ {0}
    BY <1>8 DEF Threw, TraceInv, DeliveryTypeOK, deliveryAttempt
  <2>2. PICK d \in Copies \ Originals, where \in {"ready", "dead"}, header \in Int :
          /\ Enqueue(d, where, content[c], header)
          /\ where = "ready" => deliveryAttempt(c) < MaxAttempts /\ header = deliveryAttempt(c) + 1
    <3>1. CASE deliveryAttempt(c) < MaxAttempts
      BY <1>8, <2>1, <3>1 DEF Resend
    <3>2. CASE ~(deliveryAttempt(c) < MaxAttempts)
      BY <1>8, <2>1, <3>2 DEF Resend
    <3> QED
      BY <3>1, <3>2
  <2>3. /\ place[d] = "unused" /\ place' = [place EXCEPT ![d] = where]
        /\ attempt' = [attempt EXCEPT ![d] = header]
        /\ holds' = holds /\ confirming' = confirming \cup {h} /\ c # d
    BY <1>8, <2>1, <2>2 DEF Resend, Enqueue
  <2>4. Published' = Published
    BY <2>2, <2>3 DEF Published, DeliveryTypeOK
  <2>5. a \in 1 .. MaxAttempts /\ a \in Left(c) /\ Attemptable(c)
    BY <2>1, DeliveryAssumption DEF Left, Attemptable
  <2>6. \A x \in Copies : x # d => deliveryAttempt(x)' = deliveryAttempt(x)
    BY <2>3 DEF deliveryAttempt, DeliveryTypeOK
  <2>7. \A x \in Copies : x # d /\ Attemptable(x)' => x # c /\ Attemptable(x)
    BY <2>1, <2>3 DEF Attemptable, DeliveryTypeOK
  <2>8. Attemptable(d)' => /\ deliveryAttempt(c) < MaxAttempts
                           /\ deliveryAttempt(d)' = deliveryAttempt(c) + 1
    <3>1. \A k \in Handlers : holds'[k] # d
      BY <2>2, <2>3, DeliveryAssumption DEF TraceInv, DeliveryTypeOK
    <3>2. Attemptable(d)' => where = "ready"
      BY <2>3, <3>1 DEF Attemptable, DeliveryTypeOK
    <3> QED
      BY <2>1, <2>2, <2>3, <3>2 DEF deliveryAttempt, DeliveryTypeOK
  <2> DEFINE f == [w \in Budget |-> IF w[1] = c /\ w[2] >= 1
                                    THEN <<d, IF w[2] > a THEN w[2] ELSE 0>>
                                    ELSE w]
  <2> HIDE DEF c, a
  <2>9. ASSUME NEW w \in Budget' PROVE w \in {f[x] : x \in Budget}
    <3>1. /\ w = <<w[1], w[2]>> /\ w[1] \in Copies /\ w[2] \in 0 .. MaxAttempts
          /\ IF w[2] = 0 THEN w[1] \in Resent' ELSE Attemptable(w[1])' /\ w[2] \in Left(w[1])'
      BY <2>9 DEF Budget
    <3>2. CASE w[1] = d /\ w[2] = 0
      <4>1. <<c, a>> \in Budget
        BY <2>1, <2>5 DEF Budget
      <4>2. f[<<c, a>>] = <<d, 0>>
        BY <2>5, <4>1
      <4> QED
        BY <3>1, <3>2, <4>1, <4>2
    <3>3. CASE w[1] = d /\ w[2] # 0
      <4>1. w[2] > a /\ w[2] \in Left(c)
        BY <2>1, <2>8, <3>1, <3>3, DeliveryAssumption DEF Left, a
      <4>2. <<c, w[2]>> \in Budget
        BY <2>1, <2>5, <3>1, <3>3, <4>1 DEF Budget
      <4>3. f[<<c, w[2]>>] = <<d, w[2]>>
        BY <2>5, <3>1, <3>3, <4>1, <4>2
      <4> QED
        BY <3>1, <3>3, <4>2, <4>3
    <3>4. CASE w[1] # d /\ w[2] = 0
      <4>1. w \in Budget
        BY <2>3, <3>1, <3>4 DEF Budget, Resent, DeliveryTypeOK
      <4>2. f[w] = w
        BY <3>4, <4>1
      <4> QED
        BY <4>1, <4>2
    <3>5. CASE w[1] # d /\ w[2] # 0
      <4>1. w[1] # c /\ Attemptable(w[1])
        BY <2>7, <3>1, <3>5
      <4>2. w[2] \in Left(w[1])
        BY <2>6, <3>1, <3>5 DEF Left
      <4>3. w \in Budget
        BY <3>1, <3>5, <4>1, <4>2 DEF Budget
      <4>4. f[w] = w
        BY <4>1, <4>3
      <4> QED
        BY <4>3, <4>4
    <3> QED
      BY <3>2, <3>3, <3>4, <3>5
  <2>10. Cardinality(Budget') <= Cardinality(Budget)
    <3> HIDE DEF f
    <3> QED
      BY <1>1, <2>9, Mapped
  <2>11. Cardinality(Budget') \in Nat
    <3>1. IsFiniteSet(0 .. MaxAttempts)
      BY <1>1, FS_Interval
    <3>2. IsFiniteSet(Copies \X (0 .. MaxAttempts))
      BY <3>1, FS_Product
    <3> QED
      BY <3>2, FS_Subset, FS_CardinalityType DEF Budget
  <2> QED
    BY <1>1, <2>4, <2>10, <2>11 DEF Bounded
<1>9. ASSUME NEW h \in Handlers, Republish(h) PROVE Bounded'
  <2>1. holds[h] # NoCopy /\ Threw(h)
    BY <1>9 DEF Republish, Threw
  <2> QED
    BY <1>7, <1>8, <1>9, <2>1 DEF Settle, Abandon, Republish
<1>10. ASSUME NEW h \in Handlers, Acknowledge(h) \/ Confirmed(h) \/ ConfirmFails(h)
       PROVE  Bounded'
  BY <1>7, <1>10 DEF Settle, Abandon, Acknowledge, Confirmed, ConfirmFails, DeliveryTypeOK
<1> QED
  BY <1>3, <1>4, <1>5, <1>6, <1>9, <1>10
  DEF DeliveryNext, Call, Process, Return, ChannelLost, Crash, deliveryVars

(* Bounded holds from the start. *)
LEMMA BoundedInvariant ==
  ASSUME IsFiniteSet(Copies), ~ChannelLosses, ~Crashes
  PROVE  DeliverySpec => []Bounded
<1>1. DeliveryInit => Bounded
  <2> SUFFICES ASSUME DeliveryInit PROVE Bounded
    OBVIOUS
  <2>1. Budget = {} /\ Published = {}
    BY DeliveryAssumption DEF DeliveryInit, Budget, Resent, Published, Attemptable
  <2> QED
    BY <2>1, FS_EmptySet, DeliveryAssumption DEF Bounded
<1>2. DeliveryTypeOK /\ TraceInv /\ Bounded /\ [DeliveryNext]_deliveryVars => Bounded'
  BY BoundedStep
<1> QED
  BY <1>1, <1>2, TraceInvariant, DeliveryTypeCorrect, PTL DEF DeliverySpec

(* As long as no channel closes and no process dies, the broker is given at most
   MaxAttempts retries and dead letters for each published message, whatever
   fails and whatever attempt its producer stated. *)
THEOREM RetriesEnd ==
  ASSUME IsFiniteSet(Copies), ~ChannelLosses, ~Crashes
  PROVE  DeliverySpec => []PublicationsAreBounded
<1>1. DeliveryTypeOK /\ Bounded => PublicationsAreBounded
  <2> SUFFICES ASSUME DeliveryTypeOK, Bounded PROVE PublicationsAreBounded
    OBVIOUS
  <2> DEFINE f == [w \in Budget |-> w[1]]
  <2>1. IsFiniteSet(Budget)
    <3>1. IsFiniteSet(0 .. MaxAttempts)
      BY FS_Interval, DeliveryAssumption
    <3>2. IsFiniteSet(Copies \X (0 .. MaxAttempts))
      BY <3>1, FS_Product
    <3> QED
      BY <3>2, FS_Subset DEF Budget
  <2>2. ASSUME NEW d \in Resent PROVE d \in {f[x] : x \in Budget}
    <3>1. <<d, 0>> \in Budget
      BY DeliveryAssumption DEF Budget, Resent
    <3> QED
      BY <3>1
  <2>3. Cardinality(Resent) <= Cardinality(Budget)
    <3> HIDE DEF f
    <3> QED
      BY <2>1, <2>2, Mapped
  <2>4. Cardinality(Resent) \in Nat /\ Cardinality(Budget) \in Nat /\ Cardinality(Published) \in Nat
    BY <2>1, FS_Subset, FS_CardinalityType, DeliveryAssumption DEF Resent, Published
  <2>5. MaxAttempts * Cardinality(Published) \in Nat
    BY <2>4, DeliveryAssumption
  <2>6. Cardinality(Resent) <= MaxAttempts * Cardinality(Published)
    BY <2>3, <2>4, <2>5 DEF Bounded
  <2> QED
    BY <2>6 DEF PublicationsAreBounded, Resent, Published
<1> QED
  BY <1>1, BoundedInvariant, DeliveryTypeCorrect, PTL

-----------------------------------------------------------------------------
(* Every delivery is in somebody's hands or abandoned, and a handler that is neither
   processing nor waiting for a confirmation has content it cannot parse. *)
InHand ==
  /\ \A c \in Copies : place[c] = "unacked" =>
       c \in abandoned \/ \E h \in Handlers : holds[h] = c
  /\ \A h \in Handlers : holds[h] # NoCopy /\ pc[h] = "idle" /\ h \notin confirming
       => content[holds[h]] = Malformed

(* InHand is inductive. *)
LEMMA InHandStep ==
  ASSUME DeliveryTypeOK, TraceInv, InHand, [DeliveryNext]_deliveryVars
  PROVE  InHand'
<1> USE DEF InHand
<1>1. \A h \in Handlers : holds[h] \in Copies \cup {NoCopy}
  BY DEF DeliveryTypeOK
<1>2. \A c \in Copies : place[c] # "unused" => content'[c] = content[c]
  BY CopiesOnlyGrow DEF CopiesGrow
<1>3. \A h \in Handlers : holds[h] # NoCopy => holds[h] \in Copies /\ place[holds[h]] = "unacked"
  BY <1>1 DEF TraceInv
<1>4. ASSUME NEW c \in Originals, NEW what \in Contents, NEW header \in Headers,
             Publish(c, what, header)
      PROVE  InHand'
  <2>1. /\ \A d \in Copies : place'[d] = "unacked" => place[d] = "unacked"
        /\ UNCHANGED <<pc, holds, confirming, abandoned>>
    BY <1>4, DeliveryAssumption DEF Publish, Enqueue, vars, DeliveryTypeOK
  <2> QED
    BY <1>2, <1>3, <2>1
<1>5. ASSUME NEW h \in Handlers, NEW c \in Copies, Deliver(h, c) PROVE InHand'
  <2>1. /\ \A d \in Copies \ {c} : place'[d] = place[d]
        /\ \A k \in Handlers \ {h} : holds'[k] = holds[k] /\ pc'[k] = pc[k]
        /\ holds'[h] = c /\ holds[h] = NoCopy
        /\ UNCHANGED <<confirming, content, abandoned>>
        /\ pc'[h] = "idle" => content[c] = Malformed
    BY <1>5 DEF Deliver, Free, Start, vars, DeliveryTypeOK, TypeOK
  <2>2. \A d \in Copies \ {c} : place[d] = "unacked" =>
          d \in abandoned \/ \E k \in Handlers \ {h} : holds[k] = d
    BY <2>1, DeliveryAssumption
  <2> QED
    BY <2>1, <2>2
<1>6. ASSUME NEW h \in Handlers, holds[h] # NoCopy, Settle(h, "acked") \/ Abandon(h),
             \A k \in Handlers \ {h} : pc'[k] = pc[k]
      PROVE  InHand'
  <2>1. /\ \A c \in Copies \ {holds[h]} : place'[c] = place[c]
        /\ \/ place'[holds[h]] = "acked" /\ abandoned' = abandoned
           \/ abandoned' = abandoned \cup {holds[h]}
        /\ holds'[h] = NoCopy
        /\ \A k \in Handlers \ {h} : holds'[k] = holds[k]
        /\ confirming' = confirming \ {h} /\ content' = content
    BY <1>3, <1>6 DEF Settle, Abandon, LetGo, DeliveryTypeOK
  <2>2. ASSUME NEW c \in Copies, place'[c] = "unacked", c \notin abandoned'
        PROVE  \E k \in Handlers : holds'[k] = c
    <3>1. c # holds[h] /\ place[c] = "unacked" /\ c \notin abandoned
      BY <2>1, <2>2
    <3>2. PICK k \in Handlers : holds[k] = c
      BY <3>1
    <3> QED
      BY <2>1, <3>1, <3>2
  <2>3. ASSUME NEW k \in Handlers, holds'[k] # NoCopy, pc'[k] = "idle", k \notin confirming'
        PROVE  content'[holds'[k]] = Malformed
    <3>1. k # h /\ holds'[k] = holds[k] /\ pc'[k] = pc[k] /\ k \notin confirming
      BY <1>6, <2>1, <2>3
    <3> QED
      BY <2>1, <2>3, <3>1
  <2> QED
    BY <2>2, <2>3
<1>7. ASSUME NEW h \in Handlers,
             \/ Acknowledge(h) \/ Confirmed(h) \/ ConfirmFails(h)
             \/ Republish(h) /\ Abandon(h)
      PROVE  InHand'
  BY <1>6, <1>7, FinishIdles
  DEF Acknowledge, Confirmed, ConfirmFails, Republish, Threw, DeliveryTypeOK, vars
<1>8. ASSUME NEW h \in Handlers, Republish(h), ~Abandon(h) PROVE InHand'
  <2>1. PICK d \in Copies, where \in {"ready", "dead"}, header \in Int :
          Enqueue(d, where, content[holds[h]], header)
    BY <1>3, <1>8, DeliveryAssumption DEF Republish, Threw, Resend, deliveryAttempt, DeliveryTypeOK
  <2>2. \A c \in Copies : place'[c] = "unacked" => place[c] = "unacked"
    BY <2>1 DEF Enqueue, DeliveryTypeOK
  <2>3. /\ UNCHANGED <<holds, abandoned>> /\ confirming' = confirming \cup {h}
        /\ \A k \in Handlers \ {h} : pc'[k] = pc[k]
    BY <1>8, FinishIdles DEF Republish, Threw, Resend, DeliveryTypeOK, vars
  <2> QED
    BY <1>2, <1>3, <2>2, <2>3
<1>9. ASSUME NEW h \in Handlers, Process(h) PROVE InHand'
  BY <1>9, StepKeepsBody, StepOutcomes DEF Process, transportVars, DeliveryTypeOK, StepOutcome, InHand, Working, Results, Claiming
<1>10. ASSUME NEW h \in Handlers, NEW b \in Body, Call(h, b) PROVE InHand'
  BY <1>10 DEF Call, Free, Start, transportVars, DeliveryTypeOK, TypeOK
<1>11. ASSUME NEW h \in Handlers, Return(h) PROVE InHand'
  BY <1>11, FinishIdles DEF Return, transportVars, DeliveryTypeOK
<1>12. CASE Requeue
  BY <1>12 DEF Requeue, DeliveryTypeOK
<1>13. CASE UNCHANGED <<pc, place, content, holds, confirming, abandoned>>
  BY <1>13
<1> QED
  BY <1>4, <1>5, <1>7, <1>8, <1>9, <1>10, <1>11, <1>12, <1>13
  DEF DeliveryNext, StartConsumer, ChannelLost, Crash, deliveryVars, vars,
      transportVars, queueVars

(* Whoever is to publish a copy again finds room for it: an attempt is left
   that has not been used up. *)
LEMMA RoomToRepublish ==
  ASSUME IsFiniteSet(Copies),
         Cardinality(Copies \ Originals) >= MaxAttempts * Cardinality(Originals),
         DeliveryTypeOK, Bounded, NEW h \in Handlers, holds[h] # NoCopy, h \notin confirming
  PROVE  \E d \in Copies \ Originals : place[d] = "unused"
<1> SUFFICES ASSUME \A d \in Copies \ Originals : place[d] # "unused" PROVE FALSE
  OBVIOUS
<1>1. IsFiniteSet(Budget) /\ Cardinality(Budget) \in Nat
  <2>1. IsFiniteSet(0 .. MaxAttempts)
    BY FS_Interval, DeliveryAssumption
  <2>2. IsFiniteSet(Copies \X (0 .. MaxAttempts))
    BY <2>1, FS_Product
  <2> QED
    BY <2>2, FS_Subset, FS_CardinalityType DEF Budget
<1>2. PICK w : w = <<holds[h], MaxAttempts>>
  OBVIOUS
<1>3. w \in Budget /\ w[2] # 0
  BY <1>2, DeliveryAssumption DEF Budget, Attemptable, Left, DeliveryTypeOK
<1>4. PICK R : R = Budget \ {w}
  OBVIOUS
<1>5. IsFiniteSet(R) /\ Cardinality(R) = Cardinality(Budget) - 1
  BY <1>1, <1>3, <1>4, FS_RemoveElement
<1>6. PICK S : S = Copies \ Originals
  OBVIOUS
<1>7. Cardinality(S) <= Cardinality(R)
  <2> DEFINE f == [x \in R |-> x[1]]
  <2>1. ASSUME NEW d \in S PROVE d \in {f[x] : x \in R}
    <3>1. <<d, 0>> \in Budget /\ <<d, 0>> # w
      BY <1>3, <1>6, DeliveryAssumption DEF Budget, Resent
    <3> QED
      BY <1>4, <3>1
  <2> HIDE DEF f
  <2> QED
    BY <1>5, <2>1, Mapped
<1>8. /\ Cardinality(S) \in Nat /\ Cardinality(Originals) \in Nat /\ Cardinality(Published) \in Nat
      /\ Cardinality(Published) <= Cardinality(Originals)
  <2>1. IsFiniteSet(Originals)
    BY FS_Subset, DeliveryAssumption
  <2>2. Published \subseteq Originals /\ S \subseteq Copies
    BY <1>6 DEF Published
  <2> QED
    BY <2>1, <2>2, Part
<1>9. MaxAttempts * Cardinality(Published) <= MaxAttempts * Cardinality(Originals)
  <2>1. PICK p \in Nat, o \in Nat : p = Cardinality(Published) /\ o = Cardinality(Originals)
    BY <1>8
  <2>2. PICK m \in Nat : o = p + m
    <3>1. o - p \in Nat /\ o = p + (o - p)
      BY <1>8, <2>1
    <3> QED
      BY <3>1
  <2>3. MaxAttempts * (p + m) = MaxAttempts * p + MaxAttempts * m /\ MaxAttempts * m \in Nat
        /\ MaxAttempts * p \in Nat
    BY DeliveryAssumption
  <2> QED
    BY <2>1, <2>2, <2>3
<1>10. /\ MaxAttempts * Cardinality(Published) \in Nat /\ MaxAttempts * Cardinality(Originals) \in Nat
  BY <1>8, DeliveryAssumption
<1>11. /\ Cardinality(Budget) <= MaxAttempts * Cardinality(Published)
       /\ Cardinality(S) >= MaxAttempts * Cardinality(Originals)
  BY <1>6 DEF Bounded
<1> QED
  BY <1>1, <1>5, <1>7, <1>8, <1>9, <1>10, <1>11

(* While channels and processes last, whoever holds a delivery can go on, and a
   queued message is delivered next or waits for a handler that can, unless
   failed publications have used up the prefetch limit: for every prefetch and
   every number of handlers, messages and attempts. *)
THEOREM DeliveriesGoOn ==
  ASSUME ~ChannelLosses, ~Crashes, Handlers # {}, IsFiniteSet(Copies),
         Cardinality(Copies \ Originals) >= MaxAttempts * Cardinality(Originals)
  PROVE  DeliverySpec => []NoDeliveryIsStuck
<1>1. DeliveryInit => InHand
  BY DEF DeliveryInit, InHand
<1>2. DeliveryTypeOK /\ TraceInv /\ InHand /\ [DeliveryNext]_deliveryVars => InHand'
  BY InHandStep
<1>3. DeliveryTypeOK /\ TraceInv /\ InHand /\ Bounded => NoDeliveryIsStuck
  <2> SUFFICES ASSUME DeliveryTypeOK, TraceInv, InHand, Bounded
               PROVE  NoDeliveryIsStuck
    OBVIOUS
  <2>1. ASSUME NEW h \in Handlers, holds[h] # NoCopy PROVE GoesOn(h)
    <3>1. pc[h] \in {"idle"} \cup Claiming \cup Working \cup Results
      BY DEF DeliveryTypeOK, TypeOK
    <3> QED
      BY <2>1, <3>1, RoomToRepublish DEF GoesOn, InHand, Results
  <2>2. ASSUME NEW h \in Handlers, ~Free(h) PROVE GoesOn(h)
    <3>1. pc[h] \in {"idle"} \cup Claiming \cup Working \cup Results
      BY DEF DeliveryTypeOK, TypeOK
    <3> QED
      BY <2>1, <2>2, <3>1 DEF Free, GoesOn, Results
  <2>3. ASSUME NEW c \in Copies, place[c] = "unacked", c \notin abandoned
        PROVE  \E h \in Handlers : holds[h] = c /\ GoesOn(h)
    BY <2>1, <2>3, DeliveryAssumption DEF InHand
  <2>4. CASE \E c \in Copies : place[c] = "unacked" /\ c \notin abandoned
    BY <2>3, <2>4 DEF NoDeliveryIsStuck
  <2>5. CASE \A c \in Copies : place[c] = "unacked" => c \in abandoned
    <3> DEFINE U == {d \in Copies : place[d] = "unacked"}
    <3>1. U \subseteq abandoned /\ IsFiniteSet(abandoned)
      BY <2>5, FS_Subset DEF DeliveryTypeOK
    <3>2. /\ Cardinality(U) \in Nat /\ Cardinality(abandoned) \in Nat
          /\ Cardinality(U) <= Cardinality(abandoned)
      BY <3>1, Part
    <3>3. Cardinality(U) < Prefetch \/ Cardinality(abandoned) >= Prefetch
      BY <3>2, DeliveryAssumption
    <3> QED
      BY <2>2, <2>5, <3>3 DEF NoDeliveryIsStuck
  <2> QED
    BY <2>4, <2>5
<1> QED
  BY <1>1, <1>2, <1>3, BoundedInvariant, TraceInvariant, DeliveryTypeCorrect, PTL
  DEF DeliverySpec

-----------------------------------------------------------------------------
(* No step of the processor leads back to an earlier one. *)
LEMMA StepAdvances ==
  ASSUME TypeOK, NEW h \in Handlers, Step(h), confirming' = confirming
  PROVE  Todo(h)' < Todo(h)
<1> USE DEF TypeOK
<1>1. \A where : Goto(h, where) => pc'[h] = where
  BY DEF Goto
<1>2. CASE Create(h)
  <2>1. pc[h] = "creating" /\ pc'[h] \in {"running", "finding", "ERROR"}
    BY <1>1, <1>2 DEF Create, Unapplied
  <2> QED
    BY <2>1 DEF Todo, Results
<1>3. CASE Find(h)
  <2>1. pc[h] = "finding" /\ pc'[h] \in {"CONFLICT", "DUPLICATE", "reclaiming", "ERROR"}
    BY <1>1, <1>3 DEF Find, Unapplied
  <2> QED
    BY <2>1 DEF Todo, Results
<1>4. CASE Reclaim(h)
  <2>1. pc[h] = "reclaiming" /\ pc'[h] \in {"running", "DUPLICATE", "ERROR"}
    BY <1>1, <1>4 DEF Reclaim, Write, Unapplied
  <2> QED
    BY <2>1 DEF Todo, Results
<1>5. CASE Notify(h)
  <2>1. pc[h] = "running" /\ pc'[h] = "notified"
    BY <1>5 DEF Notify
  <2> QED
    BY <2>1 DEF Todo, Results
<1>6. CASE AgentAnswers(h)
  <2>1. pc[h] \in {"running", "notified"} /\ pc'[h] \in {"completing", "failing", "aborting"}
    BY <1>1, <1>6 DEF AgentAnswers, Unapplied
  <2> QED
    BY <2>1 DEF Todo, Results
<1>7. CASE Complete(h)
  <2>1. pc[h] = "completing" /\ pc'[h] \in {"COMPLETED", "aborting"}
    BY <1>1, <1>7 DEF Complete, Write, Unapplied
  <2> QED
    BY <2>1 DEF Todo, Results
<1>8. CASE Fail(h)
  <2>1. pc[h] = "failing" /\ pc'[h] \in {"ERROR", "aborting"}
    BY <1>1, <1>8 DEF Fail, Write, Unapplied
  <2> QED
    BY <2>1 DEF Todo, Results
<1>9. CASE Abort(h)
  <2>1. pc[h] = "aborting" /\ pc'[h] = "ERROR"
    BY <1>1, <1>9 DEF Abort, Write, Unapplied
  <2> QED
    BY <2>1 DEF Todo, Results
<1> QED
  BY <1>2, <1>3, <1>4, <1>5, <1>6, <1>7, <1>8, <1>9 DEF Step

(* What a step does to the delivery in the hands of handler k. *)
Advances(k) ==
  holds[k] # NoCopy /\ <<pc[k], holds[k], k \in confirming>>'
                         # <<pc[k], holds[k], k \in confirming>>
    => IF holds'[k] = holds[k]
       THEN Todo(k)' < Todo(k)
       ELSE /\ holds'[k] = NoCopy
            /\ place'[holds[k]] = "unacked" => holds[k] \in abandoned'

LEMMA HandlersAdvance ==
  ASSUME DeliveryTypeOK, TraceInv, [DeliveryNext]_deliveryVars,
         NEW k \in Handlers
  PROVE  Advances(k)
<1> SUFFICES ASSUME holds[k] # NoCopy PROVE Advances(k)
  BY DEF Advances
<1>1. /\ holds[k] \in Copies /\ place[holds[k]] = "unacked"
      /\ \A h \in Handlers : holds[h] = holds[k] => h = k
      /\ k \in confirming => pc[k] = "idle"
  BY DEF TraceInv, DeliveryTypeOK
<1>2. ASSUME pc'[k] = pc[k], holds'[k] = holds[k], k \in confirming' <=> k \in confirming
      PROVE  Advances(k)
  BY <1>2 DEF Advances
<1>3. ASSUME NEW c \in Originals, NEW what \in Contents, NEW header \in Headers,
             Publish(c, what, header)
      PROVE  Advances(k)
  BY <1>2, <1>3 DEF Publish, vars
<1>4. ASSUME NEW h \in Handlers, NEW c \in Copies, Deliver(h, c) PROVE Advances(k)
  <2>1. /\ h # k /\ holds'[k] = holds[k] /\ confirming' = confirming /\ pc'[k] = pc[k]
    BY <1>4 DEF Deliver, Free, Start, vars, DeliveryTypeOK, TypeOK
  <2> QED
    BY <1>2, <2>1
<1>5. ASSUME NEW h \in Handlers, holds[h] # NoCopy, Settle(h, "acked") \/ Abandon(h),
             \A j \in Handlers \ {h} : pc'[j] = pc[j]
      PROVE  Advances(k)
  <2>1. CASE h = k
    BY <1>1, <1>5, <2>1, DeliveryAssumption DEF Settle, Abandon, LetGo, Advances, DeliveryTypeOK
  <2>2. CASE h # k
    BY <1>2, <1>5, <2>2 DEF Settle, Abandon, LetGo, DeliveryTypeOK
  <2> QED
    BY <2>1, <2>2
<1>6. ASSUME NEW h \in Handlers,
             \/ Acknowledge(h) \/ Confirmed(h) \/ ConfirmFails(h)
             \/ Republish(h) /\ Abandon(h)
      PROVE  Advances(k)
  BY <1>5, <1>6, FinishIdles
  DEF Acknowledge, Confirmed, ConfirmFails, Republish, Threw, DeliveryTypeOK, vars
<1>7. ASSUME NEW h \in Handlers, Republish(h), ~Abandon(h) PROVE Advances(k)
  <2>1. holds' = holds /\ confirming' = confirming \cup {h} /\ h \notin confirming
        /\ (Finish(h) \/ UNCHANGED pc)
    BY <1>7 DEF Republish, Threw, Resend, vars
  <2>2. CASE h = k
    <3>1. pc'[k] = "idle" /\ pc[k] \in {"idle"} \cup Results
      <4>1. CASE pc[k] \in Results /\ Finish(k)
        BY <4>1, FinishIdles DEF DeliveryTypeOK
      <4>2. CASE content[holds[k]] = Malformed /\ UNCHANGED vars
        BY <1>1, <4>2, BusyHasBody, DeliveryAssumption DEF TraceInv, DeliveryTypeOK, vars
      <4> QED
        BY <1>7, <2>2, <4>1, <4>2 DEF Republish, Threw, Results
    <3>2. Todo(k)' = 0
      BY <2>1, <2>2, <3>1 DEF Todo, Results
    <3>3. Todo(k) \in {1, 2}
      BY <2>1, <2>2, <3>1 DEF Todo, Results
    <3> QED
      BY <2>1, <3>2, <3>3 DEF Advances
  <2>3. CASE h # k
    BY <1>2, <2>1, <2>3, FinishIdles DEF DeliveryTypeOK
  <2> QED
    BY <2>2, <2>3
<1>8. ASSUME NEW h \in Handlers, Process(h) PROVE Advances(k)
  <2>1. UNCHANGED transportVars /\ Step(h)
        /\ \A j \in Handlers \ {h} : pc'[j] = pc[j]
    BY <1>8, StepKeepsBody DEF Process, DeliveryTypeOK
  <2>2. CASE h = k
    BY <2>1, <2>2, StepAdvances DEF Advances, transportVars, DeliveryTypeOK
  <2>3. CASE h # k
    BY <1>2, <2>1, <2>3 DEF transportVars
  <2> QED
    BY <2>2, <2>3
<1>9. ASSUME NEW h \in Handlers, NEW b \in Body, Call(h, b) PROVE Advances(k)
  <2>1. h # k /\ pc'[k] = pc[k] /\ UNCHANGED transportVars
    BY <1>9 DEF Call, Free, Start, DeliveryTypeOK, TypeOK
  <2> QED
    BY <1>2, <2>1 DEF transportVars
<1>10. ASSUME NEW h \in Handlers, Return(h) PROVE Advances(k)
  <2>1. h # k /\ pc'[k] = pc[k] /\ UNCHANGED transportVars
    BY <1>10, FinishIdles DEF Return, DeliveryTypeOK
  <2> QED
    BY <1>2, <2>1 DEF transportVars
<1>11. CASE Requeue
  <2>1. holds'[k] = NoCopy /\ place'[holds[k]] = "ready"
    BY <1>1, <1>11 DEF Requeue
  <2> QED
    BY <2>1 DEF Advances
<1>12. CASE UNCHANGED <<pc, holds, confirming>>
  BY <1>2, <1>12
<1> QED
  BY <1>3, <1>4, <1>6, <1>7, <1>8, <1>9, <1>10, <1>11, <1>12
  DEF DeliveryNext, StartConsumer, ChannelLost, Crash, deliveryVars, vars, transportVars

(* What is acknowledged or dead-lettered is done with. *)
LEMMA SettledStays ==
  ASSUME DeliveryTypeOK, TraceInv, [DeliveryNext]_deliveryVars,
         NEW c \in Copies, place[c] \in {"acked", "dead"}
  PROVE  place'[c] = place[c]
<1>1. ASSUME NEW d, NEW where, NEW what, NEW header, Enqueue(d, where, what, header)
      PROVE  place'[c] = place[c]
  BY <1>1 DEF Enqueue, DeliveryTypeOK
<1>2. ASSUME NEW h \in Handlers, holds[h] # NoCopy, NEW where, LetGo(h, where)
      PROVE  place'[c] = place[c]
  BY <1>2 DEF LetGo, TraceInv, DeliveryTypeOK
<1>3. ASSUME NEW h \in Handlers, NEW d \in Copies, Deliver(h, d) PROVE place'[c] = place[c]
  BY <1>3 DEF Deliver, DeliveryTypeOK
<1>4. ASSUME NEW h \in Handlers, Acknowledge(h) \/ Confirmed(h) \/ ConfirmFails(h)
      PROVE  place'[c] = place[c]
  BY <1>2, <1>4 DEF Acknowledge, Confirmed, ConfirmFails, Settle, Abandon, DeliveryTypeOK
<1>5. ASSUME NEW h \in Handlers, Republish(h) PROVE place'[c] = place[c]
  BY <1>1, <1>2, <1>5 DEF Republish, Threw, Resend, Abandon
<1>6. ASSUME NEW d \in Originals, NEW what \in Contents, NEW header \in Headers,
             Publish(d, what, header)
      PROVE  place'[c] = place[c]
  BY <1>1, <1>6 DEF Publish
<1>7. CASE Requeue
  BY <1>7 DEF Requeue, DeliveryTypeOK
<1>8. CASE place' = place
  BY <1>8
<1> QED
  BY <1>3, <1>4, <1>5, <1>6, <1>7, <1>8
  DEF DeliveryNext, StartConsumer, Call, Return, Process, ChannelLost, Crash,
      deliveryVars, transportVars, queueVars

(* A delivery ends: every step of its handler leads on, through failed
   database calls, failed publications, closed channels and crashes. *)
THEOREM DeliveriesEnd == DeliverySpec => DeliveriesWindDown
<1>1. DeliveryTypeOK /\ TraceInv /\ [DeliveryNext]_deliveryVars
        => [/\ \A c \in Copies : place[c] \in {"acked", "dead"} => place'[c] = place[c]
            /\ \A h \in Handlers : Advances(h)]_deliveryVars
  BY HandlersAdvance, SettledStays
<1> QED
  BY <1>1, TraceInvariant, DeliveryTypeCorrect, PTL DEF DeliverySpec, DeliveriesWindDown, Advances
=============================================================================
