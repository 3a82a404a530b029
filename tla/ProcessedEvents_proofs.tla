----------------------- MODULE ProcessedEvents_proofs -----------------------
(* Proofs about ProcessedEvents, for every set of events, contents and
   handlers. *)
EXTENDS ProcessedEvents, TLAPS

(* A handler that is not idle has an event. *)
LEMMA BusyHasBody ==
  ASSUME TypeOK, NEW h \in Handlers, pc[h] # "idle"
  PROVE  body[h] \in Body /\ Id(h) \in EventIds /\ body[h].hash \in Hashes
  BY DEF TypeOK, Body, Id

(* TypeOK is inductive. *)
LEMMA TypeStep ==
  ASSUME TypeOK, [Next]_vars
  PROVE  TypeOK'
<1> USE DEF TypeOK, Statuses, Claiming, Working, Results
<1>1. ASSUME NEW h \in Handlers, NEW b \in Body, Start(h, b) PROVE TypeOK'
  BY <1>1, ProcessedEventsAssumption DEF Start
<1>2. ASSUME NEW h \in Handlers, Step(h) PROVE TypeOK'
  <2>1. pc[h] \notin {"idle"} \cup Results
    BY <1>2 DEF Step, Create, Find, Reclaim, Notify, AgentAnswers, Complete, Fail, Abort
  <2>2. Id(h) \in EventIds /\ body[h].hash \in Hashes
    BY <2>1, BusyHasBody
  <2>3. CASE Create(h)
    BY <2>1, <2>2, <2>3 DEF Create, Insert, Unapplied, Goto
  <2>4. CASE Find(h)
    BY <2>1, <2>2, <2>4 DEF Find, Unapplied, Goto
  <2>5. CASE Reclaim(h)
    BY <2>1, <2>2, <2>5 DEF Reclaim, Write, SetStatus, Unapplied, Goto
  <2>6. CASE Notify(h)
    BY <2>1, <2>2, <2>6 DEF Notify
  <2>7. CASE AgentAnswers(h)
    BY <2>1, <2>2, <2>7 DEF AgentAnswers, Unapplied, Goto
  <2>8. CASE Complete(h)
    BY <2>1, <2>2, <2>8 DEF Complete, Write, SetStatus, Unapplied, Goto
  <2>9. CASE Fail(h)
    BY <2>1, <2>2, <2>9 DEF Fail, Write, SetStatus, Unapplied, Goto
  <2>10. CASE Abort(h)
    BY <2>1, <2>2, <2>10 DEF Abort, Write, SetStatus, Unapplied, Goto
  <2> QED
    BY <1>2, <2>3, <2>4, <2>5, <2>6, <2>7, <2>8, <2>9, <2>10 DEF Step
<1>3. ASSUME NEW h \in Handlers, Finish(h) PROVE TypeOK'
  BY <1>3 DEF Finish
<1>4. ASSUME NEW S \in SUBSET Handlers, Die(S) PROVE TypeOK'
  BY <1>4 DEF Die
<1>5. CASE UNCHANGED vars
  BY <1>5 DEF vars
<1> QED
  BY <1>1, <1>2, <1>3, <1>4, <1>5 DEF Next

(* Every reachable state of the table and the handlers has its declared
   shape. *)
THEOREM TypeCorrect == Spec => []TypeOK
<1>1. Init => TypeOK
  BY DEF Init, TypeOK, Statuses
<1> QED
  BY <1>1, TypeStep, PTL DEF Spec

-----------------------------------------------------------------------------
(* A step of h leaves other handlers and other events alone. *)
LEMMA StepFrame ==
  ASSUME TypeOK, NEW h \in Handlers, Step(h)
  PROVE  /\ pc[h] \in Claiming \cup Working
         /\ Id(h) \in EventIds
         /\ body' = body
         /\ \A k \in Handlers \ {h} : pc'[k] = pc[k]
         /\ \A e \in EventIds \ {Id(h)} :
              status'[e] = status[e] /\ payloadHash'[e] = payloadHash[e] /\ sent'[e] = sent[e]
<1>1. pc[h] \in Claiming \cup Working
  BY DEF Step, Create, Find, Reclaim, Notify, AgentAnswers, Complete, Fail, Abort, Claiming, Working
<1>2. Id(h) \in EventIds
  BY <1>1, BusyHasBody DEF Claiming, Working
<1>3. body' = body /\ \A k \in Handlers \ {h} : pc'[k] = pc[k]
  BY DEF Step, Create, Find, Reclaim, Notify, AgentAnswers, Complete, Fail, Abort,
         Insert, Write, SetStatus, Unapplied, Goto, TypeOK
<1>4. \A e \in EventIds \ {Id(h)} :
        status'[e] = status[e] /\ payloadHash'[e] = payloadHash[e] /\ sent'[e] = sent[e]
  BY DEF Step, Create, Find, Reclaim, Notify, AgentAnswers, Complete, Fail, Abort,
         Insert, Write, SetStatus, Unapplied, Goto, TypeOK
<1> QED
  BY <1>1, <1>2, <1>3, <1>4

(* What a step of h does to its own event and where it leaves h. *)
StepOutcome(h) ==
  LET e == Id(h) IN
  \/ /\ pc[h] = "creating"                        \* the INSERT
     /\ status[e] = "ABSENT" /\ status'[e] = "PROCESSING"
     /\ payloadHash'[e] = body[h].hash
     /\ pc'[h] = "running" \/ (LostReplies /\ pc'[h] = "ERROR")
  \/ /\ pc[h] = "reclaiming"                      \* the conditional UPDATE
     /\ status[e] = "FAILED" /\ status'[e] = "PROCESSING"
     /\ payloadHash'[e] = payloadHash[e]
     /\ pc'[h] = "running" \/ (LostReplies /\ pc'[h] = "ERROR")
  \/ /\ pc[h] \in Working                         \* complete or fail
     /\ status'[e] \in {"COMPLETED", "FAILED"}
     /\ payloadHash'[e] = payloadHash[e]
     /\ pc'[h] \in Results \/ (LostReplies /\ pc'[h] = "aborting")
  \/ /\ pc[h] \in Working                         \* inside the run, or an unapplied write
     /\ status'[e] = status[e] /\ payloadHash'[e] = payloadHash[e]
     /\ pc'[h] \in Working \cup Results
  \/ /\ pc[h] \in Claiming                        \* a claim that changes nothing
     /\ status'[e] = status[e] /\ payloadHash'[e] = payloadHash[e]
     /\ \/ /\ pc'[h] \in {"DUPLICATE", "CONFLICT", "ERROR"}
           /\ pc'[h] = "DUPLICATE" => pc[h] = "reclaiming" \/ payloadHash[e] = body[h].hash
        \/ pc'[h] = "finding" /\ status[e] # "ABSENT"
        \/ pc'[h] = "reclaiming" /\ pc[h] = "finding" /\ payloadHash[e] = body[h].hash

LEMMA StepOutcomes ==
  ASSUME TypeOK, NEW h \in Handlers, Step(h)
  PROVE  StepOutcome(h)
<1> USE DEF StepOutcome, TypeOK, Working, Results, Claiming
<1>1. Id(h) \in EventIds
  BY StepFrame
<1>2. CASE Create(h)
  BY <1>1, <1>2 DEF Create, Insert, Unapplied, Goto
<1>3. CASE Find(h)
  BY <1>1, <1>3 DEF Find, Unapplied, Goto
<1>4. CASE Reclaim(h)
  BY <1>1, <1>4 DEF Reclaim, Write, SetStatus, Unapplied, Goto
<1>5. CASE Notify(h)
  BY <1>1, <1>5 DEF Notify
<1>6. CASE AgentAnswers(h)
  BY <1>1, <1>6 DEF AgentAnswers, Unapplied, Goto
<1>7. CASE Complete(h)
  BY <1>1, <1>7 DEF Complete, Write, SetStatus, Unapplied, Goto
<1>8. CASE Fail(h)
  BY <1>1, <1>8 DEF Fail, Write, SetStatus, Unapplied, Goto
<1>9. CASE Abort(h)
  BY <1>1, <1>9 DEF Abort, Write, SetStatus, Unapplied, Goto
<1> QED
  BY <1>2, <1>3, <1>4, <1>5, <1>6, <1>7, <1>8, <1>9 DEF Step

-----------------------------------------------------------------------------
(* ContentInv is inductive, also when replies are lost. *)
LEMMA ContentStep ==
  ASSUME TypeOK, ContentInv, [Next]_vars
  PROVE  ContentInv'
<1> USE DEF ContentInv, OneContentPerEvent
<1>1. ASSUME NEW h \in Handlers, NEW b \in Body, Start(h, b) PROVE ContentInv'
  BY <1>1 DEF Start, TypeOK, Id, Working
<1>2. ASSUME NEW h \in Handlers, Step(h) PROVE ContentInv'
  <2>1. \A k \in Handlers : pc[k] # "idle" =>
          Id(k) \in EventIds /\ body[k].hash \in Hashes /\ body[k].hash # NoHash
    BY BusyHasBody, ProcessedEventsAssumption
  <2>2. /\ Id(h) \in EventIds /\ body' = body
        /\ pc[h] \in Claiming \cup Working
        /\ \A k \in Handlers \ {h} : pc'[k] = pc[k]
        /\ \A e \in EventIds \ {Id(h)} :
             status'[e] = status[e] /\ payloadHash'[e] = payloadHash[e]
    BY <1>2, StepFrame
  <2>3. StepOutcome(h)
    BY <1>2, StepOutcomes
  <2> USE DEF StepOutcome, Id, Working, Results, Claiming
  <2>4. ASSUME NEW e \in EventIds PROVE (status[e] = "ABSENT" <=> payloadHash[e] = NoHash)'
    BY <2>1, <2>2, <2>3
  <2>5. ASSUME NEW k \in Handlers \ {h}
        PROVE  /\ (pc[k] \in {"finding", "reclaiming"} \cup Working => status[Id(k)] # "ABSENT")'
               /\ (pc[k] \in {"reclaiming", "COMPLETED", "DUPLICATE"} \cup Working =>
                     payloadHash[Id(k)] = body[k].hash)'
    BY <2>1, <2>2, <2>3
  <2>6. /\ (pc[h] \in {"finding", "reclaiming"} \cup Working => status[Id(h)] # "ABSENT")'
        /\ (pc[h] \in {"reclaiming", "COMPLETED", "DUPLICATE"} \cup Working =>
              payloadHash[Id(h)] = body[h].hash)'
    BY <2>1, <2>2, <2>3
  <2> QED
    BY <2>4, <2>5, <2>6
<1>3. ASSUME NEW h \in Handlers, Finish(h) PROVE ContentInv'
  BY <1>3 DEF Finish, TypeOK, Id, Working, Results
<1>4. ASSUME NEW S \in SUBSET Handlers, Die(S) PROVE ContentInv'
  BY <1>4 DEF Die, TypeOK, Id, Working
<1>5. CASE UNCHANGED vars
  BY <1>5 DEF vars, Id
<1> QED
  BY <1>1, <1>2, <1>3, <1>4, <1>5 DEF Next

(* A handler only ever runs the content that first claimed its event
   identifier, whatever fails and whatever replies are lost. *)
THEOREM ContentFixed == Spec => []OneContentPerEvent
<1>1. Init => ContentInv
  BY DEF Init, ContentInv, OneContentPerEvent, Working
<1>2. ContentInv => OneContentPerEvent
  BY DEF ContentInv
<1> QED
  BY <1>1, <1>2, ContentStep, TypeCorrect, PTL DEF Spec

-----------------------------------------------------------------------------
(* ClaimInv is inductive when no reply is lost. *)
LEMMA ClaimStep ==
  ASSUME ~LostReplies, TypeOK, ClaimInv, [Next]_vars
  PROVE  ClaimInv'
<1> USE DEF ClaimInv, OneRunPerEvent
<1>1. ASSUME NEW h \in Handlers, NEW b \in Body, Start(h, b) PROVE ClaimInv'
  BY <1>1 DEF Start, TypeOK, Id, Working
<1>2. ASSUME NEW h \in Handlers, Step(h) PROVE ClaimInv'
  <2>1. \A k \in Handlers : pc[k] # "idle" => Id(k) \in EventIds
    BY BusyHasBody
  <2>2. StepOutcome(h)
    BY <1>2, StepOutcomes
  <2> QED
    BY <1>2, <2>1, <2>2, StepFrame DEF StepOutcome, Id, Working, Results, Claiming
<1>3. ASSUME NEW h \in Handlers, Finish(h) PROVE ClaimInv'
  BY <1>3 DEF Finish, TypeOK, Id, Working, Results
<1>4. ASSUME NEW S \in SUBSET Handlers, Die(S) PROVE ClaimInv'
  BY <1>4 DEF Die, TypeOK, Id, Working
<1>5. CASE UNCHANGED vars
  BY <1>5 DEF vars, Id
<1> QED
  BY <1>1, <1>2, <1>3, <1>4, <1>5 DEF Next

(* Unless a refused write was applied, the row of a working handler is
   PROCESSING, and no other handler works on its event. *)
THEOREM ClaimInvariant ==
  ASSUME ~LostReplies
  PROVE  Spec => []ClaimInv
<1>1. Init => ClaimInv
  BY DEF Init, ClaimInv, OneRunPerEvent, Working
<1>2. TypeOK /\ ClaimInv /\ [Next]_vars => ClaimInv'
  BY ClaimStep
<1> QED
  BY <1>1, <1>2, TypeCorrect, PTL DEF Spec

(* Unless a database applies a write whose caller sees an error, two handlers
   never run one event at the same time. *)
THEOREM ExclusiveRun ==
  ASSUME ~LostReplies
  PROVE  Spec => []OneRunPerEvent
<1>1. ClaimInv => OneRunPerEvent
  BY DEF ClaimInv
<1> QED
  BY <1>1, ClaimInvariant, PTL

(* Unless a database applies a write whose caller sees an error, a completed
   event stays completed and notifies nobody any more. *)
THEOREM CompletedStays ==
  ASSUME ~LostReplies
  PROVE  Spec => CompletedIsFinal
<1>1. ASSUME TypeOK, ClaimInv, [Next]_vars, NEW e \in EventIds,
             status[e] = "COMPLETED"
      PROVE  status'[e] = "COMPLETED" /\ sent'[e] = sent[e]
  <2> USE <1>1 DEF TypeOK, ClaimInv, Working
  <2>1. ASSUME NEW h \in Handlers, Step(h) PROVE status'[e] = "COMPLETED" /\ sent'[e] = sent[e]
    BY <2>1 DEF Step, Create, Find, Reclaim, Notify, AgentAnswers, Complete, Fail, Abort,
                Insert, Write, SetStatus, Unapplied, Goto
  <2> QED
    BY <2>1 DEF Next, Start, Finish, Die, vars
<1>2. TypeOK /\ ClaimInv /\ [Next]_vars =>
        [\A e \in EventIds :
           status[e] = "COMPLETED" => status'[e] = "COMPLETED" /\ sent'[e] = sent[e]]_vars
  BY <1>1
<1> QED
  BY <1>2, ClaimInvariant, TypeCorrect, PTL DEF CompletedIsFinal, Spec

-----------------------------------------------------------------------------
(* The refinement of ExclusiveClaim: the mapped phase and holders. *)
Phase == [e \in EventIds |->
            CASE status[e] = "PROCESSING" -> "taken"
              [] status[e] = "COMPLETED"  -> "done"
              [] OTHER                    -> "open"]

Held == [e \in EventIds |-> HoldersOf(e)]

(* Only a working handler holds its event, and then alone. *)
LEMMA SoleHolder ==
  ASSUME TypeOK, ClaimInv, NEW h \in Handlers, pc[h] \in Working
  PROVE  Held[Id(h)] = {h} /\ Phase[Id(h)] = "taken"
<1>1. Id(h) \in EventIds
  BY BusyHasBody DEF Working
<1> QED
  BY <1>1 DEF ClaimInv, OneRunPerEvent, Held, HoldersOf, Phase

(* Phase and Held keep their domains. *)
LEMMA MappedFunctions ==
  /\ Phase = [e \in EventIds |-> Phase[e]] /\ Phase' = [e \in EventIds |-> Phase'[e]]
  /\ Held = [e \in EventIds |-> Held[e]] /\ Held' = [e \in EventIds |-> Held'[e]]
  BY DEF Phase, Held

(* Every step of a handler is a step of ExclusiveClaim or changes nothing it
   shows. *)
LEMMA StepMapped ==
  ASSUME ~LostReplies, TypeOK, ClaimInv, NEW h \in Handlers, Step(h)
  PROVE  [Claims!Next]_(Claims!vars)
<1> DEFINE e == Id(h)
<1>1. e \in EventIds /\ body' = body
  BY StepFrame
<1>2. \A d \in EventIds \ {e} : Held'[d] = Held[d] /\ Phase'[d] = Phase[d]
  BY StepFrame DEF Held, HoldersOf, Phase, Id
<1>3. CASE Notify(h)
  <2>1. Held' = Held /\ Phase' = Phase /\ h \in Held[e]
    BY <1>1, <1>3, SoleHolder DEF Notify, Held, HoldersOf, Phase, Working, TypeOK, Id
  <2>2. Claims!Effect(e, h)
    BY <1>3, <2>1 DEF Notify, Claims!Effect, Held, Phase
  <2> QED
    BY <1>1, <2>2 DEF Claims!Next
<1>4. CASE ~Notify(h)
  <2>1. sent' = sent
    BY <1>4 DEF Step, Create, Find, Reclaim, AgentAnswers, Complete, Fail, Abort,
                Insert, Write, SetStatus, Unapplied, Goto
  <2>2. StepOutcome(h)
    BY StepOutcomes
  <2>3. Held'[e] = IF pc'[h] \in Working THEN Held[e] \cup {h} ELSE Held[e] \ {h}
    <3>1. /\ Held[e]  = {k \in Handlers : pc[k] \in Working /\ body[k].id = e}
          /\ Held'[e] = {k \in Handlers : pc'[k] \in Working /\ body[k].id = e}
      BY <1>1 DEF Held, HoldersOf, Id
    <3>2. \A k \in Handlers \ {h} : pc'[k] = pc[k]
      BY StepFrame
    <3> QED
      BY <3>1, <3>2 DEF Id
  <2>4. CASE pc[h] \in Claiming /\ pc'[h] = "running"
    <3>1. Phase[e] = "open" /\ Phase'[e] = "taken" /\ Held[e] = {}
      BY <1>1, <2>2, <2>4 DEF StepOutcome, Phase, Held, HoldersOf, ClaimInv, Claiming, Working, Results
    <3>2. Phase' = [Phase EXCEPT ![e] = "taken"] /\ Held' = [Held EXCEPT ![e] = {h}]
      BY <1>1, <1>2, <2>3, <2>4, <3>1, MappedFunctions DEF Working
    <3>3. Claims!Take(e, h)
      BY <2>1, <3>1, <3>2 DEF Claims!Take, Phase, Held
    <3> QED
      BY <1>1, <3>3 DEF Claims!Next
  <2>5. CASE pc[h] \in Working /\ status'[e] \in {"COMPLETED", "FAILED"}
    <3>1. Held[e] = {h} /\ pc'[h] \in Results /\ status[e] = "PROCESSING"
      BY <2>2, <2>5, SoleHolder DEF StepOutcome, ClaimInv, Claiming, Working
    <3>2. Held'[e] = {}
      BY <2>3, <3>1 DEF Results, Working
    <3>3. PICK outcome \in {"open", "done"} : Phase'[e] = outcome
      BY <1>1, <2>5 DEF Phase
    <3>4. Phase' = [Phase EXCEPT ![e] = outcome] /\ Held' = [Held EXCEPT ![e] = {}]
      BY <1>1, <1>2, <3>2, <3>3, MappedFunctions
    <3>5. Claims!Settle(e, h, outcome)
      BY <2>1, <3>1, <3>4 DEF Claims!Settle, Phase, Held
    <3> QED
      BY <1>1, <3>5 DEF Claims!Next
  <2>6. CASE pc[h] \in Working /\ status'[e] = status[e]
    <3>1. Held[e] = {h} /\ Phase' = Phase
      <4>1. Phase'[e] = Phase[e]
        BY <1>1, <2>6 DEF Phase
      <4> QED
        BY <1>2, <2>6, <4>1, SoleHolder, MappedFunctions
    <3>2. CASE pc'[h] \in Working
      <4>1. Held' = Held
        BY <1>2, <2>3, <3>1, <3>2, MappedFunctions
      <4> QED
        BY <2>1, <3>1, <4>1 DEF Claims!vars, Phase, Held
    <3>3. CASE pc'[h] \notin Working
      <4>1. Held' = [d \in EventIds |-> Held[d] \ {h}]
        BY <1>1, <1>2, <2>3, <3>3, MappedFunctions DEF Held, HoldersOf
      <4>2. Claims!Vanish({h})
        BY <2>1, <3>1, <4>1 DEF Claims!Vanish, Phase, Held
      <4> QED
        BY <4>2 DEF Claims!Next
    <3> QED
      BY <3>2, <3>3
  <2>7. CASE pc[h] \in Claiming /\ pc'[h] # "running"
    <3>1. pc'[h] \notin Working /\ h \notin Held[e] /\ status'[e] = status[e]
      BY <1>1, <2>2, <2>7 DEF StepOutcome, Held, HoldersOf, Claiming, Working, Results
    <3>2. Held' = Held /\ Phase' = Phase
      BY <1>1, <1>2, <2>3, <3>1, MappedFunctions DEF Phase
    <3> QED
      BY <2>1, <3>2 DEF Claims!vars, Phase, Held
  <2> QED
    BY <2>2, <2>4, <2>5, <2>6, <2>7 DEF StepOutcome, Claiming
<1> QED
  BY <1>3, <1>4

(* Unless a database applies a write whose caller sees an error, the table
   with its unconditional complete and fail implements ExclusiveClaim. *)
THEOREM ClaimRefinement ==
  ASSUME ~LostReplies
  PROVE  Spec => ImplementsExclusiveClaim
<1>1. Init => Claims!Init
  BY DEF Init, Claims!Init, HoldersOf, Working
<1>2. TypeOK /\ ClaimInv /\ [Next]_vars => [Claims!Next]_(Claims!vars)
  <2> SUFFICES ASSUME TypeOK, ClaimInv, [Next]_vars PROVE [Claims!Next]_(Claims!vars)
    OBVIOUS
  <2>1. ASSUME NEW h \in Handlers, NEW b \in Body, Start(h, b) PROVE UNCHANGED Claims!vars
    BY <2>1 DEF Start, Claims!vars, HoldersOf, Id, Working, TypeOK
  <2>2. ASSUME NEW h \in Handlers, Step(h) PROVE [Claims!Next]_(Claims!vars)
    BY <2>2, StepMapped
  <2>3. ASSUME NEW h \in Handlers, Finish(h) PROVE UNCHANGED Claims!vars
    BY <2>3 DEF Finish, Claims!vars, HoldersOf, Id, Working, Results, TypeOK
  <2>4. ASSUME NEW S \in SUBSET Handlers, Die(S) PROVE Claims!Vanish(S)
    <3>1. \A e \in EventIds : HoldersOf(e)' = HoldersOf(e) \ S
      BY <2>4 DEF Die, HoldersOf, Id, Working, TypeOK
    <3> QED
      BY <2>4, <3>1 DEF Die, Claims!Vanish
  <2>5. CASE UNCHANGED vars
    BY <2>5 DEF vars, Claims!vars, HoldersOf, Id
  <2> QED
    BY <2>1, <2>2, <2>3, <2>4, <2>5 DEF Next, Claims!Next
<1> QED
  BY <1>1, <1>2, ClaimInvariant, TypeCorrect, PTL DEF Spec, ImplementsExclusiveClaim, Claims!Spec
=============================================================================
