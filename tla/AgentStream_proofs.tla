-------------------------- MODULE AgentStream_proofs --------------------------
(* Proofs about AgentStream, for every number of calls, threads and events. *)
EXTENDS AgentStream, ThreadExecutionLock_proofs, SequenceTheorems

(* Every step of a call is a step of the lock or leaves it alone. *)
LEMMA StreamStepDrivesLock ==
  ASSUME [StreamNext]_streamVars
  PROVE  [Next]_vars
<1>1. ASSUME NEW c \in Calls, NEW t \in Threads, NEW m \in Modes, Receive(c, t, m)
      PROVE  Next
  BY <1>1 DEF Receive, Next
<1>2. ASSUME NEW c \in Calls, Progress(c)
      PROVE  [Next]_vars
  BY <1>2 DEF Progress, Begin, EmitAnswer, RunReturns, Settle, Yield, Sleep, EndStream, Reply, Next
<1>3. ASSUME NEW c \in Calls, EmitProgress(c) \/ RunThrows(c) \/ HangUp(c)
      PROVE  [Next]_vars
  BY <1>3 DEF EmitProgress, RunThrows, HangUp, Next
<1>4. CASE UNCHANGED streamVars
  BY <1>4 DEF streamVars, vars
<1> QED
  BY <1>1, <1>2, <1>3, <1>4 DEF StreamNext

(* The calls of the service use the lock by its protocol: what is proved of
   the lock holds with streams, exceptions and clients that hang up. *)
THEOREM StreamsDriveLock == StreamSpec => Spec
<1>1. StreamInit => Init
  BY DEF StreamInit
<1> QED
  BY <1>1, StreamStepDrivesLock, PTL DEF StreamSpec, Spec

(* Two calls of the service never work on one conversation at once. *)
THEOREM StreamsExclude == StreamSpec => []OneCallPerThread
  BY StreamsDriveLock, CallsExclude

(* The calls of the service are served first come, first served on each
   conversation, whatever their runs and clients do. *)
THEOREM StreamsQueueUp == StreamSpec => ImplementsFifoLock
  BY StreamsDriveLock, LockRefinement

-----------------------------------------------------------------------------
(* Moving the head of a queue to what was taken from it changes nothing as a
   whole. *)
LEMMA TakeFromTheFront ==
  ASSUME NEW S, NEW u \in Seq(S), NEW v \in Seq(S), v # <<>>
  PROVE  Append(u, Head(v)) \o Tail(v) = u \o v
<1> DEFINE l == Append(u, Head(v)) \o Tail(v)
           r == u \o v
<1>1. /\ Head(v) \in S /\ Tail(v) \in Seq(S) /\ Len(Tail(v)) = Len(v) - 1
      /\ Len(u) \in Nat /\ Len(v) \in Nat \ {0}
  BY HeadTailProperties, LenProperties, EmptySeq
<1>2. Append(u, Head(v)) \in Seq(S) /\ Len(Append(u, Head(v))) = Len(u) + 1
  BY <1>1, AppendProperties
<1>3. l \in Seq(S) /\ Len(l) = Len(u) + Len(v)
  BY <1>1, <1>2, ConcatProperties
<1>4. r \in Seq(S) /\ Len(r) = Len(u) + Len(v)
  BY <1>1, ConcatProperties
<1>5. ASSUME NEW i \in 1 .. Len(l) PROVE l[i] = r[i]
  BY <1>1, <1>2, <1>3, <1>4
<1> QED
  BY <1>3, <1>4, <1>5, SeqEqual

-----------------------------------------------------------------------------
(* What holds of each call between two turns of the event loop.  Beyond
   StreamsAreWhole: only a stream queues events, the response is over after the
   run's promise is settled, and that after the run has ended. *)
Consistent(r) ==
  /\ r.mode = "sse" => r.emitted = r.written \o r.events
  /\ r.mode # "sse" => r.events = <<>>
  /\ r.generator = "asleep" => r.wake /\ r.events = <<>> /\ ~r.complete
  /\ r.reply \in {"ended", "failed"} => r.complete /\ r.events = <<>>
  /\ r.reply = "ended" => r.outcome = "returned"
  /\ r.complete => r.outcome # "none"
  /\ r.outcome = "returned" => \E i \in DOMAIN r.emitted : r.emitted[i] = Answer

(* A run that has ended has left the lock, and never comes back. *)
StreamInv ==
  /\ call \in [Calls -> Call]
  /\ \A c \in Calls : Consistent(call[c])
  /\ \A c \in Calls : call[c].outcome # "none" => phase[c] = "idle"

LEMMA FreshIsConsistent ==
  ASSUME NEW m \in Modes \cup {"none"}
  PROVE  Fresh(m) \in Call /\ Consistent(Fresh(m)) /\ Fresh(m).outcome = "none"
<1>1. <<>> \in Seq(Events) /\ <<>> \o <<>> = <<>>
  BY EmptySeq, ConcatEmptySeq
<1> QED
  BY <1>1 DEF Fresh, Call, Modes, Consistent

(* What the sink does with an event of a run that goes on. *)
LEMMA SinkIsConsistent ==
  ASSUME NEW r \in Call, Consistent(r), r.outcome = "none", NEW e \in Events
  PROVE  Sink(r, e) \in Call /\ Consistent(Sink(r, e)) /\ Sink(r, e).outcome = "none"
<1>1. /\ r.emitted \in Seq(Events) /\ r.events \in Seq(Events) /\ r.written \in Seq(Events)
      /\ ~r.complete
  BY DEF Call, Consistent
<1>2. Append(r.emitted, e) \in Seq(Events) /\ Append(r.events, e) \in Seq(Events)
  BY <1>1, AppendProperties
<1>3. CASE r.mode # "sse"
  BY <1>1, <1>2, <1>3 DEF Sink, Call, Consistent
<1>4. CASE r.mode = "sse"
  <2>1. Append(r.emitted, e) = r.written \o Append(r.events, e)
    <3> DEFINE one == <<e>>
               u == r.written
               v == r.events
               w == r.emitted
    <3>1. /\ one \in Seq(Events) /\ u \in Seq(Events) /\ v \in Seq(Events) /\ w \in Seq(Events)
      BY <1>1
    <3>2. w = u \o v
      BY <1>4 DEF Consistent
    <3>3. Append(w, e) = w \o one /\ Append(v, e) = v \o one
      BY <3>1, AppendIsConcat
    <3> HIDE DEF one, u, v, w
    <3>4. (u \o v) \o one = u \o (v \o one)
      BY <3>1, ConcatAssociative
    <3> QED
      BY <3>2, <3>3, <3>4 DEF u, v, w
  <2> DEFINE w == Awakened(r)
             s == Sink(r, e)
  <2>2. /\ w \in Call /\ w.generator # "asleep"
        /\ \A f \in {"mode", "emitted", "events", "written", "outcome", "complete", "reply"} :
             w[f] = r[f]
    BY DEF Awakened, Call, Consistent
  <2>3. s = [w EXCEPT !.emitted = Append(r.emitted, e), !.events = Append(r.events, e),
                      !.wake = FALSE]
    BY <1>4, <2>2 DEF Sink
  <2> HIDE DEF w, s
  <2>4. /\ s \in Call /\ s.generator # "asleep"
        /\ s.emitted = Append(r.emitted, e) /\ s.events = Append(r.events, e)
        /\ s.mode = r.mode /\ s.written = r.written /\ s.outcome = r.outcome
        /\ s.complete = r.complete /\ s.reply = r.reply
    BY <1>2, <2>2, <2>3 DEF Call
  <2> QED
    BY <1>1, <1>4, <2>1, <2>4 DEF s, Consistent
<1> QED
  BY <1>3, <1>4

(* The oldest event goes from the queue to the client. *)
LEMMA YieldIsConsistent ==
  ASSUME NEW r \in Call, Consistent(r), r.generator = "running", r.events # <<>>,
         NEW s, s = [r EXCEPT !.written = Append(@, Head(r.events)), !.events = Tail(@)]
  PROVE  s \in Call /\ Consistent(s) /\ s.outcome = r.outcome
<1>1. r.events \in Seq(Events) /\ r.written \in Seq(Events)
  BY DEF Call
<1>2. /\ Head(r.events) \in Events /\ Tail(r.events) \in Seq(Events)
  BY <1>1, HeadTailProperties
<1>3. Append(r.written, Head(r.events)) \in Seq(Events)
  BY <1>1, <1>2, AppendProperties
<1>4. Append(r.written, Head(r.events)) \o Tail(r.events) = r.written \o r.events
  BY <1>1, TakeFromTheFront
<1>5. /\ s \in Call
      /\ s.written = Append(r.written, Head(r.events)) /\ s.events = Tail(r.events)
      /\ s.mode = r.mode /\ s.emitted = r.emitted /\ s.generator = r.generator
      /\ s.outcome = r.outcome /\ s.complete = r.complete /\ s.reply = r.reply
  BY <1>2, <1>3 DEF Call
<1>6. r.mode = "sse" /\ r.reply \notin {"ended", "failed"}
  BY DEF Consistent
<1> QED
  BY <1>4, <1>5, <1>6 DEF Consistent

(* The changes of a call that touch neither events nor run. *)
LEMMA OthersAreConsistent ==
  ASSUME NEW r \in Call, Consistent(r)
  PROVE  /\ r.outcome # "none" =>
              LET s == [Awakened(r) EXCEPT !.complete = TRUE] IN
              s \in Call /\ Consistent(s) /\ s.outcome = r.outcome
         /\ r.events = <<>> /\ ~r.complete =>
              LET s == [r EXCEPT !.generator = "asleep", !.wake = TRUE] IN
              s \in Call /\ Consistent(s) /\ s.outcome = r.outcome
         /\ r.events = <<>> /\ r.complete =>
              LET s == Over(r) IN
              s \in Call /\ Consistent(s) /\ s.outcome = r.outcome
         /\ LET s == [r EXCEPT !.connected = FALSE] IN
              s \in Call /\ Consistent(s) /\ s.outcome = r.outcome
  BY DEF Call, Consistent, Awakened, Over

(* One call changes consistently, the others and their runs do not. *)
LEMMA ChangeOfOne ==
  ASSUME StreamInv, NEW c \in Calls, NEW r \in Call, Consistent(r), Set(c, r),
         r.outcome # "none" => phase'[c] = "idle",
         \A d \in Calls \ {c} : phase'[d] = phase[d]
  PROVE  StreamInv'
  BY DEF StreamInv, Set

(* StreamInv is inductive. *)
LEMMA StreamStep ==
  ASSUME TypeOK, StreamInv, [StreamNext]_streamVars
  PROVE  StreamInv'
<1> USE DEF StreamInv
<1>1. ASSUME NEW c \in Calls, NEW t \in Threads, NEW m \in Modes, Receive(c, t, m)
      PROVE  StreamInv'
  BY <1>1, FreshIsConsistent, ChangeOfOne DEF Receive, Run, TypeOK
<1>2. ASSUME NEW c \in Calls, Begin(c) PROVE StreamInv'
  BY <1>2 DEF Begin, Work, TypeOK
<1>3. ASSUME NEW c \in Calls, NEW e \in Events, phase[c] = "working", UNCHANGED vars,
             Set(c, Sink(call[c], e))
      PROVE  StreamInv'
  <2>1. call[c] \in Call /\ call[c].outcome = "none"
    BY <1>3
  <2> QED
    BY <1>3, <2>1, SinkIsConsistent, ChangeOfOne DEF vars
<1>4. ASSUME NEW c \in Calls, EmitProgress(c) PROVE StreamInv'
  <2>1. Len(call[c].emitted) \in Nat
    BY LenProperties DEF Call
  <2>2. Len(call[c].emitted) + 1 \in Events
    BY <1>4, <2>1, MaxEventsAssumption DEF EmitProgress, Events
  <2> QED
    BY <1>3, <1>4, <2>2 DEF EmitProgress
<1>5. ASSUME NEW c \in Calls, EmitAnswer(c) PROVE StreamInv'
  BY <1>3, <1>5, MaxEventsAssumption DEF EmitAnswer, Events, Answer
<1>6. ASSUME NEW c \in Calls, NEW o \in {"returned", "threw"}, Release(c),
             Set(c, [call[c] EXCEPT !.outcome = o]),
             o = "returned" => Answered(c)
      PROVE  StreamInv'
  <2>1. call[c] \in Call /\ Consistent(call[c]) /\ call[c].outcome = "none"
    BY <1>6 DEF Release, Leave
  <2>2. /\ [call[c] EXCEPT !.outcome = o] \in Call
        /\ Consistent([call[c] EXCEPT !.outcome = o])
    BY <1>6, <2>1 DEF Call, Consistent, Answered
  <2> QED
    BY <1>6, <2>2, ChangeOfOne DEF Release, Leave, TypeOK
<1>7. ASSUME NEW c \in Calls, RunReturns(c) \/ RunThrows(c) PROVE StreamInv'
  BY <1>6, <1>7 DEF RunReturns, RunThrows
<1>8. ASSUME NEW c \in Calls, Yield(c) PROVE StreamInv'
  <2> DEFINE s == [call[c] EXCEPT !.written = Append(@, Head(call[c].events)),
                                  !.events  = Tail(@)]
  <2>1. call[c] \in Call /\ call[c].generator = "running" /\ call[c].events # <<>>
    BY <1>8 DEF Yield
  <2>2. Set(c, s) /\ UNCHANGED phase
    BY <1>8 DEF Yield, vars
  <2> HIDE DEF s
  <2>3. s \in Call /\ Consistent(s) /\ s.outcome = call[c].outcome
    BY <2>1, YieldIsConsistent DEF s
  <2> QED
    BY <2>2, <2>3, ChangeOfOne
<1>9. ASSUME NEW c \in Calls, Settle(c) \/ Sleep(c) \/ EndStream(c) \/ HangUp(c)
      PROVE  StreamInv'
  <2>1. PICK s : Set(c, s) /\ s \in Call /\ Consistent(s) /\ s.outcome = call[c].outcome
    <3>1. call[c] \in Call /\ Consistent(call[c])
      OBVIOUS
    <3>2. CASE Settle(c)
      BY <3>1, <3>2, OthersAreConsistent DEF Settle
    <3>3. CASE Sleep(c)
      BY <3>1, <3>3, OthersAreConsistent DEF Sleep
    <3>4. CASE EndStream(c)
      BY <3>1, <3>4, OthersAreConsistent DEF EndStream
    <3>5. CASE HangUp(c)
      BY <3>1, <3>5, OthersAreConsistent DEF HangUp
    <3> QED
      BY <1>9, <3>2, <3>3, <3>4, <3>5
  <2>2. UNCHANGED phase
    BY <1>9 DEF Settle, Sleep, EndStream, HangUp, vars
  <2> QED
    BY <2>1, <2>2, ChangeOfOne
<1>10. ASSUME NEW c \in Calls, Reply(c) PROVE StreamInv'
  <2>1. call[c].events = <<>>
    BY <1>10 DEF Reply, Consistent
  <2> QED
    BY <1>10, <2>1, OthersAreConsistent, ChangeOfOne DEF Reply, vars
<1>11. CASE UNCHANGED streamVars
  BY <1>11 DEF streamVars
<1> QED
  BY <1>1, <1>2, <1>4, <1>5, <1>7, <1>8, <1>9, <1>10, <1>11 DEF StreamNext, Progress

(* Every reachable state is consistent. *)
LEMMA StreamInvariant == StreamSpec => []StreamInv
<1>1. StreamInit => StreamInv
  BY FreshIsConsistent DEF StreamInit, StreamInv
<1>2. StreamSpec => []TypeOK
  BY StreamsDriveLock, LockTypeCorrect
<1> QED
  BY <1>1, <1>2, StreamStep, PTL DEF StreamSpec

(* Clients of a stream get every event once and in order, and the generator
   never sleeps on a queued event or a finished run. *)
THEOREM WholeStreams == StreamSpec => []StreamsAreWhole
<1>1. StreamInv => StreamsAreWhole
  BY DEF StreamInv, StreamsAreWhole, Consistent, Answered
<1> QED
  BY <1>1, StreamInvariant, PTL

-----------------------------------------------------------------------------
(* What keeps a call alive until it is answered, beyond StreamInv: its run
   holds or awaits the lock until it ends, the generator of a stream exists
   until the stream does not, and a run emits at most MaxEvents progress events
   and one answer. *)
RunInv ==
  \A c \in Calls :
    LET r == call[c] IN
    /\ r.mode \in Modes /\ r.outcome = "none" => phase[c] # "idle"
    /\ r.mode = "sse" /\ r.reply = "open" => r.generator # "off"
    /\ r.mode = "none" => /\ phase[c] = "idle" /\ r.outcome = "none" /\ r.generator = "off"
                          /\ r.reply = "none" /\ ~r.connected
    /\ Len(r.emitted) <= MaxEvents + 1
    /\ ~Answered(c) => Len(r.emitted) <= MaxEvents

(* What the steps of a run and of its clients do to the rest. *)
LEMMA FieldsOfSink ==
  ASSUME NEW r \in Call, NEW e \in Events
  PROVE  LET s == Sink(r, e) IN
         /\ s.emitted = Append(r.emitted, e)
         /\ s.mode = r.mode /\ s.outcome = r.outcome /\ s.complete = r.complete
         /\ s.reply = r.reply /\ s.connected = r.connected
         /\ \/ s.events = r.events /\ s.generator = r.generator
            \/ s.events = Append(r.events, e) /\ s.generator \in {r.generator, "running"}
  BY DEF Sink, Awakened, Call

LEMMA LastOfAppend ==
  ASSUME NEW S, NEW s \in Seq(S), NEW e \in S
  PROVE  /\ Len(s) \in Nat /\ Len(Append(s, e)) = Len(s) + 1
         /\ \A i \in DOMAIN s : i \in DOMAIN Append(s, e) /\ Append(s, e)[i] = s[i]
         /\ \E i \in DOMAIN Append(s, e) : Append(s, e)[i] = e
  BY LenProperties, AppendProperties

(* RunInv is inductive. *)
LEMMA RunStep ==
  ASSUME TypeOK, StreamInv, RunInv, [StreamNext]_streamVars
  PROVE  RunInv'
<1>0. call \in [Calls -> Call]
  BY DEF StreamInv
<1>1. ASSUME NEW c \in Calls, NEW r \in Call, Set(c, r),
             \A d \in Calls \ {c} : phase'[d] = phase[d],
             r.mode \in Modes /\ r.outcome = "none" => phase'[c] # "idle",
             r.mode = "sse" /\ r.reply = "open" => r.generator # "off",
             r.mode # "none",
             Len(r.emitted) <= MaxEvents + 1,
             (\A i \in DOMAIN r.emitted : r.emitted[i] # Answer) => Len(r.emitted) <= MaxEvents
      PROVE  RunInv'
  BY <1>0, <1>1 DEF RunInv, Set, Answered
<1>2. ASSUME NEW c \in Calls, NEW t \in Threads, NEW m \in Modes, Receive(c, t, m)
      PROVE  RunInv'
  <2>1. Fresh(m) \in Call /\ Set(c, Fresh(m)) /\ Len(Fresh(m).emitted) = 0
    BY <1>2, FreshIsConsistent DEF Receive, Fresh
  <2>2. \A d \in Calls \ {c} : phase'[d] = phase[d]
    BY <1>2 DEF Receive, Run, TypeOK
  <2>3. phase'[c] = "waiting"
    BY <1>2 DEF Receive, Run, TypeOK
  <2>4. Fresh(m).mode = m /\ m # "none" /\ (m = "sse" => Fresh(m).generator # "off")
    BY DEF Fresh, Modes
  <2> QED
    BY <1>1, <2>1, <2>2, <2>3, <2>4, MaxEventsAssumption DEF Modes
<1>3. ASSUME NEW c \in Calls, Begin(c) PROVE RunInv'
  BY <1>3 DEF Begin, Work, TypeOK, RunInv, Answered
<1>4. ASSUME NEW c \in Calls, NEW e \in Events, phase[c] = "working", UNCHANGED vars, ~Answered(c),
             e # Answer => Len(call[c].emitted) < MaxEvents,
             Set(c, Sink(call[c], e))
      PROVE  RunInv'
  <2>1. call[c] \in Call /\ call[c].outcome = "none" /\ Consistent(call[c])
    BY <1>4 DEF StreamInv
  <2>2. Sink(call[c], e) \in Call
    BY <2>1, SinkIsConsistent
  <2>3. call[c].emitted \in Seq(Events) /\ Len(call[c].emitted) <= MaxEvents
    BY <1>4, <2>1 DEF Call, RunInv
  <2>4. PICK s : s = Sink(call[c], e)
    OBVIOUS
  <2>5. /\ s.emitted = Append(call[c].emitted, e)
        /\ s.mode = call[c].mode /\ s.reply = call[c].reply
        /\ s.generator \in {call[c].generator, "running"}
    BY <2>1, <2>4, FieldsOfSink
  <2>6. Len(s.emitted) = Len(call[c].emitted) + 1 /\ Len(call[c].emitted) \in Nat
    BY <2>3, <2>5, LastOfAppend
  <2>7. e = Answer => \E i \in DOMAIN s.emitted : s.emitted[i] = Answer
    BY <2>3, <2>5, LastOfAppend
  <2>8. e # Answer => Len(s.emitted) <= MaxEvents
    BY <1>4, <2>6, MaxEventsAssumption
  <2> QED
    BY <1>1, <1>4, <2>1, <2>2, <2>3, <2>4, <2>5, <2>6, <2>7, <2>8, MaxEventsAssumption DEF RunInv, vars
<1>5. ASSUME NEW c \in Calls, EmitProgress(c) PROVE RunInv'
  <2>1. Len(call[c].emitted) \in Nat
    BY <1>0, LenProperties DEF Call
  <2>2. Len(call[c].emitted) + 1 \in Events
    BY <1>5, <2>1, MaxEventsAssumption DEF EmitProgress, Events
  <2> QED
    BY <1>4, <1>5, <2>2 DEF EmitProgress
<1>6. ASSUME NEW c \in Calls, EmitAnswer(c) PROVE RunInv'
  BY <1>4, <1>6, MaxEventsAssumption DEF EmitAnswer, Events, Answer
<1>7. ASSUME NEW c \in Calls, NEW r \in Call, Set(c, r), \A d \in Calls \ {c} : phase'[d] = phase[d],
             r.emitted = call[c].emitted, r.mode = call[c].mode,
             \/ phase'[c] = phase[c] /\ r.outcome = call[c].outcome
             \/ r.outcome # "none",
             r.mode # "none", r.reply \in {call[c].reply, "ended", "failed"},
             r.reply = "open" => r.generator = call[c].generator \/ r.generator # "off"
      PROVE  RunInv'
  <2>1. ~Answered(c) <=> \A i \in DOMAIN r.emitted : r.emitted[i] # Answer
    BY <1>7 DEF Answered
  <2> QED
    BY <1>1, <1>7, <2>1 DEF RunInv
<1>8. ASSUME NEW c \in Calls, RunReturns(c) \/ RunThrows(c) PROVE RunInv'
  <2>1. PICK o \in {"returned", "threw"} : Set(c, [call[c] EXCEPT !.outcome = o]) /\ Release(c)
    BY <1>8 DEF RunReturns, RunThrows
  <2>2. \A d \in Calls \ {c} : phase'[d] = phase[d]
    BY <2>1 DEF Release, Leave, TypeOK
  <2>3. PICK s : s = [call[c] EXCEPT !.outcome = o]
    OBVIOUS
  <2>4. /\ s \in Call /\ s.outcome = o /\ s.emitted = call[c].emitted /\ s.mode = call[c].mode
        /\ s.reply = call[c].reply /\ s.generator = call[c].generator /\ s.mode # "none"
    BY <1>0, <2>1, <2>3 DEF Call, RunInv, Release, Leave
  <2> QED
    BY <1>7, <2>1, <2>2, <2>3, <2>4
<1>9. ASSUME NEW c \in Calls,
             \/ Settle(c) \/ Yield(c) \/ Sleep(c) \/ EndStream(c) \/ Reply(c) \/ HangUp(c)
      PROVE  RunInv'
  <2>1. UNCHANGED vars /\ call[c] \in Call /\ Consistent(call[c])
    BY <1>9 DEF Settle, Yield, Sleep, EndStream, Reply, HangUp, StreamInv
  <2>2. call[c].mode # "none"
    BY <1>9 DEF Settle, Yield, Sleep, EndStream, Reply, HangUp, RunInv
  <2>3. PICK s : s = call'[c]
    OBVIOUS
  <2>4. /\ Set(c, s) /\ s \in Call
        /\ s.emitted = call[c].emitted /\ s.mode = call[c].mode /\ s.outcome = call[c].outcome
        /\ s.reply \in {call[c].reply, "ended", "failed"}
        /\ s.reply = "open" => s.generator = call[c].generator \/ s.generator # "off"
    <3>1. CASE Settle(c)
      BY <1>0, <2>1, <2>3, <3>1 DEF Settle, Awakened, Call, Set
    <3>2. CASE Yield(c)
      <4>1. /\ s = [call[c] EXCEPT !.written = Append(@, Head(call[c].events)), !.events = Tail(@)]
            /\ Set(c, s) /\ call[c].generator = "running" /\ call[c].events # <<>>
        BY <1>0, <2>3, <3>2 DEF Yield, Set
      <4>2. s \in Call
        BY <2>1, <4>1, YieldIsConsistent
      <4> QED
        BY <2>1, <4>1, <4>2 DEF Call
    <3>3. CASE Sleep(c)
      BY <1>0, <2>1, <2>3, <3>3 DEF Sleep, Call, Set
    <3>4. CASE EndStream(c)
      BY <1>0, <2>1, <2>3, <3>4 DEF EndStream, Over, Call, Set
    <3>5. CASE Reply(c)
      BY <1>0, <2>1, <2>3, <3>5 DEF Reply, Over, Call, Set
    <3>6. CASE HangUp(c)
      BY <1>0, <2>1, <2>3, <3>6 DEF HangUp, Call, Set
    <3> QED
      BY <1>9, <3>1, <3>2, <3>3, <3>4, <3>5, <3>6
  <2> QED
    BY <1>7, <2>1, <2>2, <2>4 DEF vars
<1>10. CASE UNCHANGED streamVars
  BY <1>10 DEF streamVars, RunInv, Answered
<1> QED
  BY <1>2, <1>3, <1>5, <1>6, <1>8, <1>9, <1>10 DEF StreamNext, Progress

LEMMA RunInvariant == StreamSpec => []RunInv
<1>1. StreamInit => RunInv
  <2> SUFFICES ASSUME StreamInit PROVE RunInv
    OBVIOUS
  <2>1. ASSUME NEW c \in Calls
        PROVE  /\ phase[c] = "idle" /\ call[c].mode = "none" /\ call[c].outcome = "none"
               /\ call[c].generator = "off" /\ call[c].reply = "none" /\ ~call[c].connected
               /\ Len(call[c].emitted) = 0
    BY DEF StreamInit, Init, Fresh
  <2>2. "none" \notin Modes
    BY DEF Modes
  <2> QED
    BY <2>1, <2>2, MaxEventsAssumption DEF RunInv
<1>2. StreamSpec => []TypeOK
  BY StreamsDriveLock, LockTypeCorrect
<1> QED
  BY <1>1, <1>2, RunStep, StreamInvariant, PTL DEF StreamSpec

(* Whoever is owed an answer can go on, or waits in a line whose first call
   can. *)
LEMMA SomebodyGoesOn ==
  ASSUME TypeOK, NobodyWaitsInVain, StreamInv, RunInv
  PROVE  NobodyIsStuck
<1> SUFFICES ASSUME NEW c \in Calls, call[c].reply = "open"
             PROVE  \E d \in ahead[c] \cup {c} : CanGoOn(d)
  BY DEF NobodyIsStuck
<1>1. /\ call[c] \in Call /\ Consistent(call[c])
      /\ call[c].mode \in Modes
      /\ call[c].outcome = "none" => phase[c] # "idle"
      /\ call[c].mode = "sse" => call[c].generator # "off"
  BY DEF StreamInv, RunInv, Call
<1>2. CASE call[c].complete
  <2>1. CASE call[c].mode = "sse"
    BY <1>1, <1>2, <2>1 DEF Call, Consistent, CanGoOn
  <2>2. CASE call[c].mode # "sse"
    BY <1>1, <1>2, <2>2 DEF Modes, CanGoOn
  <2> QED
    BY <2>1, <2>2
<1>3. CASE ~call[c].complete /\ call[c].outcome # "none"
  BY <1>3 DEF CanGoOn
<1>4. CASE call[c].outcome = "none"
  <2>1. CASE phase[c] = "waiting"
    BY <2>1 DEF NobodyWaitsInVain, CanGoOn
  <2>2. CASE phase[c] # "waiting"
    BY <1>1, <1>4, <2>2 DEF CanGoOn, TypeOK
  <2> QED
    BY <2>1, <2>2
<1> QED
  BY <1>2, <1>3, <1>4

(* No call is ever stuck, however calls, turns of the event loop and errors
   interleave. *)
THEOREM NoCallIsStuck ==
  ASSUME IsFiniteSet(Calls)
  PROVE  StreamSpec => []NobodyIsStuck
<1>1. StreamSpec => []NobodyWaitsInVain
  BY StreamsDriveLock, NoDeadlock
<1>2. StreamSpec => []TypeOK
  BY StreamsDriveLock, LockTypeCorrect
<1> QED
  BY <1>1, <1>2, SomebodyGoesOn, StreamInvariant, RunInvariant, PTL

-----------------------------------------------------------------------------
(* No step of a call changes the state or the phase of another one. *)
LEMMA OneAtATime ==
  ASSUME TypeOK, StreamInv, NEW c \in Calls, NEW d \in Calls, c # d,
         \/ \E t \in Threads, m \in Modes : Receive(d, t, m)
         \/ Progress(d) \/ EmitProgress(d) \/ RunThrows(d) \/ HangUp(d)
  PROVE  call'[c] = call[c] /\ phase'[c] = phase[c]
<1>1. ASSUME NEW s, Set(d, s) PROVE call'[c] = call[c]
  BY <1>1 DEF Set, StreamInv
<1>2. ASSUME NEW t \in Threads, NEW m \in Modes, Receive(d, t, m)
      PROVE  call'[c] = call[c] /\ phase'[c] = phase[c]
  BY <1>1, <1>2 DEF Receive, Run, TypeOK
<1>3. CASE Begin(d)
  BY <1>3 DEF Begin, Work, TypeOK
<1>4. CASE RunReturns(d) \/ RunThrows(d)
  BY <1>1, <1>4 DEF RunReturns, RunThrows, Release, Leave, TypeOK
<1>5. CASE EmitAnswer(d) \/ EmitProgress(d)
  BY <1>1, <1>5 DEF EmitAnswer, EmitProgress, vars
<1>6. CASE Settle(d) \/ Yield(d) \/ Sleep(d) \/ EndStream(d) \/ Reply(d) \/ HangUp(d)
  BY <1>1, <1>6 DEF Settle, Yield, Sleep, EndStream, Reply, HangUp, vars
<1> QED
  BY <1>2, <1>3, <1>4, <1>5, <1>6 DEF Progress

(* The rank of a call in phase p with e events emitted and l queued. *)
RankOf(e, l, p, r) ==
  4 * (MaxEvents + 1 - e) + 2 * l
    + Due(p = "waiting") + Due(r.outcome = "none") + 2 * Due(~r.complete)
    + Due(r.generator = "running") + Due(r.reply = "open") + Due(r.connected)

LEMMA RankOfIsNatural ==
  ASSUME NEW e \in Nat, NEW l \in Nat, e <= MaxEvents + 1, NEW p, NEW r
  PROVE  RankOf(e, l, p, r) \in Nat
<1>1. \A b : Due(b) \in {0, 1}
  BY DEF Due
<1>2. PICK x \in {0, 1}, y \in {0, 1}, z \in {0, 1}, u \in {0, 1}, v \in {0, 1}, w \in {0, 1} :
        RankOf(e, l, p, r) = 4 * (MaxEvents + 1 - e) + 2 * l + x + y + 2 * z + u + v + w
  BY <1>1 DEF RankOf
<1> QED
  BY <1>2, MaxEventsAssumption

LEMMA RankIsNatural ==
  ASSUME StreamInv, RunInv, NEW c \in Calls
  PROVE  /\ Rank(c) \in Nat
         /\ Len(call[c].emitted) \in Nat /\ Len(call[c].events) \in Nat
<1>1. PICK e, l : e = Len(call[c].emitted) /\ l = Len(call[c].events)
  OBVIOUS
<1>2. e \in Nat /\ l \in Nat /\ e <= MaxEvents + 1
  BY <1>1, LenProperties DEF StreamInv, Call, RunInv
<1>3. Rank(c) = RankOf(e, l, phase[c], call[c])
  BY <1>1 DEF Rank, RankOf
<1> QED
  BY <1>1, <1>2, <1>3, RankOfIsNatural

(* Each step of a received call lowers its rank. *)
LEMMA RankFalls ==
  ASSUME TypeOK, StreamInv, RunInv, [StreamNext]_streamVars,
         NEW c \in Calls, call[c].mode # "none", <<call[c], phase[c]>>' # <<call[c], phase[c]>>
  PROVE  Rank(c)' < Rank(c)
<1>1. PICK r, s, p, q : r = call[c] /\ s = call'[c] /\ p = phase[c] /\ q = phase'[c]
  OBVIOUS
<1>2. r \in Call /\ \A x : Set(c, x) => s = x
  BY <1>1 DEF StreamInv, Set
<1>3. PICK e1, l1, e2, l2 : /\ e1 = Len(r.emitted) /\ l1 = Len(r.events)
                           /\ e2 = Len(s.emitted) /\ l2 = Len(s.events)
  OBVIOUS
<1>4. (s.emitted = r.emitted => e2 = e1) /\ (s.events = r.events => l2 = l1)
  BY <1>3
<1>5. e1 \in Nat /\ l1 \in Nat /\ MaxEvents \in Nat
  BY <1>1, <1>3, RankIsNatural, MaxEventsAssumption
<1>6. Rank(c) = RankOf(e1, l1, p, r) /\ Rank(c)' = RankOf(e2, l2, q, s)
  BY <1>1, <1>3 DEF Rank, RankOf
<1>7. CASE Begin(c)
  <2>1. s = r /\ p = "waiting" /\ q = "working"
    BY <1>1, <1>7 DEF Begin, Work, TypeOK
  <2> QED
    BY <1>4, <1>5, <1>6, <2>1 DEF RankOf, Due
<1>8. ASSUME NEW e \in Events, q = p, Set(c, Sink(r, e))
      PROVE  Rank(c)' < Rank(c)
  <2>0. /\ s.outcome = r.outcome /\ s.complete = r.complete
        /\ s.reply = r.reply /\ s.connected = r.connected
    BY <1>2, <1>8, FieldsOfSink
  <2>1. /\ s.emitted = Append(r.emitted, e)
        /\ \/ s.events = r.events /\ s.generator = r.generator
           \/ s.events = Append(r.events, e)
    BY <1>2, <1>8, FieldsOfSink
  <2>2. r.emitted \in Seq(Events) /\ r.events \in Seq(Events)
    BY <1>2 DEF Call
  <2>3. /\ Len(Append(r.emitted, e)) = Len(r.emitted) + 1
        /\ Len(Append(r.events, e)) = Len(r.events) + 1
    BY <2>2, LastOfAppend
  <2>4. e2 = e1 + 1 /\ ((l2 = l1 /\ s.generator = r.generator) \/ l2 = l1 + 1)
    BY <1>3, <2>1, <2>3
  <2> QED
    BY <1>5, <1>6, <1>8, <2>0, <2>4 DEF RankOf, Due
<1>9. CASE EmitProgress(c)
  <2>1. e1 + 1 \in Events /\ Set(c, Sink(r, e1 + 1)) /\ q = p
    BY <1>1, <1>3, <1>5, <1>9 DEF EmitProgress, Events, vars
  <2> QED
    BY <1>8, <2>1
<1>10. CASE EmitAnswer(c)
  BY <1>1, <1>5, <1>8, <1>10 DEF EmitAnswer, Events, Answer, vars
<1>11. CASE RunReturns(c) \/ RunThrows(c)
  <2>1. PICK o \in {"returned", "threw"} : Set(c, [r EXCEPT !.outcome = o]) /\ Release(c)
    BY <1>1, <1>11 DEF RunReturns, RunThrows
  <2>2. p = "working" /\ q = "idle" /\ r.outcome = "none" /\ s = [r EXCEPT !.outcome = o]
    BY <1>1, <1>2, <2>1 DEF Release, Leave, TypeOK, StreamInv
  <2>3. /\ s.emitted = r.emitted /\ s.events = r.events /\ s.outcome # "none"
        /\ s.complete = r.complete /\ s.generator = r.generator /\ s.reply = r.reply
        /\ s.connected = r.connected
    BY <1>2, <2>2 DEF Call
  <2> QED
    BY <1>4, <1>5, <1>6, <2>2, <2>3 DEF RankOf, Due
<1>12. CASE Settle(c)
  <2>1. q = p /\ ~r.complete /\ s = [Awakened(r) EXCEPT !.complete = TRUE]
    BY <1>1, <1>2, <1>12 DEF Settle, vars
  <2>2. /\ s.emitted = r.emitted /\ s.events = r.events /\ s.outcome = r.outcome
        /\ s.complete /\ s.reply = r.reply /\ s.connected = r.connected
    BY <1>2, <2>1 DEF Call, Awakened
  <2> QED
    BY <1>4, <1>5, <1>6, <2>1, <2>2 DEF RankOf, Due
<1>13. CASE Yield(c)
  <2>0. q = p
    BY <1>1, <1>13 DEF Yield, vars
  <2>1. /\ r.events # <<>>
        /\ s = [r EXCEPT !.written = Append(@, Head(r.events)), !.events = Tail(@)]
    BY <1>1, <1>2, <1>13 DEF Yield
  <2>2. s.emitted = r.emitted /\ s.events = Tail(r.events)
    BY <1>2, <2>1 DEF Call
  <2>4. /\ s.outcome = r.outcome /\ s.complete = r.complete /\ s.generator = r.generator
        /\ s.reply = r.reply /\ s.connected = r.connected
    BY <1>2, <2>1 DEF Call
  <2>3. l2 = l1 - 1
    <3>1. r.events \in Seq(Events)
      BY <1>2 DEF Call
    <3>2. Len(Tail(r.events)) = Len(r.events) - 1
      BY <2>1, <3>1, HeadTailProperties
    <3> QED
      BY <1>3, <2>2, <3>2
  <2>5. e2 = e1
    BY <1>4, <2>2
  <2> QED
    BY <1>5, <1>6, <2>0, <2>3, <2>4, <2>5 DEF RankOf, Due
<1>14. CASE Sleep(c)
  <2>1. /\ q = p /\ r.generator = "running"
        /\ s = [r EXCEPT !.generator = "asleep", !.wake = TRUE]
    BY <1>1, <1>2, <1>14 DEF Sleep, vars
  <2>2. /\ s.emitted = r.emitted /\ s.events = r.events /\ s.outcome = r.outcome
        /\ s.complete = r.complete /\ s.generator = "asleep" /\ s.reply = r.reply
        /\ s.connected = r.connected
    BY <1>2, <2>1 DEF Call
  <2> QED
    BY <1>4, <1>5, <1>6, <2>1, <2>2 DEF RankOf, Due
<1>15. CASE EndStream(c) \/ Reply(c)
  <2>1. q = p /\ s = Over(r) /\ (r.reply = "open" \/ r.generator = "running")
    BY <1>1, <1>2, <1>15 DEF EndStream, Reply, vars
  <2>2. /\ s.emitted = r.emitted /\ s.events = r.events /\ s.outcome = r.outcome
        /\ s.complete = r.complete /\ s.generator = "off" /\ s.reply # "open"
        /\ ~s.connected
    BY <1>2, <2>1 DEF Call, Over
  <2> QED
    BY <1>4, <1>5, <1>6, <2>1, <2>2 DEF RankOf, Due
<1>16. CASE HangUp(c)
  <2>1. q = p /\ r.connected /\ s = [r EXCEPT !.connected = FALSE]
    BY <1>1, <1>2, <1>16 DEF HangUp, vars
  <2>2. /\ s.emitted = r.emitted /\ s.events = r.events /\ s.outcome = r.outcome
        /\ s.complete = r.complete /\ s.generator = r.generator /\ s.reply = r.reply
        /\ ~s.connected
    BY <1>2, <2>1 DEF Call
  <2> QED
    BY <1>4, <1>5, <1>6, <2>1, <2>2 DEF RankOf, Due
<1>17. ASSUME NEW t \in Threads, NEW m \in Modes, Receive(c, t, m) PROVE FALSE
  BY <1>17 DEF Receive
<1>18. ~UNCHANGED streamVars
  BY DEF streamVars
<1> QED
  BY <1>7, <1>9, <1>10, <1>11, <1>12, <1>13, <1>14, <1>15, <1>16, <1>17, <1>18, OneAtATime
  DEF StreamNext, Progress

(* The steps of a call come to an end: each lowers a natural number that no
   other call raises.  With NoCallIsStuck, an unanswered call is answered when
   those that can go on do. *)
THEOREM CallsEnd == StreamSpec => CallsWindDown
<1>1. /\ TypeOK /\ StreamInv /\ RunInv /\ StreamInv' /\ RunInv' /\ [StreamNext]_streamVars
      => [\A c \in Calls :
            call[c].mode # "none" /\ <<call[c], phase[c]>>' # <<call[c], phase[c]>>
              => Rank(c)' \in Nat /\ Rank(c)' < Rank(c)]_streamVars
  <2> SUFFICES ASSUME TypeOK, StreamInv, RunInv, StreamInv', RunInv', [StreamNext]_streamVars,
                      NEW c \in Calls, call[c].mode # "none",
                      <<call[c], phase[c]>>' # <<call[c], phase[c]>>
               PROVE  Rank(c)' \in Nat /\ Rank(c)' < Rank(c)
    OBVIOUS
  <2>1. Rank(c)' < Rank(c)
    BY RankFalls
  <2>2. Rank(c)' \in Nat
    <3>1. PICK e, l : e = Len(call'[c].emitted) /\ l = Len(call'[c].events)
      OBVIOUS
    <3>2. e \in Nat /\ l \in Nat /\ e <= MaxEvents + 1
      BY <3>1, LenProperties DEF StreamInv, Call, RunInv
    <3>3. Rank(c)' = RankOf(e, l, phase'[c], call'[c])
      BY <3>1 DEF Rank, RankOf
    <3> QED
      BY <3>2, <3>3, RankOfIsNatural
  <2> QED
    BY <2>1, <2>2
<1>2. StreamSpec => []TypeOK
  BY StreamsDriveLock, LockTypeCorrect
<1> QED
  BY <1>1, <1>2, StreamInvariant, RunInvariant, PTL DEF StreamSpec, CallsWindDown
=============================================================================
