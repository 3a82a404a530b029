---------------------------- MODULE Server_proofs ----------------------------
(* Proofs about Server, for every number of calls, threads, events and
   signals, with and without the daily job. *)
EXTENDS Server, AgentStream_proofs

(* Every step of the server is a step of its calls or leaves them alone. *)
LEMMA ServerStepDrivesStreams ==
  ASSUME [ServerNext]_serverVars
  PROVE  [StreamNext]_streamVars
<1>1. ASSUME NEW c \in Calls, CallStep(c)
      PROVE  StreamNext
  BY <1>1 DEF CallStep, Admit, Serve, Respond, StreamNext, Progress
<1>2. CASE UNCHANGED serverVars
  BY <1>2 DEF serverVars, streamVars
<1> QED
  BY <1>1, <1>2 DEF ServerNext

(* Under the life cycle of the process the calls are still those of
   AgentStream: its theorems, and those of the lock, carry over. *)
THEOREM ServerDrivesStreams == ServerSpec => StreamSpec
<1>1. ServerInit => StreamInit
  BY DEF ServerInit
<1> QED
  BY <1>1, ServerStepDrivesStreams, PTL DEF ServerSpec, StreamSpec

(* Clients of a stream get every event once and in order, also while the
   process starts and stops. *)
THEOREM ServerStreamsAreWhole == ServerSpec => []StreamsAreWhole
  BY ServerDrivesStreams, WholeStreams

(* Two calls of the process never work on one conversation at once. *)
THEOREM ServerCallsExclude == ServerSpec => []OneCallPerThread
  BY ServerDrivesStreams, StreamsExclude

(* Nor does a start or stop of the process change their order. *)
THEOREM ServerCallsQueueUp == ServerSpec => ImplementsFifoLock
  BY ServerDrivesStreams, StreamsQueueUp

-----------------------------------------------------------------------------
(* Beyond ClosedInOrder: nobody connects before the listener exists, nothing
   is brought up once the clean-up has begun, signals are only handled by a
   process that is up, and the database is closed last. *)
RuntimeInv ==
  /\ ClosedInOrder
  /\ http = "none" => Connections = {}
  /\ boot \in {"core", "connect", "topology", "consume", "listen"} => cleanup = "none"
  /\ handlers # {} => boot = "up"
  /\ core = "closed" => cleanup = "done"

(* Only an admitted request connects a client. *)
LEMMA WhoConnects ==
  ASSUME StreamInv, NEW c \in Calls, CallStep(c)
  PROVE  Connections' \subseteq Connections \/ http = "listening"
<1>1. ASSUME NEW r, Set(c, r), r.connected => call[c].connected
      PROVE  Connections' \subseteq Connections
  BY <1>1 DEF StreamInv, Set, Connections
<1>2. ASSUME NEW t \in Threads, NEW m \in Modes, Admit(c, t, m)
      PROVE  Connections' \subseteq Connections \/ http = "listening"
  <2>1. CASE m = "trigger"
    BY <1>1, <1>2, <2>1 DEF Admit, Receive, Fresh
  <2> QED
    BY <1>2, <2>1 DEF Admit, Admits
<1>3. ASSUME Serve(c) \/ EmitProgress(c) \/ RunThrows(c) \/ HangUp(c)
      PROVE  Connections' \subseteq Connections
  <2>1. call[c] \in Call
    BY DEF StreamInv
  <2>2. CASE Begin(c)
    BY <2>2 DEF Begin, Connections
  <2>3. \A e : Sink(call[c], e).connected = call[c].connected
    BY <2>1 DEF Sink, Awakened, Call
  <2>4. CASE Respond(c) \/ EmitProgress(c)
    BY <1>1, <2>3, <2>4 DEF Respond, EmitAnswer, EmitProgress
  <2>5. CASE RunReturns(c) \/ RunThrows(c)
    BY <1>1, <2>1, <2>5 DEF RunReturns, RunThrows, Call
  <2>6. CASE Settle(c)
    BY <1>1, <2>1, <2>6 DEF Settle, Awakened, Call
  <2>7. CASE Yield(c)
    BY <1>1, <2>1, <2>7 DEF Yield, Call
  <2>8. CASE Sleep(c)
    BY <1>1, <2>1, <2>8 DEF Sleep, Call
  <2>9. CASE EndStream(c) \/ Reply(c)
    BY <1>1, <2>1, <2>9 DEF EndStream, Reply, Over, Call
  <2>10. CASE HangUp(c)
    BY <1>1, <2>1, <2>10 DEF HangUp, Call
  <2> QED
    BY <1>3, <2>2, <2>4, <2>5, <2>6, <2>7, <2>8, <2>9, <2>10 DEF Serve
<1> QED
  BY <1>2, <1>3 DEF CallStep

(* RuntimeInv is inductive. *)
LEMMA RuntimeStepKeeps ==
  ASSUME StreamInv, RuntimeInv, [ServerNext]_serverVars
  PROVE  RuntimeInv'
<1> USE DEF RuntimeInv, ClosedInOrder, Admits
<1>1. ASSUME NEW c \in Calls, CallStep(c), UNCHANGED runtimeVars PROVE RuntimeInv'
  BY <1>1, WhoConnects DEF runtimeVars
<1>2. ASSUME UNCHANGED streamVars PROVE Connections' = Connections
  BY <1>2 DEF streamVars, Connections
<1>3. ASSUME UNCHANGED streamVars,
             InitializeCore \/ Connect \/ AssertTopology \/ Consume \/ Listen
      PROVE  RuntimeInv'
  BY <1>2, <1>3 DEF InitializeCore, Connect, AssertTopology, Consume, Listen, Throw, Stop
<1>4. ASSUME UNCHANGED streamVars, StartFails \/ Exit(InProgress # {}) PROVE RuntimeInv'
  BY <1>2, <1>4 DEF StartFails, Exit
<1>5. ASSUME UNCHANGED streamVars, HttpCloses(Connections) PROVE RuntimeInv'
  BY <1>2, <1>5 DEF HttpCloses
<1>6. ASSUME UNCHANGED streamVars, CloseBroker \/ CloseCore PROVE RuntimeInv'
  <2>1. CASE CloseBroker
    BY <1>2, <1>6, <2>1 DEF CloseBroker
  <2>2. CASE CloseCore
    BY <1>2, <1>6, <2>2 DEF CloseCore
  <2> QED
    BY <1>6, <2>1, <2>2
<1>7. ASSUME UNCHANGED streamVars, NEW s \in Signals, Signal(s) PROVE RuntimeInv'
  BY <1>2, <1>7 DEF Signal, Stop
<1>8. ASSUME UNCHANGED serverVars PROVE RuntimeInv'
  <2>1. Connections' = Connections /\ UNCHANGED runtimeVars
    BY <1>8 DEF serverVars, Connections, runtimeVars
  <2> QED
    BY <2>1 DEF runtimeVars
<1> QED
  BY <1>1, <1>3, <1>4, <1>5, <1>6, <1>7, <1>8 DEF ServerNext, Manage, RuntimeStep

(* Whatever fails on the way up or down, no client has the database closed
   under its run, and nothing is admitted once the clean-up is past it. *)
THEOREM ShutdownOrder == ServerSpec => []ClosedInOrder
<1>1. ServerInit => RuntimeInv
  <2>1. ASSUME StreamInit PROVE Connections = {}
    BY <2>1 DEF StreamInit, Connections, Fresh
  <2> QED
    BY <2>1 DEF ServerInit, RuntimeInit, RuntimeInv, ClosedInOrder
<1>2. RuntimeInv => ClosedInOrder
  BY DEF RuntimeInv
<1>3. ServerSpec => []StreamInv
  BY ServerDrivesStreams, StreamInvariant
<1> QED
  BY <1>1, <1>2, <1>3, RuntimeStepKeeps, PTL DEF ServerSpec

-----------------------------------------------------------------------------
(* No unanswered call of the process is stuck, and every step of a call brings
   it nearer to its end, whatever the runtime does meanwhile. *)
THEOREM ServerNobodyIsStuck ==
  ASSUME IsFiniteSet(Calls)
  PROVE  ServerSpec => []NobodyIsStuck
  BY ServerDrivesStreams, NoCallIsStuck

THEOREM ServerCallsEnd == ServerSpec => CallsWindDown
  BY ServerDrivesStreams, CallsEnd

(* The clean-up ends with the database, and only those who still wait are
   connected. *)
StoppingInv ==
  /\ boot \in {"core", "connect", "topology", "consume", "listen", "up", "aborting", "failed"}
  /\ cleanup \in {"none", "http", "triggers", "core", "done"}
  /\ cleanup = "done" => core = "closed"
  /\ Connections \subseteq InProgress

(* A client is disconnected when its call is over. *)
LEMMA WhoWaits ==
  ASSUME StreamInv, Connections \subseteq InProgress, NEW c \in Calls, CallStep(c)
  PROVE  (Connections \subseteq InProgress)'
<1> USE DEF Connections, InProgress
<1>1. ASSUME NEW r, Set(c, r), r.connected => r.reply = "open"
      PROVE  (Connections \subseteq InProgress)'
  BY <1>1 DEF StreamInv, Set
<1>2. call[c] \in Call /\ (call[c].connected => call[c].reply = "open")
  BY DEF StreamInv
<1>3. ASSUME NEW t \in Threads, NEW m \in Modes, Admit(c, t, m)
      PROVE  (Connections \subseteq InProgress)'
  BY <1>1, <1>3 DEF Admit, Receive, Fresh, Modes
<1>4. ASSUME Serve(c) \/ EmitProgress(c) \/ RunThrows(c) \/ HangUp(c)
      PROVE  (Connections \subseteq InProgress)'
  <2>1. CASE Begin(c)
    BY <2>1 DEF Begin
  <2>2. \A e : Sink(call[c], e).connected = call[c].connected /\ Sink(call[c], e).reply = call[c].reply
    BY <1>2 DEF Sink, Awakened, Call
  <2>3. CASE Respond(c) \/ EmitProgress(c)
    BY <1>1, <1>2, <2>2, <2>3 DEF Respond, EmitAnswer, EmitProgress
  <2>4. CASE RunReturns(c) \/ RunThrows(c)
    BY <1>1, <1>2, <2>4 DEF RunReturns, RunThrows, Call
  <2>5. CASE Settle(c)
    BY <1>1, <1>2, <2>5 DEF Settle, Awakened, Call
  <2>6. CASE Yield(c)
    BY <1>1, <1>2, <2>6 DEF Yield, Call
  <2>7. CASE Sleep(c)
    BY <1>1, <1>2, <2>7 DEF Sleep, Call
  <2>8. CASE EndStream(c) \/ Reply(c)
    BY <1>1, <1>2, <2>8 DEF EndStream, Reply, Over, Call
  <2>9. CASE HangUp(c)
    BY <1>1, <1>2, <2>9 DEF HangUp, Call
  <2> QED
    BY <1>4, <2>1, <2>3, <2>4, <2>5, <2>6, <2>7, <2>8, <2>9 DEF Serve
<1> QED
  BY <1>3, <1>4 DEF CallStep

(* StoppingInv is inductive. *)
LEMMA StoppingStepKeeps ==
  ASSUME StreamInv, StoppingInv, [ServerNext]_serverVars
  PROVE  StoppingInv'
<1> USE DEF StoppingInv
<1>1. ASSUME NEW c \in Calls, CallStep(c), UNCHANGED runtimeVars PROVE StoppingInv'
  BY <1>1, WhoWaits DEF runtimeVars
<1>2. ASSUME UNCHANGED streamVars PROVE UNCHANGED <<Connections, InProgress>>
  BY <1>2 DEF streamVars, Connections, InProgress
<1>3. ASSUME UNCHANGED streamVars,
             InitializeCore \/ Connect \/ AssertTopology \/ Consume \/ Listen
      PROVE  StoppingInv'
  BY <1>2, <1>3 DEF InitializeCore, Connect, AssertTopology, Consume, Listen, Throw, Stop
<1>4. ASSUME UNCHANGED streamVars, StartFails \/ Exit(InProgress # {}) PROVE StoppingInv'
  BY <1>2, <1>4 DEF StartFails, Exit
<1>5. ASSUME UNCHANGED streamVars, HttpCloses(Connections) \/ CloseBroker \/ CloseCore
      PROVE  StoppingInv'
  BY <1>2, <1>5 DEF HttpCloses, CloseBroker, CloseCore
<1>6. ASSUME UNCHANGED streamVars, NEW s \in Signals, Signal(s) PROVE StoppingInv'
  BY <1>2, <1>6 DEF Signal, Stop
<1>7. ASSUME UNCHANGED serverVars PROVE StoppingInv'
  BY <1>7 DEF serverVars, Connections, InProgress
<1> QED
  BY <1>1, <1>3, <1>4, <1>5, <1>6, <1>7 DEF ServerNext, Manage, RuntimeStep

(* What the clean-up waits for is a call in progress. *)
LEMMA CleanUpWaitsForCalls ==
  ASSUME RuntimeInv, StoppingInv, NobodyIsStuck, \A c \in Calls : ahead[c] \subseteq Calls
  PROVE  ShutdownIsNotStuck
<1> SUFFICES ASSUME alive, cleanup # "none", ~LeftBehind, ~CleanUpGoesOn
             PROVE  \E c \in Calls : CanGoOn(c)
  BY DEF ShutdownIsNotStuck
<1>1. PICK c \in Calls : call[c].reply = "open"
  <2>1. CASE cleanup = "http"
    BY <2>1 DEF CleanUpGoesOn, StoppingInv, Connections, InProgress
  <2>2. CASE cleanup = "done"
    <3>1. boot \in {"up", "failed"}
      BY <2>2 DEF CleanUpGoesOn, StoppingInv, RuntimeInv
    <3>2. InProgress # {}
      BY <2>2, <3>1 DEF CleanUpGoesOn, StoppingInv, RuntimeInv, ClosedInOrder, LeftBehind
    <3> QED
      BY <3>2 DEF InProgress
  <2> QED
    BY <2>1, <2>2 DEF CleanUpGoesOn, StoppingInv
<1>2. PICK d \in ahead[c] \cup {c} : CanGoOn(d)
  BY <1>1 DEF NobodyIsStuck
<1> QED
  BY <1>2

(* Told to stop, or failing to start, the process always has something left
   to do until it is gone: no part waits for one that has given up. *)
THEOREM ShutdownGoesOn ==
  ASSUME IsFiniteSet(Calls)
  PROVE  ServerSpec => []ShutdownIsNotStuck
<1>1. ServerInit => RuntimeInv /\ StoppingInv
  <2>1. ASSUME StreamInit PROVE Connections = {}
    BY <2>1 DEF StreamInit, Connections, Fresh
  <2> QED
    BY <2>1 DEF ServerInit, RuntimeInit, RuntimeInv, ClosedInOrder, StoppingInv
<1>2. ServerSpec => []StreamInv
  BY ServerDrivesStreams, StreamInvariant
<1>3. ServerSpec => []NobodyIsStuck
  BY ServerNobodyIsStuck
<1>4. ServerSpec => []TypeOK
  BY ServerDrivesStreams, StreamsDriveLock, LockTypeCorrect
<1>5. RuntimeInv /\ StoppingInv /\ NobodyIsStuck /\ TypeOK => ShutdownIsNotStuck
  BY CleanUpWaitsForCalls DEF TypeOK
<1> QED
  BY <1>1, <1>2, <1>3, <1>4, <1>5, RuntimeStepKeeps, StoppingStepKeeps, PTL DEF ServerSpec
=============================================================================
