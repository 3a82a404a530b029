-------------------------------- MODULE Server --------------------------------
(***************************************************************************)
(* The API process: its calls and their streams under the life cycle of    *)
(* the runtime.  HTTP calls arrive while the listener is open and hold     *)
(* their connection until answered; triggered calls come from the RabbitMQ *)
(* consumer or the daily job, and nobody waits for those on the way down.  *)
(***************************************************************************)
EXTENDS AgentStream, ApplicationRuntime

serverVars == <<phase, thread, tails, predecessor, ahead, call,
                alive, boot, broker, orphan, job, http, core, cleanup, failures, handlers>>

ServerInit == StreamInit /\ RuntimeInit

Connections == {c \in Calls : call[c].connected}
InProgress == {c \in Calls : call[c].reply = "open"}

(* Where calls come from. *)
Admits(m) ==
  IF m = "trigger" THEN broker = "consuming" \/ job ELSE http = "listening"

Admit(c, t, m) == Admits(m) /\ Receive(c, t, m)

(* A run reads and records in the database before it answers. *)
Respond(c) == core = "open" /\ EmitAnswer(c)

(* A run on a closed database throws. *)
Serve(c) ==
  \/ Begin(c)
  \/ Respond(c)
  \/ RunReturns(c)
  \/ core = "closed" /\ RunThrows(c)
  \/ Settle(c)
  \/ Yield(c)
  \/ Sleep(c)
  \/ EndStream(c)
  \/ Reply(c)

CallStep(c) ==
  \/ \E t \in Threads, m \in Modes : Admit(c, t, m)
  \/ Serve(c)
  \/ EmitProgress(c)
  \/ RunThrows(c)
  \/ HangUp(c)

Manage == RuntimeStep(Connections, InProgress # {})

ServerNext ==
  /\ alive
  /\ \/ \E c \in Calls : CallStep(c) /\ UNCHANGED runtimeVars
     \/ (Manage \/ \E s \in Signals : Signal(s)) /\ UNCHANGED streamVars

ServerSpec == ServerInit /\ [][ServerNext]_serverVars

(* The event loop runs what is ready, a run answers or throws, the services
   behind start() and stop() answer or fail.  Signals, requests, disconnects
   and errors need not happen. *)
FairServerSpec ==
  /\ ServerSpec
  /\ \A c \in Calls : WF_serverVars(alive /\ Serve(c) /\ UNCHANGED runtimeVars)
  /\ WF_serverVars(alive /\ Manage /\ UNCHANGED streamVars)

-----------------------------------------------------------------------------
(* The parts are taken down in the documented order, on every way down: no
   call is admitted once the clean-up has closed the listener and emptied the
   transport, RabbitMQ outlives the HTTP connections, and the database
   outlives both, so that no client that still waits for its answer or its
   stream has the database closed under its run.  Only a job whose stop threw
   goes on to start reviews. *)
ClosedInOrder ==
  /\ cleanup # "none" => (job => failures) /\ http # "listening"
  /\ cleanup \in {"triggers", "core", "done"} => Connections = {} /\ http \in {"none", "closed"}
  /\ cleanup \in {"core", "done"} => broker = "off"
  /\ core = "closed" => Connections = {} /\ \A m \in Modes : Admits(m) => m = "trigger" /\ job

(* What the clean-up cannot take down: a connection to the broker that no
   field holds, and a job whose stop threw. *)
LeftBehind == orphan \/ (job /\ failures)

(* A step of the clean-up that waits for nothing: the guards of Manage. *)
CleanUpGoesOn ==
  \/ cleanup = "http" /\ (http = "none" \/ Connections = {})
  \/ cleanup \in {"triggers", "core"}
  \/ cleanup = "done" /\ boot = "aborting"
  \/ /\ cleanup = "done" /\ boot \in {"up", "failed"}
     /\ ~job /\ InProgress = {}
     /\ http \in {"none", "closed"} /\ broker = "off" /\ core = "closed"

(* On the way down the process is never stuck, whatever failed before: the
   clean-up can go on, or it waits for a call that can.  The exception is
   LeftBehind, as in ShutdownEnds. *)
ShutdownIsNotStuck ==
  alive /\ cleanup # "none" /\ ~LeftBehind => CleanUpGoesOn \/ \E c \in Calls : CanGoOn(c)

(* Whoever waits for an answer gets it, streams included: no call sleeps on
   events nobody will announce, or behind a lock nobody will release, also
   when the server is going down. *)
EveryClientIsServed ==
  \A c \in Calls : call[c].reply = "open" ~> ~alive \/ call[c].reply \in {"ended", "failed"}

(* Once it is told to stop, or fails to start, the process comes to its end:
   open streams end, every part is closed although an earlier one threw, and
   nothing is left to keep the event loop busy.  The exceptions are a connection
   that start() opened before declaring its queues failed, which no field
   holds, and a daily job whose stop threw. *)
ShutdownEnds == cleanup # "none" ~> ~alive \/ LeftBehind
=============================================================================
