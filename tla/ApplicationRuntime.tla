------------------------- MODULE ApplicationRuntime -------------------------
(***************************************************************************)
(* Start and stop of the API process: the checkpointer, the RabbitMQ       *)
(* transport, the daily job and the HTTP listener are brought up one after *)
(* the other; an error on the way, or a signal once the listener is up,    *)
(* takes down what is there.  open is the set of client connections.       *)
(***************************************************************************)
CONSTANTS
  Signals,          \* SIGINT and SIGTERM
  SchedulerEnabled  \* the daily job is configured

ASSUME RuntimeAssumption == SchedulerEnabled \in BOOLEAN

VARIABLES
  alive,     \* the process exists
  boot,      \* the step start() awaits, or how it ended
  broker,    \* what the transport's fields hold
  orphan,    \* a connection start() opened and its fields never held
  job,       \* the daily job is scheduled
  http,      \* the listener
  core,      \* the checkpointer and the database client
  cleanup,   \* the step stop() awaits
  failures,  \* some step of the clean-up threw
  handlers   \* signals whose handler is registered

runtimeVars == <<alive, boot, broker, orphan, job, http, core, cleanup, failures, handlers>>

RuntimeInit ==
  /\ alive = TRUE
  /\ boot = "core"
  /\ broker = "off"
  /\ orphan = FALSE
  /\ job = FALSE
  /\ http = "none"
  /\ core = "open"
  /\ cleanup = "none"
  /\ failures = FALSE
  /\ handlers = {}

-----------------------------------------------------------------------------
(* stop() up to its first await: the schedule is stopped, which may throw and
   then leave the job there, an error kept for later; the listener, if there
   is one, is told to close. *)
Stop(scheduled) ==
  /\ cleanup = "none"
  /\ \/ job' = FALSE /\ UNCHANGED failures
     \/ scheduled /\ job' \in BOOLEAN /\ failures' = TRUE
  /\ http' = IF http = "none" THEN http ELSE "closing"
  /\ cleanup' = "http"

(* The step of start() that is under way throws. *)
Throw(scheduled) ==
  /\ Stop(scheduled)
  /\ boot' = "aborting"
  /\ UNCHANGED <<alive, core, handlers>>

InitializeCore ==
  /\ boot = "core"
  /\ \/ boot' = "connect" /\ UNCHANGED <<alive, broker, orphan, job, http, core, cleanup, failures, handlers>>
     \/ Throw(job) /\ UNCHANGED <<broker, orphan>>

Connect ==
  /\ boot = "connect"
  /\ \/ boot' = "topology" /\ UNCHANGED <<alive, broker, orphan, job, http, core, cleanup, failures, handlers>>
     \/ Throw(job) /\ UNCHANGED <<broker, orphan>>

(* Exchanges, queues and bindings; only then do the fields hold the connection. *)
AssertTopology ==
  /\ boot = "topology"
  /\ \/ /\ boot' = "consume"
        /\ broker' = "assigned"
        /\ UNCHANGED <<alive, orphan, job, http, core, cleanup, failures, handlers>>
     \/ Throw(job) /\ orphan' = TRUE /\ UNCHANGED broker

(* The consumer is there: the job is scheduled and the listener started, or
   one of the two throws. *)
Consume ==
  /\ boot = "consume"
  /\ \/ /\ boot' = "listen"
        /\ broker' = "consuming"
        /\ job' = SchedulerEnabled
        /\ http' = "opening"
        /\ UNCHANGED <<alive, orphan, core, cleanup, failures, handlers>>
     \/ Throw(job) /\ UNCHANGED <<broker, orphan>>
     \/ /\ broker' = "consuming"
        /\ \E scheduled \in {FALSE, SchedulerEnabled} : Throw(scheduled)
        /\ UNCHANGED orphan

Listen ==
  /\ boot = "listen"
  /\ \/ /\ boot' = "up"
        /\ http' = "listening"
        /\ handlers' = Signals
        /\ UNCHANGED <<alive, broker, orphan, job, core, cleanup, failures>>
     \/ Throw(job) /\ UNCHANGED <<broker, orphan>>

StartFails ==
  /\ boot = "aborting"
  /\ cleanup = "done"
  /\ boot' = "failed"
  /\ UNCHANGED <<alive, broker, orphan, job, http, core, cleanup, failures, handlers>>

(* A signal: the first one stops the runtime, one whose handler was used, or
   not yet registered, kills the process. *)
Signal(s) ==
  /\ alive' = (s \in handlers)
  /\ handlers' = IF s \in handlers THEN handlers \ {s} ELSE {}
  /\ IF s \in handlers /\ cleanup = "none"
     THEN Stop(job)
     ELSE UNCHANGED <<job, failures, http, cleanup>>
  /\ UNCHANGED <<boot, broker, orphan, core>>

-----------------------------------------------------------------------------
(* MUTANT of HttpCloses: the clean-up does not wait for the connections. *)
HttpCloses_at_once(open) ==
  /\ cleanup = "http"
  /\ http' = IF http = "none" THEN http ELSE "closed"
  /\ cleanup' = "triggers"
  /\ UNCHANGED <<alive, boot, broker, orphan, job, core, failures, handlers>>

(* closeHttp: server.close calls back when the last connection has ended. *)
HttpCloses(open) ==
  /\ cleanup = "http"
  /\ http = "none" \/ open = {}
  /\ http' = IF http = "none" THEN http ELSE "closed"
  /\ cleanup' = "triggers"
  /\ UNCHANGED <<alive, boot, broker, orphan, job, core, failures, handlers>>

(* MUTANT of CloseBroker: an error of the broker ends the clean-up. *)
CloseBroker_uncaught ==
  /\ cleanup = "triggers"
  /\ broker' = IF broker \in {"assigned", "consuming"} THEN "closing" ELSE "off"
  /\ cleanup' \in IF broker \in {"assigned", "consuming"} THEN {cleanup} ELSE {"core", "done"}
  /\ UNCHANGED <<alive, boot, orphan, job, http, core, failures, handlers>>

(* close of the transport: its fields are emptied, then the consumer, the
   channel and the connection they held are closed, whatever that throws. *)
CloseBroker ==
  /\ cleanup = "triggers"
  /\ broker' = IF broker \in {"assigned", "consuming"} THEN "closing" ELSE "off"
  /\ cleanup' = IF broker \in {"assigned", "consuming"} THEN cleanup ELSE "core"
  /\ UNCHANGED <<alive, boot, orphan, job, http, core, failures, handlers>>

CloseCore ==
  /\ cleanup = "core"
  /\ core' = "closed"
  /\ failures' \in {failures, TRUE}
  /\ cleanup' = "done"
  /\ UNCHANGED <<alive, boot, broker, orphan, job, http, handlers>>

(* Nothing is left that keeps the event loop busy. *)
Exit(busy) ==
  /\ boot \in {"up", "failed"}
  /\ cleanup = "done"
  /\ ~orphan /\ ~job /\ ~busy
  /\ http \in {"none", "closed"} /\ broker = "off" /\ core = "closed"
  /\ alive' = FALSE
  /\ UNCHANGED <<boot, broker, orphan, job, http, core, cleanup, failures, handlers>>

RuntimeStep(open, busy) ==
  \/ InitializeCore
  \/ Connect
  \/ AssertTopology
  \/ Consume
  \/ Listen
  \/ StartFails
  \/ HttpCloses(open)
  \/ CloseBroker
  \/ CloseCore
  \/ Exit(busy)
=============================================================================
