----------------------------- MODULE AgentStream -----------------------------
(***************************************************************************)
(* The calls of the agent service and the answers of the HTTP controller:  *)
(* a graph run behind the lock of its conversation, the sink that queues   *)
(* its progress events, the generator that sleeps until it is woken, and   *)
(* the controller that writes each event, or one JSON body.  An event is   *)
(* its number in the run; Answer is the event that carries the response.   *)
(* A call is made once.                                                    *)
(***************************************************************************)
EXTENDS ThreadExecutionLock, Integers, Sequences

CONSTANT MaxEvents  \* bound: progress events of a run

ASSUME MaxEventsAssumption == MaxEvents \in Nat

Answer == 0
Events == 0..MaxEvents

(* How a call is answered: with one body (an invoke or a resume), on a stream,
   or to the trigger that made it. *)
Modes == {"json", "sse", "trigger"}

VARIABLE call  \* what the service and the controller hold for each call

streamVars == <<phase, thread, tails, predecessor, ahead, call>>

Call == [mode      : Modes \cup {"none"},
         connected : BOOLEAN,                           \* the client is there
         emitted   : Seq(Events),                       \* history: what the sink was given
         events    : Seq(Events),                       \* the queue of stream()
         written   : Seq(Events),                       \* what the response was given
         generator : {"off", "running", "asleep"},
         wake      : BOOLEAN,                           \* a resolve callback is registered
         outcome   : {"none", "returned", "threw"},     \* how the run ended
         complete  : BOOLEAN,                           \* its promise was settled
         reply     : {"none", "open", "ended", "failed"}]

Fresh(m) == [mode      |-> m,
             connected |-> m \in {"json", "sse"},
             emitted   |-> <<>>,
             events    |-> <<>>,
             written   |-> <<>>,
             generator |-> IF m = "sse" THEN "running" ELSE "off",
             wake      |-> FALSE,
             outcome   |-> "none",
             complete  |-> FALSE,
             reply     |-> IF m = "none" THEN "none" ELSE "open"]

StreamInit == Init /\ call = [c \in Calls |-> Fresh("none")]

Set(c, r) == call' = [call EXCEPT ![c] = r]
Answered(c) == \E i \in DOMAIN call[c].emitted : call[c].emitted[i] = Answer

(* Calls are numbered as they come. *)
Upcoming == CHOOSE c \in Calls : call[c].mode = "none"

(* A request passed the checks of its handler, or a trigger its own, and asks
   for the lock; stream() runs up to its loop. *)
Receive(c, t, m) ==
  /\ call[c].mode = "none"
  /\ c = Upcoming
  /\ Run(c, t)
  /\ Set(c, Fresh(m))

Begin(c) == Work(c) /\ UNCHANGED call

Awakened(r) == IF r.wake THEN [r EXCEPT !.generator = "running"] ELSE r

(* The sink of stream() queues the event and wakes the generator once; the
   sink of the other calls drops it. *)
Sink(r, e) ==
  IF r.mode # "sse"
  THEN [r EXCEPT !.emitted = Append(@, e)]
  ELSE [Awakened(r) EXCEPT !.emitted = Append(@, e),
                           !.events  = Append(@, e),
                           !.wake    = FALSE]

EmitProgress(c) ==
  /\ phase[c] = "working"
  /\ ~Answered(c)
  /\ Len(call[c].emitted) < MaxEvents
  /\ Set(c, Sink(call[c], Len(call[c].emitted) + 1))
  /\ UNCHANGED vars

(* The response event is a run's last one. *)
EmitAnswer(c) ==
  /\ phase[c] = "working"
  /\ ~Answered(c)
  /\ Set(c, Sink(call[c], Answer))
  /\ UNCHANGED vars

RunReturns(c) ==
  /\ Answered(c)
  /\ Release(c)
  /\ Set(c, [call[c] EXCEPT !.outcome = "returned"])

(* A run may throw at any point, after its answer too: the checkpoint of the
   last node is still to be written. *)
RunThrows(c) ==
  /\ Release(c)
  /\ Set(c, [call[c] EXCEPT !.outcome = "threw"])

(* MUTANT of Settle: the generator is not told that the run is over. *)
Settle_unnoticed(c) ==
  /\ call[c].outcome # "none"
  /\ ~call[c].complete
  /\ Set(c, [call[c] EXCEPT !.complete = TRUE])
  /\ UNCHANGED vars

(* catch and finally of the execution's promise. *)
Settle(c) ==
  /\ call[c].outcome # "none"
  /\ ~call[c].complete
  /\ Set(c, [Awakened(call[c]) EXCEPT !.complete = TRUE])
  /\ UNCHANGED vars

(* MUTANT of Yield: the event stays in the queue. *)
Yield_peeking(c) ==
  /\ call[c].generator = "running"
  /\ call[c].events # <<>>
  /\ Len(call[c].written) <= MaxEvents
  /\ Set(c, [call[c] EXCEPT !.written = Append(@, Head(call[c].events))])
  /\ UNCHANGED vars

(* The generator yields the oldest event and the controller writes it. *)
Yield(c) ==
  /\ call[c].generator = "running"
  /\ call[c].events # <<>>
  /\ Set(c, [call[c] EXCEPT !.written = Append(@, Head(call[c].events)),
                            !.events  = Tail(@)])
  /\ UNCHANGED vars

Sleep(c) ==
  /\ call[c].generator = "running"
  /\ call[c].events = <<>>
  /\ ~call[c].complete
  /\ Set(c, [call[c] EXCEPT !.generator = "asleep", !.wake = TRUE])
  /\ UNCHANGED vars

(* A run that threw is answered with status 500: on a stream, by one more
   response event. *)
Over(r) == [r EXCEPT !.connected = FALSE,
                     !.generator = "off",
                     !.reply     = IF r.outcome = "threw" THEN "failed" ELSE "ended"]

(* MUTANT of EndStream: the loop ends when the run does, whatever is queued. *)
EndStream_undrained(c) ==
  /\ call[c].generator = "running"
  /\ call[c].complete
  /\ Set(c, Over(call[c]))
  /\ UNCHANGED vars

EndStream(c) ==
  /\ call[c].generator = "running"
  /\ call[c].events = <<>>
  /\ call[c].complete
  /\ Set(c, Over(call[c]))
  /\ UNCHANGED vars

(* The JSON body is sent, or the trigger has its result. *)
Reply(c) ==
  /\ call[c].mode \in {"json", "trigger"}
  /\ call[c].reply = "open"
  /\ call[c].complete
  /\ Set(c, Over(call[c]))
  /\ UNCHANGED vars

(* The client goes away: nobody listens for that, and the run goes on. *)
HangUp(c) ==
  /\ call[c].connected
  /\ Set(c, [call[c] EXCEPT !.connected = FALSE])
  /\ UNCHANGED vars

(* What the event loop and a run that answers or throws do in the end. *)
Progress(c) ==
  \/ Begin(c)
  \/ EmitAnswer(c)
  \/ RunReturns(c)
  \/ Settle(c)
  \/ Yield(c)
  \/ Sleep(c)
  \/ EndStream(c)
  \/ Reply(c)

StreamNext ==
  \E c \in Calls :
    \/ \E t \in Threads, m \in Modes : Receive(c, t, m)
    \/ Progress(c)
    \/ EmitProgress(c)
    \/ RunThrows(c)
    \/ HangUp(c)

StreamSpec == StreamInit /\ [][StreamNext]_streamVars

-----------------------------------------------------------------------------
(* Every client of a stream is written what the run emitted, in that order,
   and by its end all of it: the generator never sleeps on a queued event or
   a finished run, however its turns interleave with the sink and with the
   settling of the promise.  Only a stream whose run threw ends otherwise than
   with the run's answer. *)
StreamsAreWhole ==
  \A c \in Calls :
    LET r == call[c] IN
    /\ r.mode = "sse" => r.emitted = r.written \o r.events
    /\ r.generator = "asleep" => r.wake /\ r.events = <<>> /\ ~r.complete
    /\ r.reply \in {"ended", "failed"} => r.events = <<>>
    /\ r.reply = "ended" => Answered(c)

(* A step of c that needs nothing but its turn: the guards of Progress. *)
CanGoOn(c) ==
  \/ phase[c] = "waiting" /\ predecessor[c] = NoCall
  \/ phase[c] = "working"
  \/ call[c].outcome # "none" /\ ~call[c].complete
  \/ call[c].generator = "running"
  \/ call[c].mode \in {"json", "trigger"} /\ call[c].reply = "open" /\ call[c].complete

(* An unanswered call is never stuck: it can go on itself, or a call that it
   waits for can.  In particular no generator sleeps with nobody left to wake
   it, and no run that threw leaves the calls behind it waiting. *)
NobodyIsStuck ==
  \A c \in Calls : call[c].reply = "open" => \E d \in ahead[c] \cup {c} : CanGoOn(d)

Due(b) == IF b THEN 1 ELSE 0

(* What is left to do for a call. *)
Rank(c) ==
  LET r == call[c] IN
  4 * (MaxEvents + 1 - Len(r.emitted)) + 2 * Len(r.events)
    + Due(phase[c] = "waiting") + Due(r.outcome = "none") + 2 * Due(~r.complete)
    + Due(r.generator = "running") + Due(r.reply = "open") + Due(r.connected)

(* Every step of a call brings it nearer to its end, and no step of another
   call takes it back: generator and sink cannot wake each other for ever. *)
CallsWindDown ==
  [][\A c \in Calls :
       call[c].mode # "none" /\ <<call[c], phase[c]>>' # <<call[c], phase[c]>>
         => Rank(c)' \in Nat /\ Rank(c)' < Rank(c)]_streamVars
=============================================================================
