------------------------ MODULE ThreadExecutionLock -------------------------
(***************************************************************************)
(* ThreadExecutionLock of the agent service: invoke, stream and resume     *)
(* queue up per conversation thread on a chain of promises.                *)
(*                                                                         *)
(* tails[t] stands for the map entry of thread t by the call whose tail    *)
(* promise it holds.  The promise a call awaits is resolved exactly when   *)
(* the call it belongs to has ended, since a call ends after the one it    *)
(* waited for; predecessor[c] is NoCall once that promise is resolved.     *)
(***************************************************************************)
CONSTANTS
  Threads,   \* conversation threads
  Calls,     \* calls that may be in progress at once
  NoThread,  \* the thread of an idle call
  NoCall     \* a resolved promise, or no map entry

ASSUME LockAssumption == NoThread \notin Threads /\ NoCall \notin Calls

VARIABLES
  phase,        \* where run is: "idle", "waiting" for its predecessor, "working"
  thread,       \* the threadId it was called with
  tails,        \* the map of the lock
  predecessor,  \* the call whose tail it awaits
  ahead         \* history: unfinished calls that asked for the thread earlier

vars == <<phase, thread, tails, predecessor, ahead>>

TypeOK ==
  /\ phase \in [Calls -> {"idle", "waiting", "working"}]
  /\ thread \in [Calls -> Threads \cup {NoThread}]
  /\ tails \in [Threads -> Calls \cup {NoCall}]
  /\ predecessor \in [Calls -> Calls \cup {NoCall}]
  /\ ahead \in [Calls -> SUBSET Calls]
  /\ \A c \in Calls : phase[c] = "idle" <=> thread[c] = NoThread

Init ==
  /\ phase       = [c \in Calls |-> "idle"]
  /\ thread      = [c \in Calls |-> NoThread]
  /\ tails       = [t \in Threads |-> NoCall]
  /\ predecessor = [c \in Calls |-> NoCall]
  /\ ahead       = [c \in Calls |-> {}]

-----------------------------------------------------------------------------
On(t) == {c \in Calls : thread[c] = t}

(* MUTANT of Run: the entry is only set for a thread without one. *)
RunKeepingTail(c, t) ==
  /\ phase[c] = "idle"
  /\ phase'       = [phase EXCEPT ![c] = "waiting"]
  /\ thread'      = [thread EXCEPT ![c] = t]
  /\ predecessor' = [predecessor EXCEPT ![c] = tails[t]]
  /\ tails'       = [tails EXCEPT ![t] = IF @ = NoCall THEN c ELSE @]
  /\ ahead'       = [ahead EXCEPT ![c] = On(t)]

(* run, up to its await: chain behind the current tail and become the tail. *)
Run(c, t) ==
  /\ phase[c] = "idle"
  /\ phase'       = [phase EXCEPT ![c] = "waiting"]
  /\ thread'      = [thread EXCEPT ![c] = t]
  /\ predecessor' = [predecessor EXCEPT ![c] = tails[t]]
  /\ tails'       = [tails EXCEPT ![t] = c]
  /\ ahead'       = [ahead EXCEPT ![c] = On(t)]

(* The awaited promise is resolved: the work begins. *)
Work(c) ==
  /\ phase[c] = "waiting"
  /\ predecessor[c] = NoCall
  /\ phase' = [phase EXCEPT ![c] = "working"]
  /\ UNCHANGED <<thread, tails, predecessor, ahead>>

(* The call is over. *)
Leave(c) ==
  /\ phase[c] = "working"
  /\ phase'  = [phase EXCEPT ![c] = "idle"]
  /\ thread' = [thread EXCEPT ![c] = NoThread]
  /\ ahead'  = [d \in Calls |-> ahead[d] \ {c}]

Resolve(c) == predecessor' = [d \in Calls |-> IF predecessor[d] = c THEN NoCall ELSE predecessor[d]]

(* MUTANT of Release: the entry is deleted whoever it belongs to. *)
ReleaseAnyTail(c) ==
  /\ Leave(c)
  /\ Resolve(c)
  /\ tails' = [tails EXCEPT ![thread[c]] = NoCall]

(* MUTANT of Release: the successor is not released when the work throws. *)
ReleaseOnSuccess(c) ==
  /\ Leave(c)
  /\ Resolve(c) \/ UNCHANGED predecessor
  /\ tails' = [tails EXCEPT ![thread[c]] = IF @ = c THEN NoCall ELSE @]

(* The work returns or throws; finally: release the successor, and delete the
   entry unless another call has become the tail. *)
Release(c) ==
  /\ Leave(c)
  /\ Resolve(c)
  /\ tails' = [tails EXCEPT ![thread[c]] = IF @ = c THEN NoCall ELSE @]

Next ==
  \E c \in Calls :
    \/ \E t \in Threads : Run(c, t)
    \/ Work(c)
    \/ Release(c)

Spec == Init /\ [][Next]_vars

(* The event loop resumes whoever awaits a resolved promise, and a graph run
   answers or throws. *)
FairSpec == Spec /\ \A c \in Calls : WF_vars(Work(c)) /\ WF_vars(Release(c))

-----------------------------------------------------------------------------
(* Two calls never work on one conversation thread at once: a resume cannot
   run while a query of the same conversation still changes its checkpoint. *)
OneCallPerThread ==
  \A c, d \in Calls :
    phase[c] = "working" /\ phase[d] = "working" /\ thread[c] = thread[d] => c = d

(* The chain of promises is the order of arrival: a call waits exactly for
   the last one that came before it, a thread's entry is its last caller, and
   a thread nobody uses has no entry, so that the map does not grow. *)
ChainInv ==
  /\ \A c \in Calls : phase[c] # "waiting" => predecessor[c] = NoCall
  /\ \A c \in Calls :
       IF predecessor[c] = NoCall
       THEN ahead[c] = {}
       ELSE /\ thread[predecessor[c]] = thread[c]
            /\ ahead[c] = ahead[predecessor[c]] \cup {predecessor[c]}
  /\ \A t \in Threads :
       IF tails[t] = NoCall
       THEN On(t) = {}
       ELSE On(t) = ahead[tails[t]] \cup {tails[t]}
  /\ \A c, d \in Calls :
       thread[c] = thread[d] /\ thread[c] # NoThread /\ c # d => c \in ahead[d] \/ d \in ahead[c]

(* The calls never wait for each other in a circle, nor for a promise that
   nobody is left to resolve: whoever waits, it or a call that came to the
   conversation before it is at work or free to begin. *)
NobodyWaitsInVain ==
  \A c \in Calls : phase[c] = "waiting" =>
    \E d \in ahead[c] \cup {c} :
      /\ thread[d] = thread[c]
      /\ phase[d] = "working" \/ (phase[d] = "waiting" /\ predecessor[d] = NoCall)

(* Every call gets its turn, if the work of the calls before it ends. *)
EveryCallWorks == \A c \in Calls : phase[c] = "waiting" ~> phase[c] = "working"

(* The chain of promises is a first-come-first-served lock. *)
Lock == INSTANCE FifoLock
ImplementsFifoLock == Lock!Spec
=============================================================================
