------------------------------ MODULE FifoLock ------------------------------
(***************************************************************************)
(* What the execution lock promises to the calls of the agent service: on  *)
(* each conversation thread one call at a time is at work, and the calls   *)
(* get to work in the order in which they came.                            *)
(***************************************************************************)
CONSTANTS
  Threads,   \* conversation threads
  Calls,     \* calls that may be in progress at once
  NoThread   \* the thread of an idle call

VARIABLES
  phase,     \* "idle", "waiting" or "working"
  thread,    \* the thread a call asked for
  ahead      \* the unfinished calls that asked for the same thread earlier

vars == <<phase, thread, ahead>>

Init ==
  /\ phase  = [c \in Calls |-> "idle"]
  /\ thread = [c \in Calls |-> NoThread]
  /\ ahead  = [c \in Calls |-> {}]

(* Call c asks for thread t and comes behind everybody who already did. *)
Ask(c, t) ==
  /\ phase[c] = "idle"
  /\ phase'  = [phase EXCEPT ![c] = "waiting"]
  /\ thread' = [thread EXCEPT ![c] = t]
  /\ ahead'  = [ahead EXCEPT ![c] = {d \in Calls : thread[d] = t}]

Begin(c) ==
  /\ phase[c] = "waiting"
  /\ ahead[c] = {}
  /\ phase' = [phase EXCEPT ![c] = "working"]
  /\ UNCHANGED <<thread, ahead>>

End(c) ==
  /\ phase[c] = "working"
  /\ phase'  = [phase EXCEPT ![c] = "idle"]
  /\ thread' = [thread EXCEPT ![c] = NoThread]
  /\ ahead'  = [d \in Calls |-> ahead[d] \ {c}]

Next ==
  \E c \in Calls :
    \/ \E t \in Threads : Ask(c, t)
    \/ Begin(c)
    \/ End(c)

Spec == Init /\ [][Next]_vars
=============================================================================
