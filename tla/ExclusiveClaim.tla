--------------------------- MODULE ExclusiveClaim ---------------------------
(***************************************************************************)
(* What the processed_events table promises to the triggers that share it, *)
(* free of rows, hashes and database calls: an event is taken by one       *)
(* handler at a time, only its holder performs its side effect, a done     *)
(* event is never taken again, and an event whose holder vanished stays    *)
(* taken by nobody for ever.                                               *)
(***************************************************************************)
CONSTANTS
  EventIds,   \* the event identifiers
  Handlers    \* whoever may work on an event

VARIABLES
  phase,      \* "open" (may be taken), "taken" or "done"
  holders,    \* the handlers working on an event
  sent        \* manager notifications sent for an event: "none", "once", "again"

vars == <<phase, holders, sent>>

Init ==
  /\ phase   = [e \in EventIds |-> "open"]
  /\ holders = [e \in EventIds |-> {}]
  /\ sent    = [e \in EventIds |-> "none"]

(* Handler h becomes the holder of an open event. *)
Take(e, h) ==
  /\ phase[e] = "open"
  /\ phase'   = [phase EXCEPT ![e] = "taken"]
  /\ holders' = [holders EXCEPT ![e] = {h}]
  /\ UNCHANGED sent

(* The holder performs the side effect of the event. *)
Effect(e, h) ==
  /\ h \in holders[e]
  /\ sent' = [sent EXCEPT ![e] = IF @ = "none" THEN "once" ELSE "again"]
  /\ UNCHANGED <<phase, holders>>

(* The holder gives the event up, either done for good or open again. *)
Settle(e, h, outcome) ==
  /\ h \in holders[e]
  /\ phase'   = [phase EXCEPT ![e] = outcome]
  /\ holders' = [holders EXCEPT ![e] = {}]
  /\ UNCHANGED sent

(* Handlers S stop working on whatever they hold and settle nothing. *)
Vanish(S) ==
  /\ holders' = [e \in EventIds |-> holders[e] \ S]
  /\ UNCHANGED <<phase, sent>>

Next ==
  \/ \E e \in EventIds, h \in Handlers :
       \/ Take(e, h)
       \/ Effect(e, h)
       \/ \E outcome \in {"open", "done"} : Settle(e, h, outcome)
  \/ \E S \in SUBSET Handlers : Vanish(S)

Spec == Init /\ [][Next]_vars
=============================================================================
