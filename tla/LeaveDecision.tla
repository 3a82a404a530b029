---------------------------- MODULE LeaveDecision ----------------------------
(***************************************************************************)
(* What a conversation promises about leave: it belongs to one employee    *)
(* from its first turn on, and the one request it may ever submit is the   *)
(* proposal it showed last, approved by that employee.                     *)
(***************************************************************************)
CONSTANTS Threads, Employees, NoEmployee, Proposals, NoProposal

VARIABLES
    owner,      \* to whom a conversation belongs
    shown,      \* the proposal that waits for a decision
    submitted   \* the request of a conversation and who approved it

vars == <<owner, shown, submitted>>

NotSubmitted == [proposal |-> NoProposal, by |-> NoEmployee]

Init ==
    /\ owner = [t \in Threads |-> NoEmployee]
    /\ shown = [t \in Threads |-> NoProposal]
    /\ submitted = [t \in Threads |-> NotSubmitted]

(* A turn that binds the conversation, shows a proposal or withdraws it.   *)
Converse(t) ==
    /\ \E e \in Employees :
        /\ owner[t] \in {e, NoEmployee}
        /\ owner' = [owner EXCEPT ![t] = e]
    /\ shown'[t] \in Proposals \cup {NoProposal}
    /\ shown' = [shown EXCEPT ![t] = shown'[t]]
    /\ UNCHANGED submitted

Submit(t) ==
    /\ shown[t] # NoProposal
    /\ submitted[t] = NotSubmitted
    /\ submitted' = [submitted EXCEPT ![t] = [proposal |-> shown[t], by |-> owner[t]]]
    /\ UNCHANGED <<owner, shown>>

Next == \E t \in Threads : Converse(t) \/ Submit(t)

Spec == Init /\ [][Next]_vars
=============================================================================
