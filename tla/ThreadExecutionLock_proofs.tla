--------------------- MODULE ThreadExecutionLock_proofs ---------------------
(* Proofs about ThreadExecutionLock, for every set of threads and calls. *)
EXTENDS ThreadExecutionLock, FiniteSetTheorems, TLAPS

(* TypeOK is inductive. *)
LEMMA LockTypeStep ==
  ASSUME TypeOK, [Next]_vars
  PROVE  TypeOK'
<1> USE DEF TypeOK
<1>1. ASSUME NEW c \in Calls, NEW t \in Threads, Run(c, t) PROVE TypeOK'
  BY <1>1, LockAssumption DEF Run, On
<1>2. ASSUME NEW c \in Calls, Work(c) PROVE TypeOK'
  BY <1>2 DEF Work
<1>3. ASSUME NEW c \in Calls, Release(c) PROVE TypeOK'
  BY <1>3 DEF Release, Leave, Resolve
<1>4. CASE UNCHANGED vars
  BY <1>4 DEF vars
<1> QED
  BY <1>1, <1>2, <1>3, <1>4 DEF Next

(* Every reachable state of the lock has its declared shape. *)
THEOREM LockTypeCorrect == Spec => []TypeOK
<1>1. Init => TypeOK
  BY DEF Init, TypeOK
<1> QED
  BY <1>1, LockTypeStep, PTL DEF Spec

(* ChainInv is inductive. *)
LEMMA ChainStep ==
  ASSUME TypeOK, ChainInv, [Next]_vars
  PROVE  ChainInv'
<1>1. ASSUME NEW c \in Calls, NEW t \in Threads, Run(c, t) PROVE ChainInv'
  BY <1>1, LockAssumption DEF Run, On, TypeOK, ChainInv
<1>2. ASSUME NEW c \in Calls, Work(c) PROVE ChainInv'
  BY <1>2 DEF Work, On, TypeOK, ChainInv
<1>3. ASSUME NEW c \in Calls, Release(c) PROVE ChainInv'
  BY <1>3, LockAssumption DEF Release, Leave, Resolve, On, TypeOK, ChainInv
<1>4. CASE UNCHANGED vars
  BY <1>4 DEF vars, ChainInv, On
<1> QED
  BY <1>1, <1>2, <1>3, <1>4 DEF Next

(* The chain of promises always is the order of arrival, and the map has an
   entry exactly for the threads in use. *)
THEOREM ChainInvariant == Spec => []ChainInv
<1>1. Init => ChainInv
  BY LockAssumption DEF Init, ChainInv, On
<1> QED
  BY <1>1, ChainStep, LockTypeCorrect, PTL DEF Spec

(* Two calls never work on one conversation thread at once, however many
   calls, threads and failures there are. *)
THEOREM CallsExclude == Spec => []OneCallPerThread
<1>1. TypeOK /\ ChainInv => OneCallPerThread
  BY DEF TypeOK, ChainInv, OneCallPerThread
<1> QED
  BY <1>1, ChainInvariant, LockTypeCorrect, PTL

-----------------------------------------------------------------------------
(* Every step of the lock is a step of the first-come-first-served lock: a
   call whose predecessor has ended has nobody ahead of it. *)
LEMMA StepKeepsOrder ==
  ASSUME TypeOK, ChainInv, [Next]_vars
  PROVE  [Lock!Next]_(Lock!vars)
<1>1. ASSUME NEW c \in Calls, NEW t \in Threads, Run(c, t) PROVE Lock!Ask(c, t)
  BY <1>1 DEF Run, On, Lock!Ask
<1>2. ASSUME NEW c \in Calls, Work(c) PROVE Lock!Begin(c)
  BY <1>2 DEF Work, ChainInv, Lock!Begin
<1>3. ASSUME NEW c \in Calls, Release(c) PROVE Lock!End(c)
  BY <1>3 DEF Release, Leave, Lock!End
<1> QED
  BY <1>1, <1>2, <1>3 DEF Next, vars, Lock!Next, Lock!vars

(* The chain of promises implements a first-come-first-served lock. *)
THEOREM LockRefinement == Spec => ImplementsFifoLock
<1>1. Init => Lock!Init
  BY DEF Init, Lock!Init
<1> QED
  BY <1>1, StepKeepsOrder, ChainInvariant, LockTypeCorrect, PTL
  DEF Spec, ImplementsFifoLock, Lock!Spec

-----------------------------------------------------------------------------
(* Whom a call waits for: others of its conversation, and all those they wait
   for. *)
AheadInv ==
  \A c \in Calls :
    /\ c \notin ahead[c]
    /\ \A d \in ahead[c] : thread[d] = thread[c] /\ thread[c] # NoThread /\ ahead[d] \subseteq ahead[c]

(* AheadInv is inductive. *)
LEMMA AheadStep ==
  ASSUME TypeOK, ChainInv, AheadInv, [Next]_vars
  PROVE  AheadInv'
<1>1. ASSUME NEW c \in Calls, NEW t \in Threads, Run(c, t) PROVE AheadInv'
  <2>1. /\ phase[c] = "idle" /\ thread[c] = NoThread /\ t # NoThread
        /\ thread' = [thread EXCEPT ![c] = t]
        /\ ahead' = [ahead EXCEPT ![c] = On(t)]
    BY <1>1, LockAssumption DEF Run, TypeOK
  <2>2. \A d \in Calls : c \notin ahead[d]
    BY <2>1 DEF AheadInv
  <2>3. \A d \in On(t) : d # c /\ ahead[d] \subseteq On(t)
    BY <2>1 DEF On, AheadInv, TypeOK
  <2> QED
    BY <2>1, <2>2, <2>3 DEF AheadInv, On, TypeOK
<1>2. ASSUME NEW c \in Calls, Work(c) PROVE AheadInv'
  BY <1>2 DEF Work, AheadInv
<1>3. ASSUME NEW c \in Calls, Release(c) PROVE AheadInv'
  <2>1. ahead[c] = {}
    BY <1>3 DEF Release, Leave, ChainInv
  <2> QED
    BY <1>3, <2>1 DEF Release, Leave, AheadInv, TypeOK
<1>4. CASE UNCHANGED vars
  BY <1>4 DEF vars, AheadInv
<1> QED
  BY <1>1, <1>2, <1>3, <1>4 DEF Next

(* In every reachable state nobody waits for itself, nor for a call without
   waiting for all that call waits for. *)
LEMMA AheadInvariant == Spec => []AheadInv
<1>1. Init => AheadInv
  BY DEF Init, AheadInv
<1> QED
  BY <1>1, AheadStep, ChainInvariant, LockTypeCorrect, PTL DEF Spec

(* Among a call and those ahead of it, one has nobody ahead. *)
LEMMA SomebodyIsFirst ==
  ASSUME IsFiniteSet(Calls), TypeOK, ChainInv, AheadInv, NEW c \in Calls
  PROVE  \E d \in ahead[c] \cup {c} : predecessor[d] = NoCall
<1> DEFINE Line == {ahead[d] : d \in ahead[c] \cup {c}}
           R == StrictSubsetOrdering(Calls)
           F == FiniteSubsetsOf(Calls)
<1>1. IsWellFoundedOn(R, F)
  BY FS_StrictSubsetOrderingWellFounded
<1>2. ahead[c] \cup {c} \subseteq Calls
  BY DEF TypeOK
<1>3. Line \subseteq F /\ Line # {}
  <2>1. ASSUME NEW d \in ahead[c] \cup {c} PROVE ahead[d] \in F
    <3>1. ahead[d] \in SUBSET Calls
      BY <1>2 DEF TypeOK
    <3> QED
      BY <3>1, FS_Subset DEF FiniteSubsetsOf
  <2> QED
    BY <2>1
<1>4. PICK l \in Line : \A k \in Line : <<k, l>> \notin R
  <2> HIDE DEF Line, R, F
  <2> QED
    BY <1>1, <1>3, WFMin
<1>5. PICK d \in ahead[c] \cup {c} : l = ahead[d]
  OBVIOUS
<1>6. ASSUME predecessor[d] # NoCall PROVE FALSE
  <2> DEFINE p == predecessor[d]
  <2>1. p \in Calls /\ ahead[d] = ahead[p] \cup {p}
    BY <1>2, <1>6 DEF ChainInv, TypeOK
  <2>2. p \in ahead[c] \cup {c}
    BY <1>2, <1>5, <2>1 DEF AheadInv
  <2>3. p \notin ahead[p] /\ ahead[p] \in SUBSET Calls /\ ahead[d] \in SUBSET Calls
    BY <1>2, <2>1 DEF AheadInv, TypeOK
  <2>4. <<ahead[p], ahead[d]>> \in R
    BY <2>1, <2>3 DEF StrictSubsetOrdering
  <2> QED
    BY <1>4, <1>5, <2>2, <2>4
<1> QED
  BY <1>5, <1>6

(* However many calls queue up on a conversation, one of those a call waits
   for is at work, or free to begin: the chain of promises never deadlocks. *)
THEOREM NoDeadlock ==
  ASSUME IsFiniteSet(Calls)
  PROVE  Spec => []NobodyWaitsInVain
<1>1. TypeOK /\ ChainInv /\ AheadInv => NobodyWaitsInVain
  <2> SUFFICES ASSUME TypeOK, ChainInv, AheadInv, NEW c \in Calls, phase[c] = "waiting"
               PROVE  \E d \in ahead[c] \cup {c} :
                        /\ thread[d] = thread[c]
                        /\ phase[d] = "working" \/ (phase[d] = "waiting" /\ predecessor[d] = NoCall)
    BY DEF NobodyWaitsInVain
  <2>1. PICK d \in ahead[c] \cup {c} : predecessor[d] = NoCall
    BY SomebodyIsFirst
  <2>2. d \in Calls /\ thread[d] = thread[c] /\ thread[c] # NoThread
    BY DEF AheadInv, TypeOK
  <2>3. phase[d] \in {"waiting", "working"}
    BY <2>2 DEF TypeOK
  <2> QED
    BY <2>1, <2>2, <2>3
<1> QED
  BY <1>1, AheadInvariant, ChainInvariant, LockTypeCorrect, PTL
=============================================================================
