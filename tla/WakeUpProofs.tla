----------------------------- MODULE WakeUpProofs -----------------------------
(***************************************************************************)
(* No push is slept through, for any number of pushes and any bound of the *)
(* clock: the safety half of how WorkerWakeUp's threads meet.              *)
(***************************************************************************)
EXTENDS WorkerWakeUp, TLAPS

(* The worker has an entry in hand when it has popped one. *)
WakeInv == TypeOK /\ (worker = "popped" => popped \in Entry)

(* Until the mutex is released in a wait, nobody can push: the heap is as  *)
(* the worker saw it, so a notification that comes too early is not needed. *)
Undisturbed ==
  /\ worker = "emptyBlock" => heap = {}
  /\ worker = "timedBlock" => \A e \in heap : deadline <= e.due
MissInv == Undisturbed /\ NoPushMissed

(* A notification moves the worker from a wait to reacquiring, only. *)
LEMMA NotifyMoves ==
  ASSUME NotifyAll
  PROVE  /\ worker \in Waits => worker' \in {"pauseRelock", "emptyRelock", "timedRelock"}
         /\ worker \notin Waits => worker' = worker
         /\ worker' \notin Waits
BY DEF NotifyAll, Relock, Waits

(* Nothing is running and nothing pushed. *)
LEMMA InitWake == Init => WakeInv /\ MissInv
<1>. SUFFICES ASSUME Init PROVE WakeInv /\ MissInv
  OBVIOUS
<1>1. now \in 0..MaxTime /\ heap \in SUBSET Entry /\ unused \in SUBSET Ids
  BY WakeUpAssumption DEF Init
<1>. QED
  BY <1>1 DEF Init, WakeInv, MissInv, Undisturbed, NoPushMissed, TypeOK, Locked, Unlocked, Waits

-----------------------------------------------------------------------------

(* Calls of the activity and the service thread. *)
LEMMA CallTypes ==
  ASSUME WakeInv,
         CallStep \/ SetPaused \/ RequestStop \/ WakeSpuriously \/ Tick
           \/ (\E id \in Ids, due \in 0..MaxTime : Push(id, due))
  PROVE  WakeInv'
<1>. USE DEF WakeInv, TypeOK, Locked, Unlocked, Waits
<1>1. CASE CallStep \/ WakeSpuriously
  <2>1. CASE Join
    BY <2>1 DEF Join
  <2>2. ASSUME NotifyAll, UNCHANGED <<mutex, stop, paused, heap, deadline, popped, unused, now>>,
               pusher' \in {"idle", pusher}, control' \in {"idle", "joining", control}
        PROVE  WakeInv'
    BY <2>2, NotifyMoves
  <2>. QED
    BY <1>1, <2>1, <2>2 DEF CallStep, PushNotify, PausedNotify, StopNotify, WakeSpuriously, Others
<1>2. CASE SetPaused \/ RequestStop
  BY <1>2 DEF SetPaused, RequestStop
<1>3. CASE Tick
  BY <1>3, WakeUpAssumption DEF Tick
<1>4. ASSUME NEW id \in Ids, NEW due \in 0..MaxTime, Push(id, due) PROVE WakeInv'
  <2>1. [id |-> id, due |-> due] \in Entry
    BY DEF Entry
  <2>. QED
    BY <1>4, <2>1 DEF Push
<1>. QED
  BY <1>1, <1>2, <1>3, <1>4

(* Steps of the worker: it holds the mutex exactly where Locked says. *)
LEMMA WorkerTypes ==
  ASSUME WakeInv, WorkerStep
  PROVE  WakeInv'
<1>. USE DEF WakeInv, TypeOK, Locked, Unlocked, Waits, From, Others
<1>1. CASE LoopHead \/ Lock
  BY <1>1 DEF LoopHead, Lock
<1>2. CASE CheckPaused \/ CheckEmpty
  BY <1>2 DEF CheckPaused, CheckEmpty
<1>3. CASE CheckEarly
  <2>1. PICK e \in heap : deadline' = e.due
    BY <1>3 DEF CheckEarly
  <2>2. e.due \in 0..MaxTime
    BY <2>1 DEF Entry
  <2>3. deadline' # None
    BY <2>1, <2>2, WakeUpAssumption
  <2>. QED
    BY <1>3, <2>1, <2>2, <2>3 DEF CheckEarly
<1>4. ASSUME NEW e \in heap, Pop(e) PROVE WakeInv'
  BY <1>4 DEF Pop
<1>5. CASE PredicateHolds \/ PredicateFails
  BY <1>5 DEF PredicateHolds, PredicateFails
<1>6. CASE Block \/ TimeOut
  BY <1>6 DEF Block, TimeOut
<1>7. CASE Reacquire
  BY <1>7 DEF Reacquire
<1>8. CASE PutBack
  BY <1>8 DEF PutBack
<1>9. CASE PutNotify \/ Run
  BY <1>9 DEF PutNotify, Run
<1>. QED
  BY <1>1, <1>2, <1>3, <1>4, <1>5, <1>6, <1>7, <1>8, <1>9 DEF WorkerStep

LEMMA StepWake == WakeInv /\ [Next]_vars => WakeInv'
<1>1. WakeInv /\ UNCHANGED vars => WakeInv'
  BY DEF WakeInv, TypeOK, vars
<1>. QED
  BY <1>1, CallTypes, WorkerTypes DEF Next

(* Types, and the mutex held by the worker exactly where it tests, pops and *)
(* decides to block.                                                       *)
THEOREM TypeCorrect == Spec => []TypeOK
<1>1. WakeInv => TypeOK
  BY DEF WakeInv
<1>. QED
  BY InitWake, StepWake, <1>1, PTL DEF Spec

-----------------------------------------------------------------------------

(* The worker decides to block with the mutex held, so the heap it decided *)
(* on is the heap it blocks on; whoever pushes after that has still to     *)
(* notify, and a notification ends the wait.                               *)
LEMMA StepMissed == WakeInv /\ MissInv /\ [Next]_vars => MissInv'
<1>. SUFFICES ASSUME WakeInv, MissInv, [Next]_vars PROVE MissInv'
  OBVIOUS
<1>. USE DEF MissInv, Undisturbed, NoPushMissed, WakeInv, TypeOK, Locked, Waits
<1>1. CASE PushNotify \/ PausedNotify \/ StopNotify \/ WakeSpuriously
  <2>1. NotifyAll /\ UNCHANGED <<mutex, heap, deadline>>
    BY <1>1 DEF PushNotify, PausedNotify, StopNotify, WakeSpuriously
  <2>. QED
    BY <2>1, NotifyMoves
<1>2. CASE Join \/ SetPaused \/ RequestStop \/ Tick
  BY <1>2 DEF Join, SetPaused, RequestStop, Tick
<1>3. ASSUME NEW id \in Ids, NEW due \in 0..MaxTime, Push(id, due) PROVE MissInv'
  BY <1>3 DEF Push
<1>4. CASE CheckEarly
  <2>1. PICK e \in heap : Top(e) /\ deadline' = e.due
    BY <1>4 DEF CheckEarly
  <2>2. worker' = "timedBlock" /\ heap' = heap
    BY <1>4 DEF CheckEarly, From
  <2>. QED
    BY <2>1, <2>2 DEF Top
<1>5. CASE PredicateFails
  BY <1>5 DEF PredicateFails, From, Others
<1>6. CASE Block
  BY <1>6 DEF Block, From, Others
<1>7. CASE LoopHead \/ Lock \/ CheckPaused \/ CheckEmpty \/ (\E e \in heap : Pop(e)) \/ PredicateHolds
             \/ TimeOut \/ Reacquire \/ PutBack \/ PutNotify \/ Run
  BY <1>7 DEF LoopHead, Lock, CheckPaused, CheckEmpty, Pop, PredicateHolds, TimeOut, Reacquire,
     PutBack, PutNotify, Run, From
<1>8. CASE UNCHANGED vars
  BY <1>8 DEF vars
<1>. QED
  BY <1>1, <1>2, <1>3, <1>4, <1>5, <1>6, <1>7, <1>8 DEF Next, WorkerStep, CallStep

(* No enqueue is slept through, however pushes, pauses, stops, time-outs    *)
(* and spurious wake-ups fall between the worker's tests and its waits.    *)
THEOREM PushesHeard == Spec => []NoPushMissed
<1>1. MissInv => NoPushMissed
  BY DEF MissInv
<1>. QED
  BY InitWake, StepWake, StepMissed, <1>1, PTL DEF Spec

=============================================================================
