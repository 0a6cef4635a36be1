---------------------------- MODULE WorkerWakeUp ----------------------------
(***************************************************************************)
(* How the threads of PendingCopyScheduler (src/core/job_scheduler.cpp)    *)
(* meet: mutex_ and the condition variable wake_, the atomics              *)
(* stop_requested_ and paused_, which are set without holding the mutex,   *)
(* and the three waits of worker_loop.  What the worker does with a job is *)
(* CopyScheduler's business; here an entry is popped and run.              *)
(***************************************************************************)
EXTENDS Integers

CONSTANTS
  Ids,        \* heap entries ever pushed by the activity thread
  MaxTime,    \* bound: the clock stops here
  Controls,   \* what the service may call: a subset of {"pause", "stop"}
  None

ASSUME WakeUpAssumption ==
  MaxTime \in Nat /\ Controls \subseteq {"pause", "stop"} /\ None \notin Nat

VARIABLES
  mutex,      \* mutex_: "worker" or "free"; the other holders never block
  stop,       \* stop_requested_
  paused,     \* paused_
  heap,       \* heap_
  worker,     \* where worker_loop is
  deadline,   \* what a timed wait waits for, or None
  popped,     \* the entry the worker took, or None
  pusher,     \* the activity thread in enqueue: "idle" or "notify"
  control,    \* the service: "idle", "notify", "stopNotify", "joining", "joined"
  unused,     \* ids not pushed yet
  now

vars == <<mutex, stop, paused, heap, worker, deadline, popped, pusher, control, unused, now>>

Entry == [id: Ids, due: 0..MaxTime]

Waits == {"pauseWait", "emptyWait", "timedWait"}

Init ==
  /\ mutex = "free" /\ stop = FALSE /\ paused = FALSE /\ heap = {}
  /\ worker = "loop" /\ deadline = None /\ popped = None
  /\ pusher = "idle" /\ control = "idle" /\ unused = Ids /\ now = 0

-----------------------------------------------------------------------------
(* The condition variable: notify_all moves a blocked worker on to         *)
(* reacquiring the mutex, and is lost on one that has yet to block.        *)

(* Fault: the empty-heap wait is not notified. *)
FaultyRelock(wait) ==
  CASE wait = "pauseWait" -> "pauseRelock"
    [] wait = "timedWait" -> "timedRelock"
    [] OTHER              -> wait

Relock(wait) ==
  CASE wait = "pauseWait" -> "pauseRelock"
    [] wait = "emptyWait" -> "emptyRelock"
    [] wait = "timedWait" -> "timedRelock"
    [] OTHER              -> wait

NotifyAll == worker' = Relock(worker)

-----------------------------------------------------------------------------
(* The activity thread: enqueue pushes under the mutex and notifies after  *)
(* releasing it.                                                           *)

(* Fault: enqueue pushes and does not notify. *)
FaultyPush(id, due) ==
  /\ pusher = "idle" /\ mutex = "free" /\ id \in unused /\ control \in {"idle", "notify"}
  /\ heap' = heap \cup {[id |-> id, due |-> due]} /\ unused' = unused \ {id}
  /\ UNCHANGED <<mutex, stop, paused, worker, deadline, popped, pusher, control, now>>

Push(id, due) ==
  /\ pusher = "idle" /\ mutex = "free" /\ id \in unused /\ control \in {"idle", "notify"}
  /\ heap' = heap \cup {[id |-> id, due |-> due]} /\ unused' = unused \ {id}
  /\ pusher' = "notify"
  /\ UNCHANGED <<mutex, stop, paused, worker, deadline, popped, control, now>>

PushNotify ==
  /\ pusher = "notify"
  /\ NotifyAll
  /\ pusher' = "idle"
  /\ UNCHANGED <<mutex, stop, paused, heap, deadline, popped, control, unused, now>>

-----------------------------------------------------------------------------
(* The service thread: set_paused and stop write the flag, then notify,    *)
(* without the mutex.                                                      *)

SetPaused ==
  /\ control = "idle" /\ "pause" \in Controls
  /\ paused' = ~paused
  /\ control' = "notify"
  /\ UNCHANGED <<mutex, stop, heap, worker, deadline, popped, pusher, unused, now>>

PausedNotify ==
  /\ control = "notify"
  /\ NotifyAll
  /\ control' = "idle"
  /\ UNCHANGED <<mutex, stop, paused, heap, deadline, popped, pusher, unused, now>>

(* The activity source has been stopped before, so nobody pushes. *)
RequestStop ==
  /\ control = "idle" /\ "stop" \in Controls /\ pusher = "idle"
  /\ stop' = TRUE
  /\ control' = "stopNotify"
  /\ UNCHANGED <<mutex, paused, heap, worker, deadline, popped, pusher, unused, now>>

StopNotify ==
  /\ control = "stopNotify"
  /\ NotifyAll
  /\ control' = "joining"
  /\ UNCHANGED <<mutex, stop, paused, heap, deadline, popped, pusher, unused, now>>

Join ==
  /\ control = "joining" /\ worker = "exited"
  /\ control' = "joined"
  /\ UNCHANGED <<mutex, stop, paused, heap, worker, deadline, popped, pusher, unused, now>>

-----------------------------------------------------------------------------
(* The worker.                                                             *)

Others == UNCHANGED <<stop, paused, pusher, control, unused, now>>

From(a, b) == worker = a /\ worker' = b /\ Others

LoopHead ==
  /\ From("loop", IF stop THEN "exited" ELSE "lock")
  /\ UNCHANGED <<mutex, heap, deadline, popped>>

Lock ==
  /\ From("lock", "check") /\ mutex = "free"
  /\ mutex' = "worker"
  /\ UNCHANGED <<heap, deadline, popped>>

(* The first two tests under the lock. *)
CheckPaused ==
  /\ From("check", "pausePredicate") /\ paused
  /\ UNCHANGED <<mutex, heap, deadline, popped>>

CheckEmpty ==
  /\ From("check", "emptyPredicate") /\ ~paused /\ heap = {}
  /\ UNCHANGED <<mutex, heap, deadline, popped>>

Top(e) == e \in heap /\ \A f \in heap : e.due <= f.due

(* The top is not due: wait_until blocks once, without a predicate. *)
CheckEarly ==
  /\ From("check", "timedBlock") /\ ~paused
  /\ \E e \in heap : Top(e) /\ e.due > now /\ deadline' = e.due
  /\ UNCHANGED <<mutex, heap, popped>>

Pop(e) ==
  /\ From("check", "popped") /\ ~paused
  /\ Top(e) /\ e.due <= now
  /\ heap' = heap \ {e} /\ popped' = e
  /\ mutex' = "free"
  /\ UNCHANGED deadline

(* wait(lock, predicate): the predicate is tested with the mutex held, and  *)
(* blocking releases it.  A true predicate continues the loop, unlocking.  *)
PredicateHolds ==
  /\ \/ From("pausePredicate", "loop") /\ (stop \/ ~paused)
     \/ From("emptyPredicate", "loop") /\ (stop \/ heap # {})
  /\ mutex' = "free"
  /\ UNCHANGED <<heap, deadline, popped>>

PredicateFails ==
  /\ \/ From("pausePredicate", "pauseBlock") /\ ~stop /\ paused
     \/ From("emptyPredicate", "emptyBlock") /\ ~stop /\ heap = {}
  /\ UNCHANGED <<mutex, heap, deadline, popped>>

(* Fault: the worker blocks with the mutex held. *)
FaultyBlock ==
  /\ \/ From("pauseBlock", "pauseWait")
     \/ From("emptyBlock", "emptyWait")
     \/ From("timedBlock", "timedWait")
  /\ UNCHANGED <<mutex, heap, deadline, popped>>

Block ==
  /\ \/ From("pauseBlock", "pauseWait")
     \/ From("emptyBlock", "emptyWait")
     \/ From("timedBlock", "timedWait")
  /\ mutex' = "free"
  /\ UNCHANGED <<heap, deadline, popped>>

(* A wait may end without a notification, a timed one does at its time. *)
WakeSpuriously ==
  /\ worker \in Waits /\ NotifyAll
  /\ Others /\ UNCHANGED <<mutex, heap, deadline, popped>>

TimeOut ==
  /\ From("timedWait", "timedRelock") /\ deadline <= now
  /\ UNCHANGED <<mutex, heap, deadline, popped>>

Reacquire ==
  /\ mutex = "free"
  /\ \/ From("pauseRelock", "pausePredicate") /\ mutex' = "worker"
     \/ From("emptyRelock", "emptyPredicate") /\ mutex' = "worker"
     \/ From("timedRelock", "loop") /\ mutex' = "free"
  /\ deadline' = None
  /\ UNCHANGED <<heap, popped>>

(* Unlocked: a pause that landed since the pop puts the entry back. *)
PutBack ==
  /\ From("popped", "putNotify") /\ paused /\ mutex = "free"
  /\ heap' = heap \cup {popped} /\ popped' = None
  /\ UNCHANGED <<mutex, deadline>>

(* The notification of the worker's own enqueue finds nobody waiting. *)
PutNotify ==
  /\ From("putNotify", "loop")
  /\ UNCHANGED <<mutex, heap, deadline, popped>>

Run ==
  /\ From("popped", "loop") /\ ~paused
  /\ popped' = None
  /\ UNCHANGED <<mutex, heap, deadline>>

-----------------------------------------------------------------------------

Tick ==
  /\ now < MaxTime /\ now' = now + 1
  /\ UNCHANGED <<mutex, stop, paused, heap, worker, deadline, popped, pusher, control, unused>>

WorkerStep ==
  \/ LoopHead \/ Lock \/ CheckPaused \/ CheckEmpty \/ CheckEarly
  \/ \E e \in heap : Pop(e)
  \/ PredicateHolds \/ PredicateFails \/ Block \/ TimeOut \/ Reacquire
  \/ PutBack \/ PutNotify \/ Run

CallStep == PushNotify \/ PausedNotify \/ StopNotify \/ Join

Next ==
  \/ WorkerStep \/ WakeSpuriously \/ CallStep
  \/ SetPaused \/ RequestStop \/ Tick
  \/ \E id \in Ids, due \in 0..MaxTime : Push(id, due)

Spec == Init /\ [][Next]_vars

(* Threads run and calls once made go on; nobody has to make one, and a    *)
(* spurious wake-up cannot be counted on.                                  *)
FairSpec ==
  /\ Spec
  /\ WF_vars(WorkerStep)
  /\ WF_vars(PushNotify) /\ WF_vars(PausedNotify) /\ WF_vars(StopNotify) /\ WF_vars(Join)
  /\ WF_vars(Tick)

-----------------------------------------------------------------------------

Locked == {"check", "pausePredicate", "emptyPredicate", "pauseBlock", "emptyBlock", "timedBlock"}
Unlocked == {"loop", "exited", "lock", "popped", "putNotify", "pauseRelock", "emptyRelock", "timedRelock"}

TypeOK ==
  /\ mutex \in {"free", "worker"} /\ (mutex = "worker" <=> worker \in Locked)
  /\ stop \in BOOLEAN /\ paused \in BOOLEAN
  /\ heap \in SUBSET Entry /\ popped \in Entry \cup {None}
  /\ worker \in Locked \cup Unlocked \cup Waits
  /\ deadline \in 0..MaxTime \cup {None}
  /\ worker \in {"timedBlock", "timedWait"} => deadline # None
  /\ pusher \in {"idle", "notify"}
  /\ control \in {"idle", "notify", "stopNotify", "joining", "joined"}
  /\ unused \in SUBSET Ids /\ now \in 0..MaxTime

(* No enqueue is slept through: a worker blocked on an empty heap really    *)
(* has an empty heap, and one blocked until a time has nothing due sooner, *)
(* unless the notification of the push is still to come.                   *)
NoPushMissed ==
  /\ worker \in {"emptyBlock", "emptyWait"} => heap = {} \/ pusher = "notify"
  /\ worker \in {"timedBlock", "timedWait"} =>
       (\A e \in heap : deadline <= e.due) \/ pusher = "notify"

(* Every entry pushed is popped once it is due, if the scheduler is in the *)
(* end neither paused nor stopped and the worker is not left in the wait   *)
(* for the end of a pause: a resume whose notification came before that    *)
(* wait began is the one way to sleep through one.                         *)
PushTakenUp ==
  <>[](~stop /\ ~paused /\ worker # "pauseWait") => \A id \in Ids :
    (\E e \in heap : e.id = id) ~> ~(\E e \in heap : e.id = id)

(* job_scheduler.h: stop() "Signals the worker to stop and joins it". *)
StopReturns == control = "stopNotify" ~> control = "joined"

=============================================================================
