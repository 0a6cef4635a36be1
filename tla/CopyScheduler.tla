---------------------------- MODULE CopyScheduler ----------------------------
(***************************************************************************)
(* PendingCopyScheduler (src/core/job_scheduler.cpp) at work on the cache  *)
(* index: the activity thread records accesses, a worker thread pops the   *)
(* heap of due times, runs the due jobs of the index in batches, evicts    *)
(* for room, copies through the copy engine and writes the outcome back;   *)
(* the service pauses, stops and starts it; and the process may crash.     *)
(*                                                                         *)
(* Files change under the scheduler: `ver` counts the contents a source    *)
(* file has had, and the cache holds the version a copy read.              *)
(***************************************************************************)
EXTENDS CacheIndex, Sequences, FiniteSets

CONSTANTS
  CopyDelay,    \* SchedulerSettings.copy_delay
  BatchSize,    \* SchedulerSettings.due_batch_size
  CompareHash,  \* SchedulerSettings.compare_hash_before_overwrite
  Evicts,       \* a free-space provider is set and min_free_bytes is not 0
  HashFails,    \* reading a file to hash it may throw
  RetryBase,    \* 30 s per attempt ...
  RetryCap,     \* ... and at most 300 s
  SizeOf,       \* size of each version of a source file
  MaxTime,      \* bound: the clock stops here
  MaxVersion,   \* bound: contents a source file may have
  MaxEvents,    \* bound: accesses dealt with
  Reported,     \* bound: kinds of access that are reported
  MaxRetries,   \* bound: failures counted on a job
  Environment   \* what else may happen: a subset of Happenings

ASSUME SettingsAssumption ==
  /\ CopyDelay \in Nat /\ BatchSize \in Nat \ {0}
  /\ RetryBase \in Nat /\ RetryCap \in Nat
  /\ CompareHash \in BOOLEAN /\ Evicts \in BOOLEAN /\ HashFails \in BOOLEAN

ASSUME FilesAssumption == IsFiniteSet(Files)

(* The service pauses or stops the scheduler, the process crashes, copies  *)
(* and removals fail, source files are written or deleted.                 *)
Happenings == {"pause", "stop", "crash", "fail", "write", "delete"}

ASSUME BoundsAssumption ==
  /\ MaxTime \in Nat /\ MaxVersion \in Nat \ {0}
  /\ MaxEvents \in Nat /\ Reported \subseteq Kinds /\ MaxRetries \in Nat
  /\ Environment \subseteq Happenings
  /\ SizeOf \in [1..MaxVersion -> Nat]

VARIABLES
  life,       \* "down" (no process), "running" or "stopping" (stop_requested_)
  paused,     \* paused_
  asleep,     \* the worker waits for a resume whose notification it missed
  heap,       \* heap_, in the order of its insertion sequence numbers
  observed,   \* the event reader_loop has stamped and not yet recorded, or None
  reader,     \* the entry record_event has yet to push, or None
  pc,         \* where the worker is in worker_loop and run_due_once
  hand,       \* the heap entry the worker popped
  batch,      \* jobs of the due_jobs snapshot still to process
  batchNow,   \* the now_utc of the batch, once the worker has read the clock
  current,    \* the job being processed
  victims,    \* snapshot of cached files make_room_for may still evict
  victim,     \* the victim whose cache file is gone
  copyVer     \* the source version the engine reads

VARIABLES
  now, ver, exists,   \* the clock; content version and existence of sources
  disk,               \* version in the cache file, or None
  accepted,           \* history: version when the last access made a job
  raced,              \* history: that access came while its file was copied
  renewed,            \* history: files of the batch accessed since it was read
  missed,             \* history: files whose popped job a full batch left out
  events              \* accesses dealt with so far

workVars  == <<pc, hand, batch, batchNow, current, victims, victim, copyVer>>
worldVars == <<now, ver, exists>>
askVars   == <<accepted, raced, renewed, missed>>
ghostVars == <<askVars, events>>
vars == <<rows, jobs, life, paused, asleep, heap, observed, reader, workVars, worldVars,
          disk, ghostVars>>

Entry    == [path: Files, due: Nat]
BatchJob == [path: Files, due: Nat, retries: Nat]
Seen     == [path: Files, seen: Nat]
Event    == [path: Files, kind: Kinds, at: Nat]

ASSUME SentinelAssumption == None \notin Entry \cup BatchJob \cup Event \cup Files \cup Nat

Init ==
  /\ IndexInit
  /\ life = "down" /\ paused = FALSE /\ asleep = FALSE
  /\ heap = <<>> /\ observed = None /\ reader = None
  /\ pc = "exited" /\ hand = None /\ batch = {} /\ batchNow = 0
  /\ current = None /\ victims = {} /\ victim = None /\ copyVer = None
  /\ now = 0
  /\ ver = [p \in Files |-> 1] /\ exists = [p \in Files |-> TRUE]
  /\ disk = [p \in Files |-> None]
  /\ accepted = [p \in Files |-> 0] /\ raced = [p \in Files |-> FALSE]
  /\ renewed = {} /\ missed = {} /\ events = 0

-----------------------------------------------------------------------------
(* The heap.  Entries are kept in the order they were pushed, so the first *)
(* entry with the least due time is the one HeapEntryLater puts on top.    *)

(* Fault: due times enter the heap as exact as the clock. *)
FaultyPushed(p, due) == Append(heap, [path |-> p, due |-> due])

(* enqueue rounds to the second, as the index does: the two must be equal. *)
Pushed(p, due) == Append(heap, [path |-> p, due |-> Stored(due)])

IsTop(i) ==
  /\ \A j \in DOMAIN heap : heap[i].due <= heap[j].due
  /\ \A j \in 1..(i - 1) : heap[i].due < heap[j].due

Without(i) ==
  [j \in 1..(Len(heap) - 1) |-> IF j < i THEN heap[j] ELSE heap[j + 1]]

-----------------------------------------------------------------------------
(* The activity thread: reader_loop, the service's filters, record_event.  *)

(* reader_loop stamps an event with the clock as it gets it.  What follows *)
(* takes time before anything is recorded: the filters of the service open *)
(* the requesting process and look the file up on the network.             *)
Observe(p, kind) ==
  /\ life = "running" /\ observed = None /\ reader = None /\ events < MaxEvents
  /\ observed' = [path |-> p, kind |-> kind, at |-> now]
  /\ UNCHANGED <<indexVars, life, paused, asleep, heap, reader, workVars, worldVars, disk,
                 ghostVars>>

Accept ==
  /\ observed # None /\ observed' = None
  /\ events' = events + 1
  /\ UNCHANGED <<life, paused, asleep, heap, workVars, worldVars, disk>>

(* The filters of the service find the event none of its business. *)
IgnoreEvent ==
  /\ Accept
  /\ UNCHANGED <<indexVars, reader, askVars>>

(* While paused every event is dropped, deletions included. *)
DropEvent ==
  /\ paused
  /\ Accept
  /\ UNCHANGED <<indexVars, reader, askVars>>

(* The worker is between reading the source of p and dropping its job. *)
Copying(p) == current # None /\ current.path = p /\ pc \in {"copying", "copied", "marked"}

(* An access that schedules a copy: the index commits first, the heap entry *)
(* follows in PushEvent.  Both take the time the event was stamped with.   *)
(* The driver never fills in the size hint.  A pause between the test of   *)
(* paused_ and the commit is the same as one after the commit: the worker  *)
(* that sees it does no more than put its entry back.                      *)
RecordCopyWorthy(p, kind) ==
  /\ ~paused /\ observed # None /\ observed.path = p /\ observed.kind = kind
  /\ kind \in CopyKinds
  /\ RecordAccess(p, kind, observed.at, 0, CopyDelay)
  /\ reader' = [path |-> p, due |-> observed.at + CopyDelay]
  /\ accepted' = [accepted EXCEPT ![p] = ver[p]]
  /\ raced' = [raced EXCEPT ![p] = Copying(p)]
  /\ renewed' = renewed \cup {q \in {p} : \E j \in batch : j.path = q}
  /\ missed' = missed \ {p}
  /\ Accept

(* enqueue notifies under the mutex: a worker that missed a resume wakes.  *)
PushEvent ==
  /\ reader # None
  /\ heap' = Pushed(reader.path, reader.due)
  /\ reader' = None /\ asleep' = FALSE
  /\ UNCHANGED <<rows, jobs, life, paused, observed, workVars, worldVars, disk, ghostVars>>

(* Writes in progress and renames only touch the files row. *)
RecordOther(p, kind) ==
  /\ ~paused /\ observed # None /\ observed.path = p /\ observed.kind = kind
  /\ kind \notin CopyKinds \cup {"Delete"}
  /\ RecordAccess(p, kind, observed.at, 0, CopyDelay)
  /\ Accept
  /\ UNCHANGED <<reader, askVars>>

RecordDelete(p) ==
  /\ ~paused /\ observed # None /\ observed.path = p /\ observed.kind = "Delete"
  /\ MarkRemoved(p)
  /\ Accept
  /\ UNCHANGED <<reader, askVars>>

RecordEvent(p) ==
  \/ \E kind \in Kinds : RecordCopyWorthy(p, kind) \/ RecordOther(p, kind)
  \/ RecordDelete(p)

-----------------------------------------------------------------------------
(* The worker: worker_loop.                                                *)

KeepOutside == UNCHANGED <<life, paused, asleep, observed, reader, worldVars, ghostVars>>
Goto(l) == pc' = l /\ KeepOutside

(* The loop head: not stopping, not paused, and the top entry is due. *)
Pop(i) ==
  /\ pc = "top" /\ life = "running" /\ ~paused /\ ~asleep
  /\ IsTop(i) /\ heap[i].due <= now
  /\ hand' = heap[i]
  /\ heap' = Without(i)
  /\ Goto("popped")
  /\ UNCHANGED <<indexVars, disk, batch, batchNow, current, victims, victim, copyVer>>

(* Fault: the popped entry is not put back. *)
FaultyPutBack ==
  /\ pc = "popped" /\ paused
  /\ hand' = None
  /\ Goto("top")
  /\ UNCHANGED <<indexVars, disk, heap, batch, batchNow, current, victims, victim, copyVer>>

(* A pause landed after the pop: the entry goes back. *)
PutBack ==
  /\ pc = "popped" /\ paused
  /\ heap' = Pushed(hand.path, hand.due)
  /\ hand' = None
  /\ Goto("top")
  /\ UNCHANGED <<indexVars, disk, batch, batchNow, current, victims, victim, copyVer>>

(* No such job any more, or one that is due at another time.  The code      *)
(* tests paused_ before it looks the job up; a pause between the two is    *)
(* the same as one after the lookup, which nothing else can tell apart.    *)
SkipStale ==
  /\ pc = "popped" /\ ~paused
  /\ HasJob(hand.path) => jobs[hand.path].due # hand.due
  /\ hand' = None
  /\ Goto("top")
  /\ UNCHANGED <<indexVars, disk, heap, batch, batchNow, current, victims, victim, copyVer>>

(* The job is the entry's: the worker reads the clock for run_due_once. *)
Lookup ==
  /\ pc = "popped" /\ ~paused
  /\ HasJob(hand.path) /\ jobs[hand.path].due = hand.due
  /\ batchNow' = now
  /\ Goto("select")
  /\ UNCHANGED <<indexVars, disk, heap, hand, batch, current, victims, victim, copyVer>>

WorkerExit ==
  /\ pc = "top" /\ life = "stopping"
  /\ Goto("exited")
  /\ UNCHANGED <<indexVars, disk, heap, hand, batch, batchNow, current, victims, victim, copyVer>>

-----------------------------------------------------------------------------
(* The worker: run_due_once.                                               *)

(* What due_jobs may return: BatchSize of the due jobs, earliest first.    *)
Selection(t) ==
  {D \in SUBSET DuePaths(t) :
     /\ Cardinality(D) <= BatchSize
     /\ D # DuePaths(t) => Cardinality(D) = BatchSize
     /\ \A p \in D, q \in DuePaths(t) \ D : jobs[p].due <= jobs[q].due}

Snapshot(D) ==
  {[path |-> p, due |-> jobs[p].due, retries |-> jobs[p].retries] : p \in D}

(* The popped job, when the LIMIT of the query leaves it out. *)
LeftOut(D) == {p \in {hand.path} : HasJob(p) /\ jobs[p].due = hand.due} \ D

SelectBatch ==
  /\ pc = "select"
  /\ \E D \in Selection(batchNow) :
       /\ batch' = Snapshot(D)
       /\ missed' = (missed \ D) \cup LeftOut(D)
  /\ pc' = "next"
  /\ UNCHANGED <<indexVars, life, paused, asleep, observed, reader, worldVars, accepted, raced,
                 renewed, events, disk, heap, hand, batchNow, current, victims, victim, copyVer>>

NextJob ==
  /\ pc = "next"
  /\ \E j \in batch : (\A k \in batch : j.due <= k.due) /\ current' = j
  /\ Goto("room")
  /\ UNCHANGED <<indexVars, disk, heap, hand, batch, batchNow, victims, victim, copyVer>>

(* run_due_once returns to the loop. *)
Leave ==
  /\ pc' = "top" /\ hand' = None /\ batch' = {} /\ batchNow' = 0 /\ current' = None
  /\ copyVer' = None /\ renewed' = {}
  /\ UNCHANGED <<life, paused, asleep, observed, reader, worldVars, accepted, raced, missed, events,
                 disk, heap, victims, victim>>

BatchDone == pc = "next" /\ batch = {} /\ Leave /\ UNCHANGED indexVars

(* Fault: the finished job stays the current one. *)
FaultyFinishJob ==
  /\ batch' = batch \ {current} /\ copyVer' = None
  /\ Goto("next")
  /\ UNCHANGED <<current, hand, batchNow, victims, victim>>

(* The current job is dealt with: the loop goes on to the next one. *)
FinishJob ==
  /\ batch' = batch \ {current} /\ current' = None /\ copyVer' = None
  /\ Goto("next")
  /\ UNCHANGED <<hand, batchNow, victims, victim>>

-----------------------------------------------------------------------------
(* The worker: make_room_for.  How much room is free is the volume's        *)
(* business: any number of victims may turn out to be enough.              *)

RoomEnough ==
  /\ pc = "room"
  /\ Goto("copy")
  /\ UNCHANGED <<indexVars, disk, heap, hand, batch, batchNow, current, victims, victim, copyVer>>

ListVictims ==
  /\ pc = "room" /\ Evicts
  /\ victims' = {[path |-> p, seen |-> rows[p].seen] : p \in CachedPaths \ {current.path}}
  /\ Goto("evict")
  /\ UNCHANGED <<indexVars, disk, heap, hand, batch, batchNow, current, victim, copyVer>>

Oldest(v) == \A w \in victims : v.seen <= w.seen

EvictFile(v) ==
  /\ pc = "evict" /\ Oldest(v)
  /\ disk' = [disk EXCEPT ![v.path] = None]
  /\ victims' = victims \ {v} /\ victim' = v.path
  /\ Goto("evicted")
  /\ UNCHANGED <<indexVars, heap, hand, batch, batchNow, current, copyVer>>

(* The cache file cannot be removed: the next candidate is tried. *)
EvictFails(v) ==
  /\ pc = "evict" /\ Oldest(v) /\ "fail" \in Environment
  /\ victims' = victims \ {v}
  /\ Goto("evict")
  /\ UNCHANGED <<indexVars, disk, heap, hand, batch, batchNow, current, victim, copyVer>>

MarkEvicted ==
  /\ pc = "evicted"
  /\ MarkRemoved(victim)
  /\ victim' = None
  /\ Goto("evict")
  /\ UNCHANGED <<disk, heap, hand, batch, batchNow, current, victims, copyVer>>

EvictDone ==
  /\ pc = "evict"
  /\ victims' = {}
  /\ Goto("copy")
  /\ UNCHANGED <<indexVars, disk, heap, hand, batch, batchNow, current, victim, copyVer>>

-----------------------------------------------------------------------------
(* The worker: copy_and_hash.  CopyBegin fixes the oldest content the copy *)
(* may hold; the temporary file is renamed over the cache file at the end. *)

Mine == current.path

CopyBegin ==
  /\ pc = "copy" /\ exists[Mine]
  /\ copyVer' = ver[Mine]
  /\ raced' = [raced EXCEPT ![Mine] = FALSE]
  /\ pc' = "copying"
  /\ UNCHANGED <<indexVars, life, paused, asleep, observed, reader, worldVars, accepted, renewed,
                 missed, events, disk, heap, hand, batch, batchNow, current, victims, victim>>

SourceMissing ==
  /\ pc = "copy" /\ ~exists[Mine]
  /\ Goto("missing")
  /\ UNCHANGED <<indexVars, disk, heap, hand, batch, batchNow, current, victims, victim, copyVer>>

SameSize == disk[Mine] # None /\ SizeOf[disk[Mine]] = SizeOf[copyVer]

(* Fault: files of the same size are never compared. *)
FaultyKeepsCopy == SameSize

(* SkippedSameSize, or SkippedHashMatch when hashes are compared. *)
KeepsCopy == SameSize /\ (CompareHash => disk[Mine] = copyVer)

Copied ==
  /\ pc = "copying"
  /\ disk' = IF KeepsCopy THEN disk ELSE [disk EXCEPT ![Mine] = copyVer]
  /\ Goto("copied")
  /\ UNCHANGED <<indexVars, heap, hand, batch, batchNow, current, victims, victim, copyVer>>

MayFail == "fail" \in Environment /\ current.retries < MaxRetries

CopyFails ==
  /\ pc = "copying" /\ MayFail
  /\ Goto("failed")
  /\ UNCHANGED <<indexVars, disk, heap, hand, batch, batchNow, current, victims, victim, copyVer>>

(* Stopping cancels the copy, keeps the job and abandons the batch. *)
Cancelled ==
  /\ pc = "copying" /\ life = "stopping" /\ ~KeepsCopy
  /\ Leave
  /\ UNCHANGED indexVars

(* hash_existing_file throws outside the engine's try block: the exception *)
(* ends the batch, and the error is charged to the popped entry's path.    *)
CopyThrows ==
  /\ pc = "copying" /\ HashFails /\ CompareHash /\ SameSize
  /\ RecordError(hand.path)
  /\ Leave

-----------------------------------------------------------------------------
(* The worker: the outcome is written back.                                *)

(* Fault: the job goes without the copy being recorded. *)
FaultyMarkCopied ==
  /\ pc = "copied"
  /\ RemovePendingJob(Mine)
  /\ Goto("marked")
  /\ UNCHANGED <<disk, heap, hand, batch, batchNow, current, victims, victim, copyVer>>

MarkCopied ==
  /\ pc = "copied"
  /\ MarkCached(Mine, SizeOf[copyVer], SizeOf[disk[Mine]])
  /\ Goto("marked")
  /\ UNCHANGED <<disk, heap, hand, batch, batchNow, current, victims, victim, copyVer>>

DropJob ==
  /\ pc = "marked"
  /\ RemovePendingJob(Mine)
  /\ FinishJob
  /\ UNCHANGED <<disk, heap>>

RemoveStaleCopy ==
  /\ pc = "missing"
  /\ disk' = [disk EXCEPT ![Mine] = None]
  /\ Goto("unlinked")
  /\ UNCHANGED <<indexVars, heap, hand, batch, batchNow, current, victims, victim, copyVer>>

(* Fault: the stale copy is gone, but only the job is dropped. *)
FaultyMarkMissing ==
  /\ pc = "unlinked"
  /\ RemovePendingJob(Mine)
  /\ FinishJob
  /\ UNCHANGED <<disk, heap>>

MarkMissing ==
  /\ pc = "unlinked"
  /\ MarkRemoved(Mine)
  /\ FinishJob
  /\ UNCHANGED <<disk, heap>>

RemoveFails ==
  /\ pc = "missing" /\ disk[Mine] # None /\ MayFail
  /\ Goto("failed")
  /\ UNCHANGED <<indexVars, disk, heap, hand, batch, batchNow, current, victims, victim, copyVer>>

Backoff(retries) ==
  LET wait == RetryBase * (retries + 1) IN IF wait < RetryCap THEN wait ELSE RetryCap

RetryDue == batchNow + Backoff(current.retries)

CountFailure ==
  /\ pc = "failed"
  /\ RecordError(Mine)
  /\ Goto("counted")
  /\ UNCHANGED <<disk, heap, hand, batch, batchNow, current, victims, victim, copyVer>>

Reschedule ==
  /\ pc = "counted"
  /\ UpsertPendingJob(Mine, RetryDue)
  /\ Goto("requeue")
  /\ UNCHANGED <<disk, heap, hand, batch, batchNow, current, victims, victim, copyVer>>

(* Fault: the retry is written to the index only. *)
FaultyPushRetry ==
  /\ pc = "requeue"
  /\ FinishJob
  /\ UNCHANGED <<indexVars, disk, heap>>

PushRetry ==
  /\ pc = "requeue"
  /\ heap' = Pushed(Mine, RetryDue)
  /\ FinishJob
  /\ UNCHANGED <<indexVars, disk>>

-----------------------------------------------------------------------------
(* The service: start, set_paused, stop, and the loss of the process.      *)

KeepWork == UNCHANGED <<batch, batchNow, current, victims, victim, copyVer>>

(* load_pending_jobs: the jobs by due time, ties in any order. *)
Loads(s) ==
  /\ \A e \in {s[i] : i \in DOMAIN s} : HasJob(e.path) /\ e.due = jobs[e.path].due
  /\ \A i, j \in DOMAIN s : i < j => s[i].due <= s[j].due /\ s[i].path # s[j].path
  /\ \A p \in Files : HasJob(p) => \E i \in DOMAIN s : s[i].path = p

JobEntries == {[path |-> p, due |-> jobs[p].due] : p \in {q \in Files : HasJob(q)}}

Start ==
  /\ life = "down"
  /\ \E s \in [1..Cardinality(JobEntries) -> JobEntries] :
       Loads(s) /\ heap' = s
  /\ life' = "running" /\ pc' = "top" /\ missed' = {}
  /\ UNCHANGED <<indexVars, paused, asleep, observed, reader, hand, worldVars, disk,
                 accepted, raced, renewed, events>> /\ KeepWork

(* set_paused does not take the mutex: a resume can fall between the       *)
(* worker's test of paused_ and its wait, which then sleeps through it     *)
(* until the next notification.                                            *)
SetPaused(b) ==
  /\ life = "running" /\ paused # b /\ "pause" \in Environment
  /\ paused' = b
  /\ asleep' \in {FALSE, ~b /\ pc = "top"}
  /\ UNCHANGED <<indexVars, life, heap, observed, reader, workVars, worldVars, disk, ghostVars>>

(* The service stops the activity source first, so no event is in flight.  *)
(* That stop() may sleep through its own notification is WorkerWakeUp's.   *)
Stop ==
  /\ life = "running" /\ observed = None /\ reader = None /\ "stop" \in Environment
  /\ life' = "stopping" /\ asleep' = FALSE
  /\ UNCHANGED <<indexVars, paused, heap, observed, reader, workVars, worldVars, disk, ghostVars>>

(* The process ends: the index and the files stay, the rest is gone. *)
Ends ==
  /\ life' = "down" /\ paused' = FALSE /\ asleep' = FALSE
  /\ heap' = <<>> /\ observed' = None /\ reader' = None
  /\ pc' = "exited" /\ hand' = None /\ batch' = {} /\ batchNow' = 0
  /\ current' = None /\ victims' = {} /\ victim' = None /\ copyVer' = None
  /\ renewed' = {}
  /\ UNCHANGED <<indexVars, worldVars, disk, accepted, raced, missed, events>>

(* stop() joins the worker; the scheduler is a local of run_worker, so it  *)
(* goes with its heap.                                                     *)
Join == life = "stopping" /\ pc = "exited" /\ Ends

Crash == life # "down" /\ "crash" \in Environment /\ Ends

-----------------------------------------------------------------------------
(* The world.                                                              *)

KeepProgram ==
  UNCHANGED <<indexVars, life, paused, asleep, heap, observed, reader, workVars, disk, ghostVars>>

Tick == now < MaxTime /\ now' = now + 1 /\ KeepProgram /\ UNCHANGED <<ver, exists>>

SourceWrite(p) ==
  /\ "write" \in Environment /\ ver[p] < MaxVersion
  /\ ver' = [ver EXCEPT ![p] = @ + 1] /\ exists' = [exists EXCEPT ![p] = TRUE]
  /\ KeepProgram /\ UNCHANGED now

SourceDelete(p) ==
  /\ "delete" \in Environment /\ exists[p]
  /\ exists' = [exists EXCEPT ![p] = FALSE]
  /\ KeepProgram /\ UNCHANGED <<now, ver>>

-----------------------------------------------------------------------------

WorkerStep ==
  \/ \E i \in DOMAIN heap : Pop(i)
  \/ PutBack \/ SkipStale \/ Lookup \/ WorkerExit
  \/ SelectBatch \/ NextJob \/ BatchDone
  \/ RoomEnough \/ ListVictims \/ MarkEvicted \/ EvictDone
  \/ \E v \in victims : EvictFile(v) \/ EvictFails(v)
  \/ CopyBegin \/ SourceMissing \/ Copied \/ CopyFails \/ Cancelled \/ CopyThrows
  \/ MarkCopied \/ DropJob \/ RemoveStaleCopy \/ MarkMissing \/ RemoveFails
  \/ CountFailure \/ Reschedule \/ PushRetry

ReaderStep ==
  \/ IgnoreEvent \/ DropEvent \/ PushEvent
  \/ \E p \in Files : RecordEvent(p) \/ \E kind \in Reported : Observe(p, kind)

ControlStep ==
  \/ Start \/ Stop \/ Join \/ Crash
  \/ \E b \in BOOLEAN : SetPaused(b)

WorldStep == Tick \/ \E p \in Files : SourceWrite(p) \/ SourceDelete(p)

Next == WorkerStep \/ ReaderStep \/ ControlStep \/ WorldStep

Spec == Init /\ [][Next]_vars

(* Threads run when they can and time passes; nobody has to access a file, *)
(* pause, stop or start the service.                                       *)
FairSpec ==
  /\ Spec
  /\ WF_vars(WorkerStep) /\ WF_vars(PushEvent) /\ WF_vars(Tick)

-----------------------------------------------------------------------------
(* Properties.                                                             *)

Idle == {"exited", "top"}
AtJob == {"room", "evict", "evicted", "copy", "copying", "copied", "marked",
          "missing", "unlinked", "failed", "counted", "requeue"}

ControlTypeOK ==
  /\ life \in {"down", "running", "stopping"} /\ paused \in BOOLEAN
  /\ asleep \in BOOLEAN /\ (asleep => pc = "top" /\ life = "running")
  /\ heap \in Seq(Entry)
  /\ observed \in Event \cup {None} /\ reader \in Entry \cup {None}
  /\ observed = None \/ reader = None

WorkerTypeOK ==
  /\ pc \in Idle \cup AtJob \cup {"popped", "select", "next"}
  /\ life = "down" => pc = "exited"
  /\ hand \in Entry \cup {None} /\ (hand = None <=> pc \in Idle)
  /\ batch \in SUBSET BatchJob /\ batchNow \in Nat
  /\ current \in batch \cup {None} /\ (current # None <=> pc \in AtJob)
  /\ victims \in SUBSET Seen
  /\ victim \in Files \cup {None} /\ (victim # None <=> pc = "evicted")
  /\ copyVer \in 1..MaxVersion \cup {None}
  /\ pc \in {"copying", "copied", "marked"} => copyVer # None
  /\ pc = "copied" => disk[Mine] # None

WorldTypeOK ==
  /\ now \in Nat
  /\ ver \in [Files -> 1..MaxVersion] /\ exists \in [Files -> BOOLEAN]
  /\ disk \in [Files -> 1..MaxVersion \cup {None}]
  /\ accepted \in [Files -> 0..MaxVersion] /\ raced \in [Files -> BOOLEAN]
  /\ renewed \subseteq Files /\ missed \subseteq Files /\ events \in Nat

(* The types of the variables, and which of the worker's locals are set at *)
(* which point of worker_loop and run_due_once.                            *)
TypeOK == IndexTypeOK /\ ControlTypeOK /\ WorkerTypeOK /\ WorldTypeOK

(* A heap entry for the job of p at exactly its due time is in the heap or *)
(* about to be pushed, or the worker holds it, or has p in its batch.      *)
Covered(p) ==
  LET e == [path |-> p, due |-> jobs[p].due] IN
  \/ \E i \in DOMAIN heap : heap[i] = e
  \/ reader # None /\ reader.path = p /\ Stored(reader.due) = jobs[p].due
  \/ hand = e /\ pc \in {"popped", "select"}
  \/ \E j \in batch : j.path = p /\ (pc = "requeue" => j # current)
  \/ pc = "requeue" /\ Mine = p /\ Stored(RetryDue) = jobs[p].due

(* No job is orphaned but in one way: whatever accesses, pauses, retries,   *)
(* evictions and restarts did, every pending job of the index still has    *)
(* the exact entry that will make worker_loop take it up, unless that      *)
(* entry was popped for a batch that was full without it (more than        *)
(* due_batch_size jobs due, the popped one tied with others).              *)
JobCovered ==
  life = "running" => \A p \in Files : HasJob(p) => Covered(p) \/ p \in missed

(* A file the index calls present has a cache file, except between the     *)
(* removal of that file by the worker and the transaction that records it. *)
PresentHasFile ==
  \A p \in Files : p \in CachedPaths =>
    \/ disk[p] # None
    \/ pc = "evicted" /\ victim = p
    \/ pc = "unlinked" /\ Mine = p

(* A cached file with no job pending holds at least the content its last   *)
(* copy-worthy access reported, unless that access came while the file was *)
(* being copied: the one window in which an update can be lost.            *)
FreshUnlessRaced ==
  \A p \in CachedPaths :
    ~HasJob(p) => raced[p] \/ (disk[p] # None => disk[p] >= accepted[p])

(* A copy starts ahead of the time its job is due at, that is within the   *)
(* quiet period of an access ("Each new access to the same file resets the *)
(* timer", README.md), only if that access was recorded after run_due_once *)
(* had read its batch.  The access itself may have come earlier: it does   *)
(* not reset the timer until the filters let it pass.                      *)
StartsCopy == pc = "copy" /\ pc' = "copying"
QuietPeriodKept ==
  [][StartsCopy /\ HasJob(Mine) /\ jobs[Mine].due > now => Mine \in renewed]_vars

(* No pending job stays due for ever: it is eventually taken up, i.e.      *)
(* copied, dropped or given a later due time, when the service in the end  *)
(* stays up and unpaused.  Two ways to be forgotten are known and excused: *)
(* a worker that slept through the last resume, which nothing wakes but    *)
(* the next access, and a job that a full batch left out.                  *)
Active == life = "running" /\ ~paused /\ ~asleep
EventuallyTakenUp ==
  <>[]Active => \A p \in Files : []<>~(HasJob(p) /\ jobs[p].due <= now /\ p \notin missed)

(* The scheduler, which may throw its program state away at any time,      *)
(* implements CopyRequests: the request of a file is its pending job.      *)
Requests == INSTANCE CopyRequests WITH
  wanted <- {p \in Files : HasJob(p)}, cached <- CachedPaths, held <- disk,
  asked <- accepted, late <- {p \in Files : raced[p]}, heard <- events

(* Every step of the scheduler keeps the promise: no job goes unless the   *)
(* copy in the cache is the one asked for, or the record of the copy goes  *)
(* in the same transaction (mark_removed).                                 *)
RequestsKept == Requests!Spec

-----------------------------------------------------------------------------
(* A statement of the source that the code does not keep.                  *)

(* job_scheduler.cpp, on a rescheduled path: its entry "will be picked up   *)
(* when it comes due": finishing a copy never deletes a job that was       *)
(* rescheduled while the copy ran.                                         *)
RescheduledJobKept ==
  [][pc = "marked" /\ pc' = "next" /\ HasJob(Mine) => jobs[Mine].due = current.due]_vars

=============================================================================
