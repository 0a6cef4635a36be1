------------------------ MODULE CopySchedulerProofs ------------------------
(***************************************************************************)
(* Theorems about CopyScheduler for every set of files, every delay, batch *)
(* size and bound: its invariants, when copies start, and that it          *)
(* implements CopyRequests.                                                *)
(***************************************************************************)
EXTENDS CopyScheduler, CacheIndexProofs, FiniteSetTheorems, SequenceTheorems, TLAPS

USE NoneAssumption, SentinelAssumption, SettingsAssumption, BoundsAssumption

(* push_heap keeps the heap a sequence of (path, due time) entries. *)
LEMMA PushedType ==
  ASSUME heap \in Seq(Entry), NEW p \in Files, NEW d \in Nat
  PROVE  Pushed(p, d) \in Seq(Entry)
BY StoredType DEF Pushed, Entry

(* So does pop_heap with pop_back, whichever entry it takes. *)
LEMMA WithoutType ==
  ASSUME heap \in Seq(Entry), NEW i \in DOMAIN heap
  PROVE  Without(i) \in Seq(Entry)
<1>1. Without(i) \in [1..(Len(heap) - 1) -> Entry]
  BY DEF Without
<1>2. Len(heap) - 1 \in Nat
  OBVIOUS
<1>. QED
  BY <1>1, <1>2, SeqDef

(* The types, the foreign key the retry path relies on, and due times as  *)
(* the index stores them.                                                  *)
SafeTypes == TypeOK /\ JobsHaveRows /\ DueWhole

(* The state of a service whose first start is still to come is well typed. *)
LEMMA InitTypes == Init => SafeTypes
<1>. SUFFICES ASSUME Init PROVE SafeTypes
  OBVIOUS
<1>1. IndexInv
  BY IndexInitInv DEF Init
<1>2. ControlTypeOK
  BY EmptySeq DEF Init, ControlTypeOK
<1>3. WorkerTypeOK
  BY DEF Init, WorkerTypeOK, Idle, AtJob
<1>4. WorldTypeOK
  BY DEF Init, WorldTypeOK
<1>. QED
  BY <1>1, <1>2, <1>3, <1>4 DEF SafeTypes, TypeOK, IndexInv

(* While the worker is at a job, that job is a member of its batch. *)
LEMMA JobInHand ==
  ASSUME TypeOK, pc \in AtJob
  PROVE  current \in batch /\ current \in BatchJob /\ Mine \in Files /\ RetryDue \in Nat
<1>1. current \in batch /\ current \in BatchJob
  BY DEF TypeOK, WorkerTypeOK
<1>2. current.path \in Files /\ current.retries \in Nat
  BY <1>1 DEF BatchJob
<1>3. RetryBase * (current.retries + 1) \in Nat
  BY <1>2, SMT
<1>4. Backoff(current.retries) \in Nat
  BY <1>3 DEF Backoff
<1>. QED
  BY <1>1, <1>2, <1>4 DEF TypeOK, WorkerTypeOK, Mine, RetryDue

(* The event being dealt with is one of a file, stamped with a time. *)
LEMMA EventInHand ==
  ASSUME TypeOK, observed # None
  PROVE  observed.path \in Files /\ observed.at \in Nat /\ reader = None
BY DEF TypeOK, ControlTypeOK, Event

(* What an access writes to the index is stamped with a time. *)
LEMMA AccessInHand ==
  ASSUME TypeOK, NEW p \in Files, NEW kind, RecordCopyWorthy(p, kind) \/ RecordOther(p, kind)
  PROVE  /\ observed.at \in Nat /\ CopyDelay \in Nat
         /\ RecordAccess(p, kind, observed.at, 0, CopyDelay)
<1>1. RecordAccess(p, kind, observed.at, 0, CopyDelay) /\ observed # None
  BY DEF RecordCopyWorthy, RecordOther
<1>. QED
  BY <1>1, EventInHand

(* Which kinds of event schedule a copy. *)
LEMMA AccessKinds ==
  ASSUME NEW p \in Files, NEW kind \in Kinds
  PROVE  /\ RecordCopyWorthy(p, kind) => kind \in CopyKinds
         /\ RecordOther(p, kind) => kind \in Kinds \ CopyKinds
BY DEF RecordCopyWorthy, RecordOther

(* Every step of the scheduler uses the index by its own operations. *)
LEMMA IndexPreserved == SafeTypes /\ [Next]_vars => IndexInv'
<1>. SUFFICES ASSUME SafeTypes, [Next]_vars PROVE IndexInv'
  OBVIOUS
<1>0. IndexInv /\ TypeOK /\ now \in Nat /\ CopyDelay \in Nat
  BY DEF SafeTypes, TypeOK, IndexInv, WorldTypeOK
<1>1. ASSUME NEW p \in Files, NEW kind, RecordCopyWorthy(p, kind) \/ RecordOther(p, kind)
      PROVE  IndexInv'
  BY <1>1, <1>0, AccessInHand, RecordAccessInv
<1>2. ASSUME NEW p \in Files, RecordDelete(p) PROVE IndexInv'
  BY <1>2, <1>0, MarkRemovedInv DEF RecordDelete
<1>3. CASE CopyThrows
  BY <1>3, <1>0, RecordErrorInv DEF CopyThrows, TypeOK, WorkerTypeOK, Idle, Entry
<1>4. CASE MarkEvicted
  BY <1>4, <1>0, MarkRemovedInv DEF MarkEvicted, TypeOK, WorkerTypeOK
<1>5. CASE MarkCopied
  <2>1. pc = "copied" /\ Mine \in Files /\ MarkCached(Mine, SizeOf[copyVer], SizeOf[disk[Mine]])
    BY <1>5, <1>0, JobInHand DEF MarkCopied, AtJob
  <2>2. copyVer \in 1..MaxVersion /\ disk[Mine] \in 1..MaxVersion
    BY <2>1, <1>0 DEF TypeOK, WorkerTypeOK, WorldTypeOK
  <2>. QED
    BY <2>1, <2>2, <1>0, MarkCachedInv
<1>6. CASE DropJob
  BY <1>6, <1>0, JobInHand, RemovePendingJobInv DEF DropJob, AtJob
<1>7. CASE MarkMissing
  BY <1>7, <1>0, JobInHand, MarkRemovedInv DEF MarkMissing, AtJob
<1>8. CASE Reschedule
  BY <1>8, <1>0, JobInHand, UpsertPendingJobInv DEF Reschedule, AtJob
<1>9. CASE CountFailure
  BY <1>9, <1>0, JobInHand, RecordErrorInv DEF CountFailure, AtJob
<1>10. CASE UNCHANGED indexVars
  BY <1>10, <1>0, IndexStutterInv
<1>. QED
  BY <1>1, <1>2, <1>3, <1>4, <1>5, <1>6, <1>7, <1>8, <1>9, <1>10
     DEF Next, WorkerStep, ReaderStep, RecordEvent, ControlStep, WorldStep, vars, indexVars,
         PutBack, SkipStale, Lookup, WorkerExit, SelectBatch, NextJob, BatchDone, RoomEnough,
         ListVictims, EvictDone, CopyBegin, SourceMissing, Copied, CopyFails, Cancelled,
         RemoveStaleCopy, RemoveFails, PushRetry, IgnoreEvent, DropEvent, Observe, PushEvent,
         Start, Stop, Join, Crash, Ends, Tick, Pop, EvictFile, EvictFails, SetPaused,
         SourceWrite, SourceDelete, KeepProgram

(* The heap, the flags and the clock keep their types: start, stop, set_paused. *)
LEMMA ControlPreserved == SafeTypes /\ [Next]_vars => ControlTypeOK'
<1>. SUFFICES ASSUME SafeTypes, [Next]_vars PROVE ControlTypeOK'
  OBVIOUS
<1>0. TypeOK /\ ControlTypeOK /\ now \in Nat /\ CopyDelay \in Nat
  BY DEF SafeTypes, TypeOK, WorldTypeOK
<1>. USE DEF ControlTypeOK
<1>1. ASSUME NEW p \in Files, NEW kind, RecordCopyWorthy(p, kind) PROVE ControlTypeOK'
  BY <1>1, <1>0, EventInHand DEF RecordCopyWorthy, Accept, workVars, Entry
<1>11. ASSUME NEW p \in Files, NEW kind \in Kinds, Observe(p, kind) PROVE ControlTypeOK'
  BY <1>11, <1>0 DEF Observe, workVars, Event
<1>12. ASSUME Accept, reader' = reader PROVE ControlTypeOK'
  BY <1>12, <1>0 DEF Accept, workVars
<1>2. CASE PushEvent
  BY <1>2, <1>0, PushedType DEF PushEvent, workVars, Entry
<1>3. ASSUME NEW i \in DOMAIN heap, Pop(i) PROVE ControlTypeOK'
  BY <1>3, <1>0, WithoutType DEF Pop, Goto, KeepOutside
<1>4. CASE PutBack
  BY <1>4, <1>0, PushedType DEF PutBack, Goto, KeepOutside, TypeOK, WorkerTypeOK, Idle, Entry
<1>5. CASE PushRetry
  BY <1>5, <1>0, PushedType, JobInHand DEF PushRetry, FinishJob, Goto, KeepOutside, AtJob
<1>6. CASE Start
  <2>1. JobEntries \subseteq Entry
    BY <1>0 DEF JobEntries, TypeOK, IndexTypeOK, HasJob, Job, Entry
  <2>. DEFINE n == Cardinality(JobEntries)
  <2>2. PICK s \in [1..Cardinality(JobEntries) -> JobEntries] : heap' = s
    BY <1>6 DEF Start
  <2>3. Cardinality(JobEntries) \in Nat
    <3>1. IsFiniteSet({q \in Files : HasJob(q)})
      BY FilesAssumption, FS_Subset
    <3>. DEFINE f == [q \in {r \in Files : HasJob(r)} |-> [path |-> q, due |-> jobs[q].due]]
    <3>2. f \in Surjection({r \in Files : HasJob(r)}, JobEntries)
      BY DEF JobEntries, Surjection
    <3>3. IsFiniteSet(JobEntries)
      BY <3>1, <3>2, FS_Surjection
    <3>. QED
      BY <3>3, FS_CardinalityType
  <2>4. n \in Nat /\ s \in [1..n -> JobEntries]
    BY <2>2, <2>3
  <2>. HIDE DEF n
  <2>5. s \in [1..n -> Entry]
    BY <2>1, <2>4
  <2>6. s \in Seq(Entry)
    BY <2>4, <2>5, SeqDef
  <2>7. heap' \in Seq(Entry)
    BY <2>2, <2>6
  <2>8. life' = "running" /\ pc' = "top" /\ UNCHANGED <<paused, asleep, observed, reader>>
    BY <1>6 DEF Start
  <2>. QED
    BY <1>0, <2>7, <2>8
<1>7. ASSUME NEW b \in BOOLEAN, SetPaused(b) PROVE ControlTypeOK'
  BY <1>7, <1>0 DEF SetPaused, workVars
<1>8. CASE Join \/ Crash
  BY <1>8, <1>0, EmptySeq DEF Join, Crash, Ends
<1>9. CASE Stop
  BY <1>9, <1>0 DEF Stop, workVars
<1>10. ASSUME UNCHANGED <<life, paused, heap, observed, reader, asleep>>,
              asleep => pc' = "top" /\ life = "running"
       PROVE  ControlTypeOK'
  BY <1>10, <1>0
<1>13. CASE SkipStale \/ Lookup \/ WorkerExit \/ SelectBatch \/ NextJob \/ BatchDone
            \/ RoomEnough \/ ListVictims \/ MarkEvicted \/ EvictDone \/ CopyBegin
            \/ SourceMissing \/ Copied \/ CopyFails \/ Cancelled \/ CopyThrows
  BY <1>10, <1>13, <1>0
     DEF SkipStale, Lookup, WorkerExit, SelectBatch, NextJob, BatchDone, RoomEnough,
         ListVictims, MarkEvicted, EvictDone, CopyBegin, SourceMissing, Copied, CopyFails,
         Cancelled, CopyThrows, Leave, Goto, KeepOutside
<1>14. CASE MarkCopied \/ DropJob \/ RemoveStaleCopy \/ MarkMissing \/ RemoveFails
            \/ CountFailure \/ Reschedule
  BY <1>10, <1>14, <1>0
     DEF MarkCopied, DropJob, RemoveStaleCopy, MarkMissing, RemoveFails, CountFailure,
         Reschedule, FinishJob, Goto, KeepOutside
<1>15. ASSUME NEW v \in victims, EvictFile(v) \/ EvictFails(v) PROVE ControlTypeOK'
  BY <1>10, <1>15, <1>0 DEF EvictFile, EvictFails, Goto, KeepOutside
<1>16. CASE WorldStep \/ UNCHANGED vars
  BY <1>10, <1>16, <1>0
     DEF WorldStep, Tick, SourceWrite, SourceDelete, KeepProgram, workVars, vars
<1>17. CASE ReaderStep
  BY <1>1, <1>2, <1>11, <1>12, <1>17, BoundsAssumption
     DEF ReaderStep, RecordEvent, IgnoreEvent, DropEvent, RecordOther, RecordDelete
<1>18. CASE WorkerStep
  BY <1>3, <1>4, <1>5, <1>13, <1>14, <1>15, <1>18 DEF WorkerStep
<1>. QED
  BY <1>6, <1>7, <1>8, <1>9, <1>16, <1>17, <1>18 DEF Next, ControlStep

(* So do the source files, the cache volume and what is remembered of them. *)
LEMMA WorldPreserved == SafeTypes /\ [Next]_vars => WorldTypeOK'
<1>. SUFFICES ASSUME SafeTypes, [Next]_vars PROVE WorldTypeOK'
  OBVIOUS
<1>0. TypeOK /\ WorldTypeOK
  BY DEF SafeTypes, TypeOK
<1>. USE DEF WorldTypeOK, askVars
<1>1. ASSUME NEW p \in Files, NEW kind, RecordCopyWorthy(p, kind) PROVE WorldTypeOK'
  BY <1>1, <1>0 DEF RecordCopyWorthy, Accept, worldVars, Copying
<1>2. ASSUME NEW p \in Files, NEW kind, RecordOther(p, kind) \/ RecordDelete(p)
      PROVE  WorldTypeOK'
  BY <1>2, <1>0 DEF RecordOther, RecordDelete, Accept, worldVars
<1>3. CASE IgnoreEvent \/ DropEvent
  BY <1>3, <1>0 DEF IgnoreEvent, DropEvent, Accept, worldVars
<1>12. CASE SelectBatch
  <2>1. hand.path \in Files
    BY <1>12, <1>0 DEF SelectBatch, TypeOK, WorkerTypeOK, Idle, Entry
  <2>2. missed' \subseteq missed \cup {hand.path}
    BY <1>12 DEF SelectBatch, LeftOut
  <2>. QED
    BY <1>12, <1>0, <2>1, <2>2 DEF SelectBatch, worldVars
<1>13. CASE BatchDone \/ Cancelled \/ CopyThrows
  BY <1>13, <1>0 DEF BatchDone, Cancelled, CopyThrows, Leave, worldVars
<1>14. CASE Start \/ Join \/ Crash
  BY <1>14, <1>0 DEF Start, Join, Crash, Ends, worldVars
<1>4. ASSUME NEW v \in victims, EvictFile(v) PROVE WorldTypeOK'
  BY <1>4, <1>0 DEF EvictFile, Goto, KeepOutside, worldVars, ghostVars, TypeOK, WorkerTypeOK, Seen
<1>5. CASE CopyBegin
  BY <1>5, <1>0, JobInHand DEF CopyBegin, worldVars, AtJob
<1>6. CASE Copied
  BY <1>6, <1>0, JobInHand DEF Copied, Goto, KeepOutside, worldVars, ghostVars, TypeOK, WorkerTypeOK, AtJob
<1>7. CASE RemoveStaleCopy
  BY <1>7, <1>0 DEF RemoveStaleCopy, Goto, KeepOutside, worldVars, ghostVars
<1>8. CASE Tick
  BY <1>8, <1>0 DEF Tick, KeepProgram, ghostVars
<1>9. ASSUME NEW p \in Files, SourceWrite(p) PROVE WorldTypeOK'
  <2>1. ver[p] + 1 \in 1..MaxVersion
    BY <1>9, <1>0 DEF SourceWrite
  <2>. QED
    BY <1>9, <1>0, <2>1 DEF SourceWrite, KeepProgram, ghostVars
<1>11. ASSUME NEW p \in Files, SourceDelete(p) PROVE WorldTypeOK'
  BY <1>11, <1>0 DEF SourceDelete, KeepProgram, ghostVars
<1>10. CASE UNCHANGED <<worldVars, disk, ghostVars>>
  BY <1>10, <1>0 DEF worldVars, ghostVars
<1>. QED
  BY <1>1, <1>2, <1>3, <1>4, <1>5, <1>6, <1>7, <1>8, <1>9, <1>10, <1>11, <1>12, <1>13, <1>14
     DEF Next, WorkerStep, ReaderStep, RecordEvent, ControlStep, WorldStep, vars,
         Pop, PutBack, SkipStale, Lookup, WorkerExit, NextJob, RoomEnough, ListVictims,
         MarkEvicted, EvictDone, EvictFails, SourceMissing, CopyFails, MarkCopied, DropJob,
         MarkMissing, RemoveFails, CountFailure, Reschedule, PushRetry, FinishJob, Goto,
         KeepOutside, Observe, PushEvent, SetPaused, Stop, ghostVars

(* So do worker_loop's and run_due_once's locals, at every place of the worker. *)
LEMMA WorkerPreserved == SafeTypes /\ [Next]_vars => WorkerTypeOK'
<1>. SUFFICES ASSUME SafeTypes, [Next]_vars PROVE WorkerTypeOK'
  OBVIOUS
<1>0. TypeOK /\ WorkerTypeOK /\ now \in Nat
  BY DEF SafeTypes, TypeOK, WorldTypeOK
<1>. USE DEF WorkerTypeOK, Idle, AtJob, Goto, Mine, KeepOutside
<1>1. ASSUME NEW i \in DOMAIN heap, Pop(i) PROVE WorkerTypeOK'
  BY <1>1, <1>0, ElementOfSeq DEF Pop, TypeOK, ControlTypeOK
<1>2. CASE PutBack
  BY <1>2, <1>0, SMT DEF PutBack
<1>3. CASE SkipStale
  BY <1>3, <1>0, SMT DEF SkipStale
<1>4. CASE Lookup
  BY <1>4, <1>0, SMT DEF Lookup
<1>5. CASE WorkerExit
  BY <1>5, <1>0, SMT DEF WorkerExit
<1>6. CASE SelectBatch
  <2>1. ASSUME NEW D \in Selection(batchNow) PROVE Snapshot(D) \in SUBSET BatchJob
    BY <1>0 DEF Selection, DuePaths, Snapshot, TypeOK, IndexTypeOK, HasJob, Job, BatchJob
  <2>. QED
    BY <1>6, <1>0, <2>1 DEF SelectBatch
<1>7. CASE NextJob
  BY <1>7, <1>0, SMT DEF NextJob
<1>8. CASE BatchDone \/ Cancelled \/ CopyThrows
  BY <1>8, <1>0, SMT DEF BatchDone, Cancelled, CopyThrows, Leave
<1>9. CASE RoomEnough
  BY <1>9, <1>0, SMT DEF RoomEnough
<1>10. CASE ListVictims
  <2>1. victims' \in SUBSET Seen
    BY <1>10, <1>0 DEF ListVictims, CachedPaths, TypeOK, IndexTypeOK, HasRow, Row, Seen
  <2>. QED
    BY <1>10, <1>0, <2>1 DEF ListVictims
<1>11. ASSUME NEW v \in victims, EvictFile(v) PROVE WorkerTypeOK'
  BY <1>11, <1>0, SMT DEF EvictFile, Seen
<1>12. ASSUME NEW v \in victims, EvictFails(v) PROVE WorkerTypeOK'
  BY <1>12, <1>0, SMT DEF EvictFails
<1>13. CASE MarkEvicted
  BY <1>13, <1>0, SMT DEF MarkEvicted
<1>14. CASE EvictDone
  BY <1>14, <1>0, SMT DEF EvictDone
<1>15. CASE CopyBegin
  <2>1. Mine \in Files
    BY <1>15, <1>0, JobInHand DEF CopyBegin
  <2>2. ver[Mine] \in 1..MaxVersion
    BY <1>0, <2>1 DEF TypeOK, WorldTypeOK
  <2>3. copyVer' \in 1..MaxVersion /\ copyVer' # None
    BY <1>15, <2>2 DEF CopyBegin
  <2>. QED
    BY <1>15, <1>0, <2>3, SMT DEF CopyBegin
<1>16. CASE Copied
  BY <1>16, <1>0, JobInHand DEF Copied, KeepsCopy, SameSize, TypeOK, WorldTypeOK
<1>17. CASE SourceMissing
  BY <1>17, <1>0, SMT DEF SourceMissing
<1>18. CASE CopyFails
  BY <1>18, <1>0, SMT DEF CopyFails
<1>19. CASE MarkCopied
  BY <1>19, <1>0, SMT DEF MarkCopied
<1>20. CASE RemoveStaleCopy
  BY <1>20, <1>0, SMT DEF RemoveStaleCopy
<1>21. CASE RemoveFails
  BY <1>21, <1>0, SMT DEF RemoveFails
<1>22. CASE CountFailure \/ Reschedule
  BY <1>22, <1>0, SMT DEF CountFailure, Reschedule
<1>23. CASE DropJob \/ MarkMissing \/ PushRetry
  BY <1>23, <1>0, SMT DEF DropJob, MarkMissing, PushRetry, FinishJob
<1>24. CASE Start
  BY <1>24, <1>0, SMT DEF Start, KeepWork
<1>25. CASE Join \/ Crash
  BY <1>25, <1>0, SMT DEF Join, Crash, Ends
<1>26. CASE UNCHANGED <<workVars, disk>> /\ life' \in {life, "stopping"}
  BY <1>26, <1>0, SMT DEF workVars
<1>. QED
  BY <1>1, <1>2, <1>3, <1>4, <1>5, <1>6, <1>7, <1>8, <1>9, <1>10, <1>11, <1>12, <1>13, <1>14, <1>15, <1>16, <1>17, <1>18, <1>19, <1>20, <1>21, <1>22, <1>23, <1>24, <1>25, <1>26
     DEF Next, WorkerStep, ReaderStep, RecordEvent, ControlStep, WorldStep, vars,
         RecordCopyWorthy, RecordOther, RecordDelete, IgnoreEvent, DropEvent, Accept,
         Observe, PushEvent, SetPaused, Stop, Tick, SourceWrite, SourceDelete, KeepProgram

(* TypeOK and the foreign key are preserved together. *)
LEMMA StepTypes == SafeTypes /\ [Next]_vars => SafeTypes'
BY IndexPreserved, ControlPreserved, WorldPreserved, WorkerPreserved
   DEF SafeTypes, TypeOK, IndexInv

(* The variables keep their types, and the worker's locals are set exactly *)
(* where worker_loop and run_due_once use them.                            *)
THEOREM TypeCorrect == Spec => []TypeOK
<1>1. SafeTypes => TypeOK
  BY DEF SafeTypes
<1>. QED
  BY InitTypes, StepTypes, <1>1, PTL DEF Spec

-----------------------------------------------------------------------------
(* No job is orphaned but by a full batch, provided reading a file to hash *)
(* it does not throw.                                                      *)

(* What makes JobCovered inductive: no batch is open outside run_due_once. *)
NoOpenBatch == pc \in Idle \cup {"popped", "select"} => batch = {}
CoverInv == SafeTypes /\ NoOpenBatch /\ JobCovered

(* An entry in the heap stays there when another one is pushed. *)
LEMMA PushKeeps ==
  ASSUME heap \in Seq(Entry), NEW p \in Files, NEW d \in Nat, heap' = Pushed(p, d)
  PROVE  /\ \A i \in DOMAIN heap : i \in DOMAIN heap' /\ heap'[i] = heap[i]
         /\ \E i \in DOMAIN heap' : heap'[i] = [path |-> p, due |-> Stored(d)]
<1>1. [path |-> p, due |-> Stored(d)] \in Entry
  BY StoredType DEF Entry
<1>2. /\ Len(heap') = Len(heap) + 1
      /\ \A i \in 1..Len(heap) : heap'[i] = heap[i]
      /\ heap'[Len(heap) + 1] = [path |-> p, due |-> Stored(d)]
  BY <1>1, AppendProperties DEF Pushed
<1>3. Len(heap) \in Nat /\ DOMAIN heap = 1..Len(heap) /\ DOMAIN heap' = 1..(Len(heap) + 1)
  <2>1. heap' \in Seq(Entry)
    BY PushedType
  <2>. QED
    BY <1>2, <2>1, LenProperties, SMT
<1>4. DOMAIN heap \subseteq DOMAIN heap' /\ Len(heap) + 1 \in DOMAIN heap'
  BY <1>3
<1>. QED
  BY <1>2, <1>3, <1>4

(* Popping keeps every other entry. *)
LEMMA PopKeeps ==
  ASSUME heap \in Seq(Entry), NEW i \in DOMAIN heap, heap' = Without(i)
  PROVE  \A k \in DOMAIN heap : k # i => \E j \in DOMAIN heap' : heap'[j] = heap[k]
<1>1. heap' \in Seq(Entry) /\ DOMAIN heap' = 1..(Len(heap) - 1)
  BY WithoutType DEF Without
<1>2. ASSUME NEW k \in DOMAIN heap, k < i PROVE \E j \in DOMAIN heap' : heap'[j] = heap[k]
  BY <1>1, <1>2 DEF Without
<1>3. ASSUME NEW k \in DOMAIN heap, k > i PROVE \E j \in DOMAIN heap' : heap'[j] = heap[k]
  <2>1. k - 1 \in 1..(Len(heap) - 1) /\ ~(k - 1 < i)
    BY <1>3
  <2>. QED
    BY <2>1, <1>1 DEF Without
<1>. QED
  BY <1>2, <1>3

(* A step that leaves the job, the heap and every hand alone keeps a job   *)
(* covered.                                                                *)
LEMMA CoverFrame ==
  ASSUME NEW p \in Files, Covered(p), jobs'[p] = jobs[p],
         UNCHANGED <<heap, reader, hand, batch>>,
         pc \in {"popped", "select"} => pc' \in {"popped", "select"},
         pc \notin {"requeue"}, pc' \notin {"requeue"}
  PROVE  Covered(p)'
BY DEF Covered

(* Before the first start there is no job to be covered. *)
LEMMA InitCover == Init => CoverInv
BY InitTypes DEF CoverInv, Init, NoOpenBatch, JobCovered, Idle

(* A batch is opened by SelectBatch and closed by BatchDone. *)
LEMMA StepNoBatch == SafeTypes /\ NoOpenBatch /\ [Next]_vars => NoOpenBatch'
<1>. SUFFICES ASSUME SafeTypes, NoOpenBatch, [Next]_vars PROVE NoOpenBatch'
  OBVIOUS
<1>0. NoOpenBatch /\ (current # None <=> pc \in AtJob)
  BY DEF SafeTypes, TypeOK, WorkerTypeOK
<1>. USE DEF NoOpenBatch, Idle, AtJob, Goto, KeepOutside
<1>1. ASSUME NEW i \in DOMAIN heap, Pop(i) PROVE NoOpenBatch'
  BY <1>1, <1>0, SMT DEF Pop, worldVars
<1>2. CASE PutBack \/ SkipStale \/ Lookup \/ WorkerExit
  BY <1>2, <1>0, SMT DEF PutBack, SkipStale, Lookup, WorkerExit, worldVars
<1>3. CASE SelectBatch \/ NextJob
  BY <1>3, <1>0, SMT DEF SelectBatch, NextJob
<1>4. CASE BatchDone \/ Cancelled \/ CopyThrows
  BY <1>4, <1>0, SMT DEF BatchDone, Cancelled, CopyThrows, Leave
<1>5. CASE RoomEnough \/ ListVictims \/ MarkEvicted \/ EvictDone
  BY <1>5, <1>0, SMT DEF RoomEnough, ListVictims, MarkEvicted, EvictDone
<1>6. ASSUME NEW v \in victims, EvictFile(v) \/ EvictFails(v) PROVE NoOpenBatch'
  BY <1>6, <1>0, SMT DEF EvictFile, EvictFails
<1>7. CASE CopyBegin \/ SourceMissing \/ Copied \/ CopyFails \/ MarkCopied
  BY <1>7, <1>0, SMT DEF CopyBegin, SourceMissing, Copied, CopyFails, MarkCopied
<1>8. CASE DropJob \/ MarkMissing \/ PushRetry
  BY <1>8, <1>0, SMT DEF DropJob, MarkMissing, PushRetry, FinishJob
<1>9. CASE RemoveStaleCopy \/ RemoveFails \/ CountFailure \/ Reschedule
  BY <1>9, <1>0, SMT DEF RemoveStaleCopy, RemoveFails, CountFailure, Reschedule
<1>10. CASE Start
  BY <1>10, <1>0, SMT DEF Start, KeepWork, SafeTypes, TypeOK, WorkerTypeOK
<1>11. CASE Join \/ Crash
  BY <1>11, <1>0, SMT DEF Join, Crash, Ends
<1>12. CASE Tick
  BY <1>12, <1>0, SMT DEF Tick, KeepProgram, workVars
<1>13. CASE UNCHANGED workVars
  BY <1>13, <1>0, SMT DEF workVars
<1>. QED
  BY <1>1, <1>2, <1>3, <1>4, <1>5, <1>6, <1>7, <1>8, <1>9, <1>10, <1>11, <1>12, <1>13
     DEF Next, WorkerStep, ReaderStep, RecordEvent, ControlStep, WorldStep, vars, worldVars,
         RecordCopyWorthy, RecordOther, RecordDelete, IgnoreEvent, DropEvent, Accept,
         Observe, PushEvent, SetPaused, Stop, SourceWrite, SourceDelete, KeepProgram

(* Every step leaves every pending job with its exact heap entry. *)
LEMMA StepCovered ==
  ASSUME ~HashFails, CoverInv, [Next]_vars
  PROVE  JobCovered'
<1>. SUFFICES ASSUME life' = "running", NEW q \in Files, HasJob(q)', q \notin missed'
              PROVE  Covered(q)'
  BY DEF JobCovered
<1>. DEFINE e == [path |-> q, due |-> jobs[q].due]
<1>0. /\ TypeOK /\ NoOpenBatch
      /\ heap \in Seq(Entry) /\ reader \in Entry \cup {None}
      /\ jobs \in [Files -> Job \cup {None}] /\ now \in Nat
  BY DEF CoverInv, SafeTypes, TypeOK, ControlTypeOK, IndexTypeOK, WorldTypeOK
<1>a. life = "running" /\ HasJob(q) /\ q \notin missed => Covered(q)
  BY DEF CoverInv, JobCovered
<1>. USE DEF Goto, KeepOutside, ghostVars, askVars
<1>1. ASSUME NEW p \in Files, NEW kind \in CopyKinds, RecordCopyWorthy(p, kind)
      PROVE  Covered(q)'
  <2>1. CASE q = p
    <3>1. jobs'[q].due = Stored(observed.at + CopyDelay)
      BY <1>1, <1>0, <2>1 DEF RecordCopyWorthy, RecordAccess
    <3>2. reader' = [path |-> q, due |-> observed.at + CopyDelay]
      BY <1>1, <2>1 DEF RecordCopyWorthy
    <3>3. reader' # None
      BY <1>0, <1>1, <3>2, EventInHand DEF RecordCopyWorthy, Entry
    <3>. QED
      BY <3>1, <3>2, <3>3 DEF Covered
  <2>2. CASE q # p
    <3>1. jobs'[q] = jobs[q]
      BY <1>1, <1>0, <2>2 DEF RecordCopyWorthy, RecordAccess
    <3>2. UNCHANGED <<heap, hand, batch, batchNow, pc, current>>
      BY <1>1 DEF RecordCopyWorthy, Accept, workVars
    <3>3. life = "running" /\ reader = None /\ q \notin missed
      BY <1>1, <1>0, <2>2, EventInHand DEF RecordCopyWorthy, Accept
    <3>. QED
      BY <1>a, <3>1, <3>2, <3>3 DEF Covered, HasJob, Mine, RetryDue, Backoff
  <2>. QED
    BY <2>1, <2>2
<1>2. ASSUME NEW p \in Files, NEW kind \in Kinds \ CopyKinds, RecordOther(p, kind)
      PROVE  Covered(q)'
  BY <1>2, <1>a DEF RecordOther, RecordAccess, Accept, workVars, Covered, HasJob, Mine,
     RetryDue, Backoff
<1>25. ASSUME NEW p \in Files, RecordDelete(p) PROVE Covered(q)'
  <2>1. jobs'[q] = jobs[q]
    BY <1>25, <1>0 DEF RecordDelete, MarkRemoved, HasJob
  <2>. QED
    BY <1>25, <1>a, <2>1 DEF RecordDelete, Accept, workVars, Covered, HasJob, Mine, RetryDue, Backoff
<1>26. CASE IgnoreEvent \/ DropEvent
  BY <1>26, <1>a DEF IgnoreEvent, DropEvent, Accept, workVars, indexVars, Covered, HasJob, Mine,
     RetryDue, Backoff
<1>3. CASE PushEvent
  <2>1. /\ \A i \in DOMAIN heap : i \in DOMAIN heap' /\ heap'[i] = heap[i]
        /\ \E i \in DOMAIN heap' : heap'[i] = [path |-> reader.path, due |-> Stored(reader.due)]
    BY <1>3, <1>0, PushKeeps DEF PushEvent, Entry
  <2>. QED
    BY <1>3, <1>a, <2>1 DEF PushEvent, workVars, Covered, HasJob, Mine, RetryDue, Backoff
<1>4. ASSUME NEW i \in DOMAIN heap, Pop(i) PROVE Covered(q)'
  <2>1. \A k \in DOMAIN heap : k # i => \E j \in DOMAIN heap' : heap'[j] = heap[k]
    BY <1>4, <1>0, PopKeeps DEF Pop
  <2>. QED
    BY <1>4, <1>a, <2>1 DEF Pop, Covered, HasJob, indexVars
<1>5. CASE PutBack
  <2>1. hand \in Entry
    BY <1>5, <1>0 DEF PutBack, TypeOK, WorkerTypeOK, Idle
  <2>2. /\ \A i \in DOMAIN heap : i \in DOMAIN heap' /\ heap'[i] = heap[i]
        /\ \E i \in DOMAIN heap' : heap'[i] = [path |-> hand.path, due |-> Stored(hand.due)]
    BY <1>5, <1>0, <2>1, PushKeeps DEF PutBack, Entry
  <2>3. HasJob(q) /\ hand = e => Stored(hand.due) = hand.due
    BY DEF CoverInv, SafeTypes, DueWhole
  <2>. QED
    BY <1>5, <1>a, <2>2, <2>3 DEF PutBack, Covered, HasJob, indexVars
<1>6. CASE SkipStale
  BY <1>6, <1>a DEF SkipStale, Covered, HasJob, indexVars
<1>7. CASE SelectBatch
  <2>1. PICK D \in Selection(batchNow) :
          batch' = Snapshot(D) /\ missed' = (missed \ D) \cup LeftOut(D)
    BY <1>7 DEF SelectBatch
  <2>2. CASE q \in D
    <3>. DEFINE j == [path |-> q, due |-> jobs[q].due, retries |-> jobs[q].retries]
    <3>1. j \in batch' /\ j.path = q /\ pc' # "requeue"
      BY <1>7, <2>1, <2>2 DEF Snapshot, SelectBatch
    <3>. QED
      BY <3>1 DEF Covered
  <2>3. CASE q \notin D
    <3>1. HasJob(q) /\ q \notin missed /\ q \notin LeftOut(D) /\ life = "running"
      BY <1>7, <2>1, <2>3 DEF SelectBatch, HasJob, indexVars
    <3>2. hand # e
      BY <2>3, <3>1 DEF LeftOut
    <3>. QED
      BY <1>7, <1>0, <1>a, <3>1, <3>2 DEF SelectBatch, Covered, HasJob, indexVars, NoOpenBatch
  <2>. QED
    BY <2>2, <2>3
<1>8. CASE Lookup \/ WorkerExit \/ NextJob \/ RoomEnough \/ ListVictims \/ EvictDone \/ CopyBegin
           \/ SourceMissing \/ Copied \/ CopyFails \/ RemoveStaleCopy \/ RemoveFails
  BY <1>8, <1>a, CoverFrame
     DEF Lookup, WorkerExit, NextJob, RoomEnough, ListVictims, EvictDone, CopyBegin,
         SourceMissing, Copied, CopyFails, RemoveStaleCopy, RemoveFails, indexVars, HasJob
<1>9. ASSUME NEW v \in victims, EvictFile(v) \/ EvictFails(v) PROVE Covered(q)'
  BY <1>9, <1>a, CoverFrame DEF EvictFile, EvictFails, indexVars, HasJob
<1>10. CASE MarkEvicted
  <2>1. jobs'[q] = jobs[q]
    BY <1>10, <1>0 DEF MarkEvicted, MarkRemoved, HasJob
  <2>. QED
    BY <1>10, <1>a, <2>1, CoverFrame DEF MarkEvicted, HasJob
<1>11. CASE MarkCopied
  BY <1>11, <1>a, CoverFrame DEF MarkCopied, MarkCached, HasJob
<1>12. CASE DropJob \/ MarkMissing
  <2>1. Mine \in Files /\ current \in batch
    BY <1>12, <1>0, JobInHand DEF DropJob, MarkMissing, AtJob
  <2>2. q # Mine /\ jobs'[q] = jobs[q]
    BY <1>12, <1>0, <2>1 DEF DropJob, MarkMissing, RemovePendingJob, MarkRemoved, HasJob
  <2>. QED
    BY <1>12, <1>a, <2>2 DEF DropJob, MarkMissing, FinishJob, Covered, HasJob, Mine
<1>13. CASE Reschedule
  <2>1. Mine \in Files /\ RetryDue' = RetryDue /\ Mine' = Mine
    BY <1>13, <1>0, JobInHand DEF Reschedule, AtJob, RetryDue, Mine, Backoff
  <2>2. CASE q = Mine
    BY <1>13, <1>0, <2>1, <2>2 DEF Reschedule, UpsertPendingJob, Covered
  <2>3. CASE q # Mine
    BY <1>13, <1>0, <1>a, <2>1, <2>3 DEF Reschedule, UpsertPendingJob, Covered, HasJob, Mine
  <2>. QED
    BY <2>2, <2>3
<1>19. CASE CountFailure
  <2>1. Mine \in Files
    BY <1>19, <1>0, JobInHand DEF CountFailure, AtJob
  <2>2. HasJob(q) /\ jobs'[q].due = jobs[q].due
    BY <1>19, <1>0, <2>1 DEF CountFailure, RecordError, HasJob, Job
  <2>. QED
    BY <1>19, <1>a, <2>2 DEF CountFailure, Covered
<1>14. CASE PushRetry
  <2>1. Mine \in Files /\ RetryDue \in Nat
    BY <1>14, <1>0, JobInHand DEF PushRetry, AtJob
  <2>2. /\ \A i \in DOMAIN heap : i \in DOMAIN heap' /\ heap'[i] = heap[i]
        /\ \E i \in DOMAIN heap' : heap'[i] = [path |-> Mine, due |-> Stored(RetryDue)]
    BY <1>14, <1>0, <2>1, PushKeeps DEF PushRetry
  <2>. QED
    BY <1>14, <1>a, <2>2 DEF PushRetry, FinishJob, Covered, HasJob, indexVars
<1>15. CASE BatchDone \/ Cancelled \/ CopyThrows
  <2>1. BatchDone
    BY <1>15, <1>0 DEF Cancelled, CopyThrows, Leave
  <2>. QED
    BY <1>15, <1>a, <2>1 DEF BatchDone, Leave, Covered, HasJob, indexVars
<1>16. CASE Start
  <2>1. PICK s \in [1..Cardinality(JobEntries) -> JobEntries] : Loads(s) /\ heap' = s
    BY <1>16 DEF Start
  <2>2. HasJob(q) /\ jobs' = jobs
    BY <1>16 DEF Start, indexVars, HasJob
  <2>3. PICK i \in DOMAIN s : s[i].path = q
    BY <2>1, <2>2 DEF Loads
  <2>4. s[i] = e
    BY <2>3 DEF JobEntries
  <2>. QED
    BY <2>1, <2>2, <2>3, <2>4 DEF Covered
<1>17. CASE Stop \/ Join \/ Crash
  BY <1>17 DEF Stop, Join, Crash, Ends
<1>18. ASSUME UNCHANGED <<jobs, life, heap, reader, workVars, missed>> PROVE Covered(q)'
  BY <1>18, <1>a DEF workVars, Covered, HasJob, Mine, RetryDue, Backoff
<1>20. CASE WorkerStep
  BY <1>4, <1>5, <1>6, <1>7, <1>8, <1>9, <1>10, <1>11, <1>12, <1>13, <1>14, <1>15, <1>19, <1>20
     DEF WorkerStep
<1>21. ASSUME NEW p \in Files, NEW kind, Observe(p, kind) PROVE Covered(q)'
  BY <1>18, <1>21 DEF Observe, indexVars
<1>22. CASE ReaderStep
  BY <1>1, <1>2, <1>3, <1>21, <1>22, <1>25, <1>26, AccessKinds DEF ReaderStep, RecordEvent
<1>23. ASSUME NEW b \in BOOLEAN, SetPaused(b) PROVE Covered(q)'
  BY <1>18, <1>23 DEF SetPaused, indexVars
<1>24. CASE WorldStep \/ UNCHANGED vars
  BY <1>18, <1>24
     DEF WorldStep, Tick, SourceWrite, SourceDelete, KeepProgram, vars, indexVars
<1>. QED
  BY <1>16, <1>17, <1>20, <1>22, <1>23, <1>24 DEF Next, ControlStep

(* No job is orphaned but in the one way JobCovered excuses, a batch that is *)
(* full without the popped job: for every batch size and number of files,  *)
(* the scheduler holds the exact heap entry that makes worker_loop take a  *)
(* pending job up, whatever accesses, deletions, pauses, failures,         *)
(* evictions, crashes and restarts happen, if hashing does not throw.      *)
THEOREM NoJobOrphaned ==
  ASSUME ~HashFails
  PROVE  Spec => []JobCovered
<1>1. CoverInv /\ [Next]_vars => CoverInv'
  BY StepTypes, StepNoBatch, StepCovered DEF CoverInv
<1>2. CoverInv => JobCovered
  BY DEF CoverInv
<1>. QED
  BY InitCover, <1>1, <1>2, PTL DEF Spec

-----------------------------------------------------------------------------
(* CopyScheduler implements CopyRequests, for every set of files, every    *)
(* delay, batch size and bound, provided a changed file is told from its   *)
(* cached copy: with compare_hash_before_overwrite, or by its size.        *)

(* By default the engine takes equal sizes for equal contents. *)
ContentTold ==
  CompareHash \/ \A v, w \in 1..MaxVersion : SizeOf[v] = SizeOf[w] => v = w

(* Where the worker has begun to copy the current job, or is past it. *)
Begun == {"copying", "copied", "marked", "missing", "unlinked", "failed", "counted", "requeue"}

(* An access is of a content the source has had. *)
AskedExists == \A p \in Files : accepted[p] <= ver[p]

(* The content under way is the one asked for, or was asked for late. *)
CopyFresh == pc \in {"copying", "copied", "marked"} => raced[Mine] \/ accepted[Mine] <= copyVer

(* What the engine has put in place is what is recorded. *)
CopyPlaced == pc \in {"copied", "marked"} => disk[Mine] = copyVer

(* A job still there when its copy is recorded is one whose copy is shown. *)
CopyShown == pc = "marked" /\ HasJob(Mine) => Mine \in CachedPaths \/ raced[Mine]

(* What is forgotten next is gone from the cache volume. *)
CopyGone ==
  /\ pc = "evicted" => disk[victim] = None
  /\ pc = "unlinked" => disk[Mine] = None

(* The snapshot has a path once, and until a copy of it begins its job is  *)
(* there, or the file is not shown as cached.                              *)
BatchOnce == \A j, k \in batch : j.path = k.path => j = k
BatchWanted ==
  \A j \in batch : (j = current /\ pc \in Begun) \/ HasJob(j.path) \/ j.path \notin CachedPaths

CopyInv == AskedExists /\ CopyFresh /\ CopyPlaced /\ CopyShown /\ CopyGone
BatchInv == BatchOnce /\ BatchWanted
RefineInv == SafeTypes /\ CopyInv /\ BatchInv

(* Nothing is under way before the first start. *)
LEMMA InitRefine == Init => RefineInv
<1>. SUFFICES ASSUME Init PROVE RefineInv
  OBVIOUS
<1>1. CopyInv
  BY DEF Init, CopyInv, AskedExists, CopyFresh, CopyPlaced, CopyShown, CopyGone
<1>2. BatchInv
  BY DEF Init, BatchInv, BatchOnce, BatchWanted
<1>. QED
  BY InitTypes, <1>1, <1>2 DEF RefineInv

(* The initial state has no request and no copy. *)
LEMMA InitRefines == Init => Requests!Init
BY DEF Init, IndexInit, HasJob, HasRow, CachedPaths, Requests!Init

-----------------------------------------------------------------------------
(* The invariant.                                                          *)

(* What the worker's steps touch of the state the promise is about. *)
LEMMA CopyStep ==
  ASSUME ContentTold, RefineInv, [Next]_vars
  PROVE  CopyInv'
<1>0. /\ TypeOK /\ JobsHaveRows /\ IndexInv /\ CopyInv
      /\ ver \in [Files -> 1..MaxVersion] /\ disk \in [Files -> 1..MaxVersion \cup {None}]
      /\ accepted \in [Files -> 0..MaxVersion] /\ raced \in [Files -> BOOLEAN]
      /\ current # None <=> pc \in AtJob
      /\ current # None => Mine \in Files
      /\ now \in Nat /\ CopyDelay \in Nat
  <2>1. TypeOK /\ JobsHaveRows /\ IndexInv /\ CopyInv
    BY DEF RefineInv, SafeTypes, TypeOK, IndexInv
  <2>2. /\ ver \in [Files -> 1..MaxVersion] /\ disk \in [Files -> 1..MaxVersion \cup {None}]
        /\ accepted \in [Files -> 0..MaxVersion] /\ raced \in [Files -> BOOLEAN] /\ now \in Nat
    BY <2>1 DEF TypeOK, WorldTypeOK
  <2>3. current # None <=> pc \in AtJob
    BY <2>1 DEF TypeOK, WorkerTypeOK
  <2>4. current # None => Mine \in Files
    BY <2>1, <2>3, JobInHand
  <2>. QED
    BY <2>1, <2>2, <2>3, <2>4, SettingsAssumption
<1>. USE DEF CopyInv, AskedExists, CopyFresh, CopyPlaced, CopyShown, CopyGone, Mine, AtJob,
            Goto, KeepOutside, worldVars, askVars, ghostVars, workVars
<1>1. ASSUME NEW p \in Files, NEW kind \in CopyKinds, RecordCopyWorthy(p, kind)
      PROVE  CopyInv'
  <2>1. CachedPaths' = CachedPaths /\ Wanted' = Wanted \cup {p}
    BY <1>0, <1>1, AccessInHand, AccessAsks
  <2>2. /\ accepted' = [accepted EXCEPT ![p] = ver[p]]
        /\ raced' = [raced EXCEPT ![p] = Copying(p)]
        /\ UNCHANGED <<workVars, worldVars, disk>>
    BY <1>1 DEF RecordCopyWorthy, Accept
  <2>3. AskedExists'
    BY <1>0, <2>2
  <2>4. CopyFresh'
    BY <1>0, <2>2 DEF Copying
  <2>5. CopyShown'
    BY <1>0, <2>1, <2>2 DEF Copying, Wanted
  <2>6. CopyPlaced' /\ CopyGone'
    BY <1>0, <2>2
  <2>. QED
    BY <2>3, <2>4, <2>5, <2>6
<1>2. ASSUME NEW p \in Files, NEW kind \in Kinds \ CopyKinds, RecordOther(p, kind)
      PROVE  CopyInv'
  <2>1. CachedPaths' = CachedPaths /\ Wanted' = Wanted
    BY <1>0, <1>2, AccessInHand, AccessAsks DEF CopyKinds
  <2>. QED
    BY <1>0, <1>2, <2>1 DEF RecordOther, Accept, Wanted
<1>3. ASSUME NEW p \in Files, RecordDelete(p)
      PROVE  CopyInv'
  <2>1. CachedPaths' = CachedPaths \ {p} /\ Wanted' = Wanted \ {p}
    BY <1>0, <1>3, RemovedForgets DEF RecordDelete
  <2>. QED
    BY <1>0, <1>3, <2>1 DEF RecordDelete, Accept, Wanted
<1>4. CASE CopyBegin
  BY <1>0, <1>4 DEF CopyBegin
<1>5. CASE Copied
  <2>1. copyVer \in 1..MaxVersion
    BY <1>0, <1>5 DEF Copied, TypeOK, WorkerTypeOK
  <2>2. disk' = [disk EXCEPT ![Mine] = copyVer]
    BY <1>0, <1>5, <2>1 DEF Copied, KeepsCopy, SameSize, ContentTold
  <2>. QED
    BY <1>0, <1>5, <2>2 DEF Copied
<1>6. CASE MarkCopied
  <2>1. CachedPaths' = IF HasRow(Mine) THEN CachedPaths \cup {Mine} ELSE CachedPaths
    <3>1. pc = "copied" /\ MarkCached(Mine, SizeOf[copyVer], SizeOf[disk[Mine]])
      BY <1>6 DEF MarkCopied
    <3>2. copyVer \in 1..MaxVersion /\ disk[Mine] \in 1..MaxVersion
      BY <3>1, <1>0 DEF TypeOK, WorkerTypeOK
    <3>3. SizeOf[copyVer] \in Nat /\ SizeOf[disk[Mine]] \in Nat
      BY <3>2, BoundsAssumption
    <3>. HIDE DEF Mine
    <3>. QED
      BY <1>0, <3>1, <3>3, CachedShows
  <2>2. HasJob(Mine) => HasRow(Mine)
    BY <1>0, <1>6 DEF MarkCopied, JobsHaveRows, HasJob, HasRow
  <2>3. UNCHANGED <<jobs, current, disk, copyVer, accepted, raced, ver>> /\ pc' = "marked" /\ pc = "copied"
    BY <1>6 DEF MarkCopied, MarkCached
  <2>. QED
    BY <1>0, <2>1, <2>2, <2>3 DEF HasJob
<1>7. CASE DropJob \/ MarkMissing \/ PushRetry
  BY <1>0, <1>7 DEF DropJob, MarkMissing, PushRetry, FinishJob
<1>8. CASE RemoveStaleCopy
  BY <1>0, <1>8 DEF RemoveStaleCopy
<1>9. CASE CopyFails \/ RemoveFails \/ CountFailure \/ Reschedule \/ SourceMissing
  BY <1>0, <1>9 DEF CopyFails, RemoveFails, CountFailure, Reschedule, SourceMissing
<1>10. CASE BatchDone \/ Cancelled \/ CopyThrows
  BY <1>0, <1>10 DEF BatchDone, Cancelled, CopyThrows, Leave
<1>11. ASSUME NEW v \in victims, EvictFile(v) \/ EvictFails(v)
       PROVE  CopyInv'
  <2>1. v.path \in Files
    BY <1>0, <1>11 DEF TypeOK, WorkerTypeOK, Seen
  <2>. QED
    BY <1>0, <1>11, <2>1 DEF EvictFile, EvictFails
<1>12. CASE RoomEnough \/ ListVictims \/ MarkEvicted \/ EvictDone
  BY <1>0, <1>12 DEF RoomEnough, ListVictims, MarkEvicted, EvictDone
<1>13. ASSUME NEW i \in DOMAIN heap, Pop(i) PROVE CopyInv'
  BY <1>0, <1>13 DEF Pop
<1>14. CASE PutBack \/ SkipStale \/ Lookup \/ WorkerExit \/ SelectBatch \/ NextJob
  BY <1>0, <1>14 DEF PutBack, SkipStale, Lookup, WorkerExit, SelectBatch, NextJob
<1>15. CASE Join \/ Crash
  BY <1>0, <1>15 DEF Join, Crash, Ends
<1>16. CASE Start
  BY <1>0, <1>16 DEF Start, KeepWork
<1>17. ASSUME NEW p \in Files, SourceWrite(p) \/ SourceDelete(p) PROVE CopyInv'
  <2>1. \A q \in Files : ver[q] <= ver'[q]
    <3>1. CASE SourceWrite(p)
      <4>1. ver' = [ver EXCEPT ![p] = @ + 1]
        BY <3>1 DEF SourceWrite
      <4>. QED
        BY <1>0, <4>1
    <3>2. CASE SourceDelete(p)
      <4>1. ver' = ver
        BY <3>2 DEF SourceDelete
      <4>. QED
        BY <1>0, <4>1
    <3>. QED
      BY <1>17, <3>1, <3>2
  <2>2. UNCHANGED <<pc, current, copyVer, disk, accepted, raced, victim, CachedPaths, Wanted, jobs>>
    BY <1>17, StutterKeeps DEF SourceWrite, SourceDelete, KeepProgram, indexVars
  <2>3. ver' \in [Files -> Int]
    BY <1>0, <1>17 DEF SourceWrite, SourceDelete
  <2>4. AskedExists'
    BY <1>0, <2>1, <2>2, <2>3
  <2>. QED
    BY <1>0, <2>2, <2>4 DEF HasJob
<1>18. CASE UNCHANGED <<indexVars, pc, current, copyVer, victim, ver, disk, accepted, raced>>
  <2>1. CachedPaths' = CachedPaths /\ jobs' = jobs
    BY <1>18, StutterKeeps DEF indexVars
  <2>2. UNCHANGED <<pc, current, copyVer, victim, ver, disk, accepted, raced>>
    BY <1>18
  <2>. QED
    BY <1>0, <2>1, <2>2 DEF HasJob
<1>19. CASE IgnoreEvent \/ DropEvent \/ PushEvent \/ Stop \/ Tick \/ UNCHANGED vars
  <2>1. UNCHANGED <<indexVars, pc, current, copyVer, victim, ver, disk, accepted, raced>>
    BY <1>19 DEF IgnoreEvent, DropEvent, PushEvent, Stop, Tick, vars, Accept, KeepProgram, indexVars
  <2>. QED
    BY <1>18, <2>1
<1>20. ASSUME NEW b \in BOOLEAN, SetPaused(b) PROVE CopyInv'
  BY <1>18, <1>20 DEF SetPaused, indexVars
<1>23. ASSUME NEW p \in Files, NEW kind, Observe(p, kind) PROVE CopyInv'
  BY <1>18, <1>23 DEF Observe, indexVars
<1>21. CASE WorkerStep
  BY <1>4, <1>5, <1>6, <1>7, <1>8, <1>9, <1>10, <1>11, <1>12, <1>13, <1>14, <1>21 DEF WorkerStep
<1>22. CASE ReaderStep
  BY <1>1, <1>2, <1>3, <1>19, <1>22, <1>23, AccessKinds DEF ReaderStep, RecordEvent
<1>. QED
  BY <1>15, <1>16, <1>17, <1>19, <1>20, <1>21, <1>22 DEF Next, ControlStep, WorldStep

(* The snapshot stays a snapshot of requests until its copies begin. *)
LEMMA BatchStep ==
  ASSUME SafeTypes, BatchInv, [Next]_vars
  PROVE  BatchInv'
<1>0. /\ TypeOK /\ IndexInv /\ BatchOnce /\ BatchWanted
      /\ current # None <=> pc \in AtJob
      /\ current # None => current \in batch /\ Mine \in Files
      /\ \A j \in batch : j.path \in Files /\ j # None
      /\ now \in Nat /\ CopyDelay \in Nat
  <2>1. TypeOK /\ IndexInv /\ BatchOnce /\ BatchWanted
    BY DEF SafeTypes, TypeOK, IndexInv, BatchInv
  <2>2. now \in Nat /\ (current # None <=> pc \in AtJob) /\ batch \in SUBSET BatchJob
    BY <2>1 DEF TypeOK, WorldTypeOK, WorkerTypeOK
  <2>3. \A j \in batch : j.path \in Files /\ j # None
    BY <2>2, SentinelAssumption DEF BatchJob
  <2>4. current # None => current \in batch /\ Mine \in Files
    BY <2>1, <2>2, JobInHand
  <2>. QED
    BY <2>1, <2>2, <2>3, <2>4, SettingsAssumption
<1>. USE DEF BatchInv, BatchOnce, BatchWanted, Begun, AtJob, Goto, KeepOutside
<1>1. ASSUME NEW p \in Files, NEW kind \in Kinds, RecordCopyWorthy(p, kind) \/ RecordOther(p, kind)
      PROVE  BatchInv'
  <2>1. CachedPaths' = CachedPaths /\ Wanted \subseteq Wanted'
    BY <1>0, <1>1, AccessInHand, AccessAsks
  <2>2. UNCHANGED <<pc, current, batch>>
    BY <1>1 DEF RecordCopyWorthy, RecordOther, Accept, workVars
  <2>. QED
    BY <1>0, <2>1, <2>2 DEF Wanted
<1>2. ASSUME NEW p \in Files, MarkRemoved(p), UNCHANGED <<current, batch>>,
             pc' = pc \/ {pc, pc'} \subseteq {"evict", "evicted"}
      PROVE  BatchInv'
  <2>1. CachedPaths' = CachedPaths \ {p} /\ Wanted' = Wanted \ {p}
    BY <1>0, <1>2, RemovedForgets
  <2>. QED
    BY <1>0, <1>2, <2>1 DEF Wanted
<1>3. CASE MarkMissing
  <2>1. Mine \in Files /\ MarkRemoved(Mine)
    BY <1>0, <1>3 DEF MarkMissing
  <2>2. CachedPaths' = CachedPaths \ {Mine} /\ Wanted' = Wanted \ {Mine}
    BY <1>0, <2>1, RemovedForgets
  <2>. QED
    BY <1>0, <1>3, <2>2 DEF MarkMissing, FinishJob, Wanted, Mine
<1>4. CASE DropJob
  <2>1. Mine \in Files /\ RemovePendingJob(Mine)
    BY <1>0, <1>4 DEF DropJob
  <2>2. CachedPaths' = CachedPaths /\ Wanted' = Wanted \ {Mine}
    BY <1>0, <2>1, RemovalSettles
  <2>. QED
    BY <1>0, <1>4, <2>2 DEF DropJob, FinishJob, Wanted, Mine
<1>5. CASE MarkCopied
  <2>1. CachedPaths' \subseteq CachedPaths \cup {Mine} /\ Wanted' = Wanted
    <3>1. Mine \in Files /\ rows \in [Files -> Row \cup {None}]
      BY <1>0, <1>5 DEF MarkCopied, IndexInv, IndexTypeOK
    <3>. HIDE DEF Mine
    <3>. QED
      BY <1>5, <3>1 DEF MarkCopied, MarkCached, CachedPaths, HasRow, Wanted, HasJob
  <2>. QED
    BY <1>0, <1>5, <2>1 DEF MarkCopied, Wanted, Mine
<1>6. CASE Reschedule
  <2>1. CachedPaths' = CachedPaths /\ Wanted' = Wanted \cup {Mine}
    <3>1. Mine \in Files /\ RetryDue \in Nat /\ UpsertPendingJob(Mine, RetryDue)
      BY <1>0, <1>6, JobInHand DEF Reschedule
    <3>. QED
      BY <1>0, <3>1, UpsertAsks
  <2>. QED
    BY <1>0, <1>6, <2>1 DEF Reschedule, Wanted
<1>23. CASE CountFailure
  <2>1. CachedPaths' = CachedPaths /\ Wanted' = Wanted
    <3>1. Mine \in Files /\ RecordError(Mine)
      BY <1>0, <1>23 DEF CountFailure
    <3>. QED
      BY <1>0, <3>1, ErrorKeeps
  <2>. QED
    BY <1>0, <1>23, <2>1 DEF CountFailure, Wanted
<1>7. CASE PushRetry
  BY <1>0, <1>7, StutterKeeps DEF PushRetry, FinishJob, Wanted, Mine
<1>8. CASE BatchDone \/ Cancelled \/ CopyThrows \/ Join \/ Crash
  BY <1>8 DEF BatchDone, Cancelled, CopyThrows, Leave, Join, Crash, Ends
<1>9. CASE SelectBatch
  <2>1. \E D \in Selection(batchNow) : batch' = Snapshot(D)
    BY <1>9 DEF SelectBatch
  <2>2. \E D \in SUBSET DuePaths(batchNow) : batch' = Snapshot(D)
    BY <2>1 DEF Selection
  <2>3. BatchOnce'
    BY <2>2 DEF Snapshot
  <2>4. \A j \in batch' : HasJob(j.path)
    BY <2>2 DEF Snapshot, DuePaths
  <2>. QED
    BY <1>9, <2>3, <2>4 DEF SelectBatch, indexVars, HasJob
<1>10. CASE NextJob \/ RoomEnough \/ ListVictims \/ EvictDone \/ CopyBegin \/ SourceMissing
            \/ Copied \/ CopyFails \/ RemoveStaleCopy \/ RemoveFails
  <2>1. UNCHANGED indexVars
    BY <1>10 DEF NextJob, RoomEnough, ListVictims, EvictDone, CopyBegin, SourceMissing, Copied,
       CopyFails, RemoveStaleCopy, RemoveFails
  <2>2. CachedPaths' = CachedPaths /\ Wanted' = Wanted
    BY <2>1, StutterKeeps
  <2>. QED
    BY <1>0, <1>10, <2>2
       DEF NextJob, RoomEnough, ListVictims, EvictDone, CopyBegin, SourceMissing, Copied,
           CopyFails, RemoveStaleCopy, RemoveFails, Wanted
<1>11. ASSUME NEW v \in victims, EvictFile(v) \/ EvictFails(v) PROVE BatchInv'
  BY <1>0, <1>11, StutterKeeps DEF EvictFile, EvictFails, Wanted
<1>12. CASE SkipStale \/ Lookup \/ WorkerExit \/ PutBack
  BY <1>0, <1>12, StutterKeeps DEF SkipStale, Lookup, WorkerExit, PutBack, Wanted
<1>13. ASSUME NEW i \in DOMAIN heap, Pop(i) PROVE BatchInv'
  BY <1>0, <1>13, StutterKeeps DEF Pop, Wanted
<1>14. CASE Start
  <2>1. pc \notin Begun
    BY <1>14 DEF Start, TypeOK, WorkerTypeOK, SafeTypes
  <2>. QED
    BY <1>0, <1>14, <2>1, StutterKeeps DEF Start, KeepWork, Wanted
<1>15. CASE UNCHANGED <<indexVars, pc, current, batch>>
  BY <1>0, <1>15, StutterKeeps DEF Wanted
<1>16. CASE IgnoreEvent \/ DropEvent \/ PushEvent \/ Stop \/ Tick \/ UNCHANGED vars
  BY <1>15, <1>16 DEF IgnoreEvent, DropEvent, PushEvent, Stop, Tick, vars, Accept, KeepProgram,
     indexVars, workVars
<1>17. ASSUME NEW b \in BOOLEAN, SetPaused(b) PROVE BatchInv'
  BY <1>15, <1>17 DEF SetPaused, indexVars, workVars
<1>24. ASSUME NEW p \in Files, NEW kind, Observe(p, kind) PROVE BatchInv'
  BY <1>15, <1>24 DEF Observe, indexVars, workVars
<1>18. ASSUME NEW p \in Files, SourceWrite(p) \/ SourceDelete(p) PROVE BatchInv'
  BY <1>15, <1>18 DEF SourceWrite, SourceDelete, KeepProgram, indexVars, workVars
<1>19. CASE MarkEvicted
  <2>1. victim \in Files
    BY <1>0, <1>19 DEF MarkEvicted, TypeOK, WorkerTypeOK
  <2>. QED
    BY <1>2, <1>19, <2>1 DEF MarkEvicted
<1>20. ASSUME NEW p \in Files, RecordDelete(p) PROVE BatchInv'
  BY <1>2, <1>20 DEF RecordDelete, Accept, workVars
<1>21. CASE WorkerStep
  BY <1>3, <1>4, <1>5, <1>6, <1>7, <1>8, <1>9, <1>10, <1>11, <1>12, <1>13, <1>19, <1>21, <1>23
     DEF WorkerStep
<1>22. CASE ReaderStep
  BY <1>1, <1>16, <1>20, <1>22, <1>24 DEF ReaderStep, RecordEvent
<1>. QED
  BY <1>8, <1>14, <1>16, <1>17, <1>18, <1>21, <1>22 DEF Next, ControlStep, WorldStep

(* The three parts together. *)
LEMMA StepRefine == ContentTold /\ RefineInv /\ [Next]_vars => RefineInv'
BY CopyStep, BatchStep, StepTypes DEF RefineInv

-----------------------------------------------------------------------------
(* Every step is one of the promise.                                       *)

(* What the promise is about, in the variables of the scheduler. *)
LateFiles == {p \in Files : raced[p]}

(* The three kinds of events that are heard of, and the dropped ones. *)
LEMMA ReaderRefines ==
  ASSUME RefineInv, ReaderStep
  PROVE  [Requests!Next]_(Requests!vars)
<1>0. /\ TypeOK /\ IndexInv /\ AskedExists
      /\ ver \in [Files -> 1..MaxVersion] /\ accepted \in [Files -> 0..MaxVersion]
      /\ raced \in [Files -> BOOLEAN]
  BY DEF RefineInv, SafeTypes, TypeOK, IndexInv, WorldTypeOK, CopyInv
<1>1. ASSUME NEW p \in Files, NEW kind \in CopyKinds, RecordCopyWorthy(p, kind)
      PROVE  Requests!Ask(p)
  <2>1. CachedPaths' = CachedPaths /\ Wanted' = Wanted \cup {p}
    BY <1>0, <1>1, AccessInHand, AccessAsks
  <2>2. /\ accepted' = [accepted EXCEPT ![p] = ver[p]]
        /\ raced' = [raced EXCEPT ![p] = Copying(p)]
        /\ disk' = disk /\ events' = events + 1
    BY <1>1 DEF RecordCopyWorthy, Accept
  <2>3. accepted'[p] \in Nat /\ accepted'[p] >= accepted[p]
    BY <1>0, <2>2 DEF AskedExists
  <2>4. accepted' = [accepted EXCEPT ![p] = accepted'[p]]
    BY <1>0, <2>2
  <2>5. LateFiles' = LateFiles \cup {p} \/ LateFiles' = LateFiles \ {p}
    BY <1>0, <2>2 DEF LateFiles, Copying
  <2>. QED
    BY <2>1, <2>2, <2>3, <2>4, <2>5 DEF Requests!Ask, Wanted, LateFiles
<1>2. ASSUME NEW p \in Files, NEW kind \in Kinds \ CopyKinds, RecordOther(p, kind)
      PROVE  Requests!HearOther
  <2>1. CachedPaths' = CachedPaths /\ Wanted' = Wanted
    BY <1>0, <1>2, AccessInHand, AccessAsks DEF CopyKinds
  <2>. QED
    BY <1>2, <2>1 DEF RecordOther, Accept, askVars, Requests!HearOther, Wanted
<1>3. ASSUME NEW p \in Files, RecordDelete(p)
      PROVE  Requests!HearDeleted(p)
  <2>1. CachedPaths' = CachedPaths \ {p} /\ Wanted' = Wanted \ {p}
    BY <1>0, <1>3, RemovedForgets DEF RecordDelete
  <2>. QED
    BY <1>3, <2>1 DEF RecordDelete, Accept, askVars, Requests!HearDeleted, Wanted
<1>4. CASE IgnoreEvent \/ DropEvent
  <2>1. CachedPaths' = CachedPaths /\ Wanted' = Wanted
    BY <1>4, StutterKeeps DEF IgnoreEvent, DropEvent
  <2>. QED
    BY <1>4, <2>1 DEF IgnoreEvent, DropEvent, Accept, askVars, Requests!Next, Requests!HearOther,
       Wanted
<1>5. CASE PushEvent
  <2>1. CachedPaths' = CachedPaths /\ Wanted' = Wanted
    BY <1>5, StutterKeeps DEF PushEvent, indexVars
  <2>. QED
    BY <1>5, <2>1 DEF PushEvent, askVars, ghostVars, Requests!vars, Wanted
<1>6. ASSUME NEW p \in Files, NEW kind, Observe(p, kind) PROVE UNCHANGED Requests!vars
  <2>1. CachedPaths' = CachedPaths /\ Wanted' = Wanted
    BY <1>6, StutterKeeps DEF Observe
  <2>. QED
    BY <1>6, <2>1 DEF Observe, askVars, ghostVars, Requests!vars, Wanted
<1>. QED
  BY <1>1, <1>2, <1>3, <1>4, <1>5, <1>6, AccessKinds DEF ReaderStep, RecordEvent, Requests!Next

(* A step that touches none of it is a stutter. *)
LEMMA FrameRefines ==
  ASSUME UNCHANGED <<indexVars, disk, accepted, raced, events>>
  PROVE  UNCHANGED Requests!vars
<1>1. CachedPaths' = CachedPaths /\ Wanted' = Wanted
  BY StutterKeeps
<1>. QED
  BY <1>1 DEF Requests!vars, Wanted

(* The worker's: begin, store, show and settle a copy, try it again, and   *)
(* remove and forget one that is evicted or whose source is gone.          *)
LEMMA WorkerRefines ==
  ASSUME ContentTold, RefineInv, WorkerStep
  PROVE  [Requests!Next]_(Requests!vars)
<1>0. /\ TypeOK /\ IndexInv /\ CopyInv /\ BatchWanted
      /\ disk \in [Files -> 1..MaxVersion \cup {None}]
      /\ accepted \in [Files -> 0..MaxVersion] /\ raced \in [Files -> BOOLEAN]
  BY DEF RefineInv, SafeTypes, TypeOK, IndexInv, WorldTypeOK, BatchInv
<1>a. pc \in AtJob => current \in batch /\ Mine \in Files /\ RetryDue \in Nat
  BY <1>0, JobInHand
<1>b. /\ pc \in {"copying", "copied", "marked"} => copyVer \in 1..MaxVersion
      /\ victim # None => victim \in Files
      /\ pc = "evicted" => victim # None
      /\ \A v \in victims : v.path \in Files
  BY <1>0 DEF TypeOK, WorkerTypeOK, Seen
<1>. USE DEF Goto, KeepOutside, askVars, ghostVars, AtJob
<1>1. CASE CopyBegin
  <2>1. PICK p \in Files : p = Mine /\ (p \in Wanted \/ p \notin CachedPaths)
    <3>1. Mine \in Files /\ current \in batch /\ pc \notin Begun
      BY <1>a, <1>1 DEF CopyBegin, Begun
    <3>. QED
      BY <1>0, <3>1 DEF BatchWanted, Wanted, Mine
  <2>2. CachedPaths' = CachedPaths /\ Wanted' = Wanted
    BY <1>1, StutterKeeps DEF CopyBegin
  <2>3. LateFiles' = LateFiles \ {p}
    BY <1>0, <1>1, <2>1 DEF CopyBegin, LateFiles
  <2>4. Requests!Begin(p)
    BY <1>1, <2>1, <2>2, <2>3 DEF CopyBegin, Requests!Begin, Wanted, LateFiles
  <2>. QED
    BY <2>4 DEF Requests!Next
<1>2. CASE Copied
  <2>1. PICK p \in Files : p = Mine
    BY <1>a, <1>2 DEF Copied
  <2>2. copyVer \in 1..MaxVersion /\ disk' = [disk EXCEPT ![p] = copyVer]
    BY <1>0, <1>b, <1>2, <2>1 DEF Copied, KeepsCopy, SameSize, ContentTold, Mine
  <2>3. CachedPaths' = CachedPaths /\ Wanted' = Wanted
    BY <1>2, StutterKeeps DEF Copied
  <2>4. /\ disk'[p] = copyVer /\ disk' = [disk EXCEPT ![p] = disk'[p]]
        /\ disk'[p] \in Nat /\ disk'[p] # None
    BY <1>0, <2>2, SentinelAssumption
  <2>5. raced'[p] \/ disk'[p] >= accepted'[p]
    BY <1>0, <1>2, <2>1, <2>2, <2>4 DEF Copied, CopyInv, CopyFresh
  <2>6. Requests!Holds(p)'
    BY <2>4, <2>5 DEF Requests!Holds
  <2>7. Requests!Store(p)
    BY <1>2, <2>3, <2>4, <2>6 DEF Copied, Requests!Store, Wanted
  <2>. QED
    BY <2>7 DEF Requests!Next
<1>3. ASSUME pc \in {"copied", "marked"} PROVE Requests!Holds(Mine)
  <2>1. Mine \in Files /\ disk[Mine] \in 1..MaxVersion
    BY <1>0, <1>a, <1>b, <1>3 DEF CopyInv, CopyPlaced
  <2>2. raced[Mine] \/ disk[Mine] >= accepted[Mine]
    BY <1>0, <1>3, <2>1 DEF CopyInv, CopyPlaced, CopyFresh
  <2>. QED
    BY <2>1, <2>2, SentinelAssumption DEF Requests!Holds
<1>4. CASE MarkCopied
  <2>1. Mine \in Files /\ SizeOf[copyVer] \in Nat /\ SizeOf[disk[Mine]] \in Nat
    BY <1>0, <1>a, <1>b, <1>4, BoundsAssumption DEF MarkCopied, CopyInv, CopyPlaced
  <2>. HIDE DEF Mine
  <2>2. /\ CachedPaths' = IF HasRow(Mine) THEN CachedPaths \cup {Mine} ELSE CachedPaths
        /\ Wanted' = Wanted
    BY <1>0, <1>4, <2>1, CachedShows DEF MarkCopied
  <2>3. CASE HasRow(Mine)
    BY <1>3, <1>4, <2>1, <2>2, <2>3 DEF MarkCopied, Requests!Show, Requests!Next, Wanted
  <2>4. CASE ~HasRow(Mine)
    BY <1>4, <2>2, <2>4 DEF MarkCopied, Requests!vars, Wanted
  <2>. QED
    BY <2>3, <2>4
<1>5. CASE DropJob
  <2>1. Mine \in Files /\ RemovePendingJob(Mine)
    BY <1>a, <1>5 DEF DropJob
  <2>2. CachedPaths' = CachedPaths /\ Wanted' = Wanted \ {Mine}
    BY <1>0, <2>1, RemovalSettles
  <2>3. CASE HasJob(Mine)
    <3>1. Mine \in CachedPaths \/ Mine \in LateFiles
      BY <1>0, <1>5, <2>1, <2>3 DEF DropJob, CopyInv, CopyShown, LateFiles
    <3>2. Requests!Settle(Mine)
      BY <1>3, <1>5, <2>2, <3>1 DEF DropJob, FinishJob, Requests!Settle, Wanted, LateFiles
    <3>. QED
      BY <2>1, <3>2 DEF Requests!Next
  <2>4. CASE ~HasJob(Mine)
    BY <1>5, <2>2, <2>4 DEF DropJob, FinishJob, Requests!vars, Wanted
  <2>. QED
    BY <2>3, <2>4
<1>6. CASE Reschedule
  <2>1. Mine \in Files /\ UpsertPendingJob(Mine, RetryDue)
    BY <1>a, <1>6 DEF Reschedule
  <2>2. CachedPaths' = CachedPaths /\ Wanted' = Wanted \cup {Mine}
    BY <1>0, <1>a, <1>6, <2>1, UpsertAsks DEF Reschedule
  <2>. QED
    BY <1>6, <2>1, <2>2 DEF Reschedule, Requests!TryAgain, Requests!Next, Wanted
<1>7. CASE RemoveStaleCopy
  <2>1. Mine \in Files /\ CachedPaths' = CachedPaths /\ Wanted' = Wanted
    BY <1>a, <1>7, StutterKeeps DEF RemoveStaleCopy
  <2>. QED
    BY <1>7, <2>1 DEF RemoveStaleCopy, Requests!Remove, Requests!Next, Wanted
<1>8. CASE MarkMissing
  <2>1. Mine \in Files /\ MarkRemoved(Mine) /\ disk[Mine] = None
    BY <1>0, <1>a, <1>8 DEF MarkMissing, CopyInv, CopyGone
  <2>2. CachedPaths' = CachedPaths \ {Mine} /\ Wanted' = Wanted \ {Mine}
    BY <1>0, <2>1, RemovedForgets
  <2>. QED
    BY <1>8, <2>1, <2>2 DEF MarkMissing, FinishJob, Requests!Forget, Requests!Next, Wanted
<1>9. CASE MarkEvicted
  <2>1. victim \in Files /\ MarkRemoved(victim) /\ disk[victim] = None
    BY <1>0, <1>b, <1>9 DEF MarkEvicted, CopyInv, CopyGone
  <2>2. CachedPaths' = CachedPaths \ {victim} /\ Wanted' = Wanted \ {victim}
    BY <1>0, <2>1, RemovedForgets
  <2>. QED
    BY <1>9, <2>1, <2>2 DEF MarkEvicted, Requests!Forget, Requests!Next, Wanted
<1>10. ASSUME NEW v \in victims, EvictFile(v) \/ EvictFails(v)
       PROVE  [Requests!Next]_(Requests!vars)
  <2>1. CASE EvictFails(v)
    BY <2>1, FrameRefines DEF EvictFails
  <2>2. CASE EvictFile(v)
    <3>1. v.path \in Files /\ CachedPaths' = CachedPaths /\ Wanted' = Wanted
      BY <1>b, <2>2, StutterKeeps DEF EvictFile
    <3>. QED
      BY <2>2, <3>1 DEF EvictFile, Requests!Remove, Requests!Next, Wanted
  <2>. QED
    BY <1>10, <2>1, <2>2
<1>11. CASE CopyThrows
  <2>1. hand.path \in Files /\ RecordError(hand.path)
    BY <1>0, <1>11 DEF CopyThrows, TypeOK, WorkerTypeOK, Idle, Entry
  <2>2. CachedPaths' = CachedPaths /\ Wanted' = Wanted
    BY <1>0, <2>1, ErrorKeeps
  <2>. QED
    BY <1>11, <2>2 DEF CopyThrows, Leave, Requests!vars, Wanted
<1>15. CASE CountFailure
  <2>1. Mine \in Files /\ RecordError(Mine)
    BY <1>a, <1>15 DEF CountFailure
  <2>2. CachedPaths' = CachedPaths /\ Wanted' = Wanted
    BY <1>0, <2>1, ErrorKeeps
  <2>. QED
    BY <1>15, <2>2 DEF CountFailure, Requests!vars, Wanted
<1>12. ASSUME NEW i \in DOMAIN heap, Pop(i) PROVE [Requests!Next]_(Requests!vars)
  BY <1>12, FrameRefines DEF Pop
<1>13. CASE PutBack \/ SkipStale \/ Lookup \/ WorkerExit \/ SelectBatch \/ NextJob
            \/ BatchDone \/ RoomEnough \/ ListVictims \/ EvictDone
  BY <1>13, FrameRefines
     DEF PutBack, SkipStale, Lookup, WorkerExit, SelectBatch, NextJob, BatchDone, Leave,
         RoomEnough, ListVictims, EvictDone
<1>14. CASE SourceMissing \/ CopyFails \/ Cancelled \/ RemoveFails \/ PushRetry
  BY <1>14, FrameRefines
     DEF SourceMissing, CopyFails, Cancelled, Leave, RemoveFails, PushRetry, FinishJob
<1>. QED
  BY <1>1, <1>2, <1>4, <1>5, <1>6, <1>7, <1>8, <1>9, <1>10, <1>11, <1>12, <1>13, <1>14, <1>15
     DEF WorkerStep

(* Starting, pausing, stopping and losing the program, and what happens to *)
(* the sources, are of no concern to the promise.                          *)
LEMMA OthersRefine ==
  ASSUME ControlStep \/ WorldStep
  PROVE  UNCHANGED Requests!vars
<1>1. CASE ControlStep
  BY <1>1, FrameRefines
     DEF ControlStep, Start, Stop, Join, Crash, Ends, SetPaused, askVars, ghostVars
<1>2. CASE WorldStep
  BY <1>2, FrameRefines DEF WorldStep, Tick, SourceWrite, SourceDelete, KeepProgram, askVars, ghostVars
<1>. QED
  BY <1>1, <1>2

(* Every step of the scheduler is a step of the promise, or none at all. *)
LEMMA StepRefines ==
  ContentTold /\ RefineInv /\ [Next]_vars => [Requests!Next]_(Requests!vars)
<1>1. UNCHANGED vars => UNCHANGED Requests!vars
  BY FrameRefines DEF vars, askVars, ghostVars, indexVars
<1>. QED
  BY <1>1, ReaderRefines, WorkerRefines, OthersRefine DEF Next

-----------------------------------------------------------------------------

(* The scheduler keeps the promise of CopyRequests, whatever accesses,     *)
(* deletions, pauses, failures, evictions, crashes and restarts happen and *)
(* however the threads interleave, if it compares hashes before it takes a *)
(* cached file of the same size for the same content, or no change of a    *)
(* file keeps its size.                                                    *)
THEOREM SchedulerRefines ==
  ASSUME ContentTold
  PROVE  Spec => RequestsKept
<1>1. Init => RefineInv /\ Requests!Init
  BY InitRefine, InitRefines
<1>2. RefineInv /\ [Next]_vars => RefineInv'
  BY StepRefine
<1>3. RefineInv /\ [Next]_vars => [Requests!Next]_(Requests!vars)
  BY StepRefines
<1>. QED
  BY <1>1, <1>2, <1>3, PTL DEF Spec, RequestsKept, Requests!Spec

-----------------------------------------------------------------------------
(* What follows from the promise alone, for every set of files.            *)

RequestsInv == Requests!TypeOK /\ Requests!SettledFresh

(* Nothing is cached before the first access. *)
LEMMA RequestsInitInv == Requests!Init => RequestsInv
BY DEF Requests!Init, RequestsInv, Requests!TypeOK, Requests!SettledFresh

(* The promise keeps the types. *)
LEMMA RequestsTypes == Requests!TypeOK /\ [Requests!Next]_(Requests!vars) => Requests!TypeOK'
<1>. SUFFICES ASSUME Requests!TypeOK, [Requests!Next]_(Requests!vars) PROVE Requests!TypeOK'
  OBVIOUS
<1>. USE DEF Requests!TypeOK
<1>1. CASE Requests!HearOther \/ UNCHANGED Requests!vars
  BY <1>1 DEF Requests!HearOther, Requests!vars
<1>2. ASSUME NEW p \in Files, Requests!Ask(p) PROVE Requests!TypeOK'
  BY <1>2 DEF Requests!Ask
<1>3. ASSUME NEW p \in Files, Requests!HearDeleted(p) \/ Requests!Begin(p) \/ Requests!Forget(p)
      PROVE  Requests!TypeOK'
  BY <1>3 DEF Requests!HearDeleted, Requests!Begin, Requests!Forget
<1>4. ASSUME NEW p \in Files, Requests!Store(p) PROVE Requests!TypeOK'
  BY <1>4 DEF Requests!Store
<1>5. ASSUME NEW p \in Files,
             Requests!Show(p) \/ Requests!Settle(p) \/ Requests!TryAgain(p) \/ Requests!Remove(p)
      PROVE  Requests!TypeOK'
  BY <1>5 DEF Requests!Show, Requests!Settle, Requests!TryAgain, Requests!Remove
<1>. QED
  BY <1>1, <1>2, <1>3, <1>4, <1>5 DEF Requests!Next

(* Only a settled request can break it, and settling looks at the copy. *)
LEMMA RequestsFresh ==
  Requests!TypeOK /\ Requests!SettledFresh /\ [Requests!Next]_(Requests!vars)
    => Requests!SettledFresh'
<1>. SUFFICES ASSUME Requests!TypeOK, Requests!SettledFresh, [Requests!Next]_(Requests!vars)
              PROVE  Requests!SettledFresh'
  OBVIOUS
<1>. USE DEF Requests!TypeOK, Requests!SettledFresh, Requests!Holds
<1>1. CASE Requests!HearOther \/ UNCHANGED Requests!vars
  BY <1>1 DEF Requests!HearOther, Requests!vars
<1>2. ASSUME NEW p \in Files, Requests!Ask(p) PROVE Requests!SettledFresh'
  BY <1>2 DEF Requests!Ask
<1>3. ASSUME NEW p \in Files, Requests!HearDeleted(p) \/ Requests!Begin(p) \/ Requests!Forget(p)
      PROVE  Requests!SettledFresh'
  BY <1>3 DEF Requests!HearDeleted, Requests!Begin, Requests!Forget
<1>4. ASSUME NEW p \in Files, Requests!Store(p) PROVE Requests!SettledFresh'
  BY <1>4 DEF Requests!Store
<1>5. ASSUME NEW p \in Files, Requests!Show(p) \/ Requests!Settle(p) \/ Requests!TryAgain(p)
      PROVE  Requests!SettledFresh'
  BY <1>5 DEF Requests!Show, Requests!Settle, Requests!TryAgain
<1>6. ASSUME NEW p \in Files, Requests!Remove(p) PROVE Requests!SettledFresh'
  BY <1>6 DEF Requests!Remove
<1>. QED
  BY <1>1, <1>2, <1>3, <1>4, <1>5, <1>6 DEF Requests!Next

(* Whatever keeps the promise never shows, with no request left, a copy    *)
(* older than what was asked for, unless it was asked for late.            *)
THEOREM PromiseIsFresh == Requests!Spec => []Requests!SettledFresh
<1>1. RequestsInv /\ [Requests!Next]_(Requests!vars) => RequestsInv'
  BY RequestsTypes, RequestsFresh DEF RequestsInv
<1>2. RequestsInv => Requests!SettledFresh
  BY DEF RequestsInv
<1>. QED
  BY RequestsInitInv, <1>1, <1>2, PTL DEF Requests!Spec

(* So what a cached file shows is never older than what its last access    *)
(* asked for, unless a copy of it is pending or that access came while the *)
(* file was being copied.                                                  *)
THEOREM CachedIsFresh ==
  ASSUME ContentTold
  PROVE  Spec => []FreshUnlessRaced
<1>1. Requests!SettledFresh => FreshUnlessRaced
  BY DEF Requests!SettledFresh, Requests!Holds, FreshUnlessRaced, CachedPaths
<1>. QED
  BY <1>1, SchedulerRefines, PromiseIsFresh, PTL DEF RequestsKept

-----------------------------------------------------------------------------

(* What the index calls present has a cache file, but for the moment       *)
(* between its removal and the transaction that records it, as long as the *)
(* process does not die at that moment.                                    *)
THEOREM PresentIsThere ==
  ASSUME "crash" \notin Environment
  PROVE  Spec => []PresentHasFile
<1>. DEFINE PresentInv == SafeTypes /\ PresentHasFile
<1>1. Init => PresentInv
  BY InitTypes, InitRefines DEF Init, IndexInit, PresentHasFile, CachedPaths, HasRow
<1>2. PresentInv /\ [Next]_vars => PresentHasFile'
  <2>. SUFFICES ASSUME PresentInv, [Next]_vars PROVE PresentHasFile'
    OBVIOUS
  <2>0. /\ TypeOK /\ IndexInv /\ PresentHasFile
        /\ disk \in [Files -> 1..MaxVersion \cup {None}]
        /\ now \in Nat /\ CopyDelay \in Nat
    BY SettingsAssumption DEF SafeTypes, TypeOK, IndexInv, WorldTypeOK
  <2>a. /\ pc \in AtJob => Mine \in Files /\ RetryDue \in Nat
        /\ pc \in {"copying", "copied", "marked"} => copyVer \in 1..MaxVersion
        /\ pc = "copied" => disk[Mine] # None
        /\ victim # None => victim \in Files
        /\ hand # None => hand.path \in Files
        /\ hand = None <=> pc \in Idle
        /\ pc = "evicted" => victim # None
        /\ life = "down" => pc = "exited"
    BY <2>0, JobInHand DEF TypeOK, WorkerTypeOK, Entry
  <2>. USE DEF PresentHasFile, Goto, AtJob, Idle, Mine
  <2>1. ASSUME NEW p \in Files, NEW kind, RecordCopyWorthy(p, kind) \/ RecordOther(p, kind)
        PROVE  PresentHasFile'
    <3>1. CachedPaths' = CachedPaths
      BY <2>0, <2>1, AccessInHand, AccessAsks
    <3>. QED
      BY <2>0, <2>1, <3>1 DEF RecordCopyWorthy, RecordOther, Accept, workVars
  <2>2. ASSUME NEW p \in Files, RecordDelete(p) PROVE PresentHasFile'
    <3>1. CachedPaths' = CachedPaths \ {p}
      BY <2>0, <2>2, RemovedForgets DEF RecordDelete
    <3>. QED
      BY <2>0, <2>2, <3>1 DEF RecordDelete, Accept, workVars
  <2>3. CASE MarkEvicted
    <3>1. CachedPaths' = CachedPaths \ {victim}
      BY <2>0, <2>a, <2>3, RemovedForgets DEF MarkEvicted
    <3>. QED
      BY <2>0, <2>3, <3>1 DEF MarkEvicted
  <2>4. CASE MarkMissing
    <3>1. Mine \in Files /\ MarkRemoved(Mine)
      BY <2>a, <2>4 DEF MarkMissing
    <3>2. CachedPaths' = CachedPaths \ {Mine}
      BY <2>0, <3>1, RemovedForgets
    <3>. QED
      BY <2>0, <2>4, <3>2 DEF MarkMissing
  <2>5. CASE MarkCopied
    <3>1. CachedPaths' \subseteq CachedPaths \cup {Mine}
      <4>1. Mine \in Files /\ rows \in [Files -> Row \cup {None}]
        BY <2>0, <2>a, <2>5 DEF MarkCopied, IndexInv, IndexTypeOK
      <4>. HIDE DEF Mine
      <4>. QED
        BY <2>5, <4>1 DEF MarkCopied, MarkCached, CachedPaths, HasRow
    <3>. QED
      BY <2>0, <2>a, <2>5, <3>1 DEF MarkCopied
  <2>6. CASE DropJob
    <3>1. Mine \in Files /\ RemovePendingJob(Mine)
      BY <2>a, <2>6 DEF DropJob
    <3>2. CachedPaths' = CachedPaths
      BY <2>0, <3>1, RemovalSettles
    <3>. QED
      BY <2>0, <2>6, <3>2 DEF DropJob
  <2>7. CASE Reschedule
    <3>1. Mine \in Files /\ RetryDue \in Nat /\ UpsertPendingJob(Mine, RetryDue)
      BY <2>a, <2>7 DEF Reschedule
    <3>2. CachedPaths' = CachedPaths
      BY <2>0, <3>1, UpsertAsks
    <3>. QED
      BY <2>0, <2>7, <3>2 DEF Reschedule
  <2>21. CASE CountFailure
    <3>1. Mine \in Files /\ RecordError(Mine)
      BY <2>a, <2>21 DEF CountFailure
    <3>2. CachedPaths' = CachedPaths
      BY <2>0, <3>1, ErrorKeeps
    <3>. QED
      BY <2>0, <2>21, <3>2 DEF CountFailure
  <2>8. CASE CopyThrows
    <3>1. hand.path \in Files /\ RecordError(hand.path)
      BY <2>a, <2>8 DEF CopyThrows
    <3>2. CachedPaths' = CachedPaths
      BY <2>0, <3>1, ErrorKeeps
    <3>. QED
      BY <2>0, <2>8, <3>2 DEF CopyThrows, Leave
  <2>9. CASE Copied \/ RemoveStaleCopy
    <3>1. CachedPaths' = CachedPaths
      BY <2>9, StutterKeeps DEF Copied, RemoveStaleCopy
    <3>. QED
      BY <2>0, <2>a, <2>9, <3>1, SentinelAssumption DEF Copied, RemoveStaleCopy
  <2>10. ASSUME NEW v \in victims, EvictFile(v) \/ EvictFails(v) PROVE PresentHasFile'
    <3>1. CachedPaths' = CachedPaths
      BY <2>10, StutterKeeps DEF EvictFile, EvictFails
    <3>. QED
      BY <2>0, <2>10, <3>1 DEF EvictFile, EvictFails
  <2>11. ASSUME UNCHANGED <<indexVars, disk>>, pc \notin {"evicted", "unlinked"}
         PROVE  PresentHasFile'
    <3>1. CachedPaths' = CachedPaths
      BY <2>11, StutterKeeps
    <3>. QED
      BY <2>0, <2>11, <3>1
  <2>12. ASSUME UNCHANGED <<indexVars, disk, pc, victim, current>> PROVE PresentHasFile'
    <3>1. CachedPaths' = CachedPaths
      BY <2>12, StutterKeeps
    <3>. QED
      BY <2>0, <2>12, <3>1
  <2>13. ASSUME NEW i \in DOMAIN heap, Pop(i) PROVE PresentHasFile'
    BY <2>11, <2>13 DEF Pop, indexVars
  <2>14. CASE PutBack \/ SkipStale \/ Lookup \/ WorkerExit \/ SelectBatch \/ NextJob
              \/ BatchDone \/ RoomEnough \/ ListVictims \/ EvictDone
    BY <2>11, <2>14
       DEF PutBack, SkipStale, Lookup, WorkerExit, SelectBatch, NextJob, BatchDone, Leave,
           RoomEnough, ListVictims, EvictDone, indexVars
  <2>15. CASE CopyBegin \/ SourceMissing \/ CopyFails \/ Cancelled \/ RemoveFails \/ PushRetry
    BY <2>11, <2>15
       DEF CopyBegin, SourceMissing, CopyFails, Cancelled, Leave, RemoveFails, PushRetry,
           FinishJob, indexVars
  <2>16. CASE Start \/ Join \/ Crash
    BY <2>11, <2>16, <2>a DEF Start, Join, Crash, Ends, indexVars
  <2>17. ASSUME NEW b \in BOOLEAN, SetPaused(b) PROVE PresentHasFile'
    BY <2>12, <2>17 DEF SetPaused, indexVars, workVars
  <2>18. ASSUME NEW p \in Files, SourceWrite(p) \/ SourceDelete(p) PROVE PresentHasFile'
    BY <2>12, <2>18 DEF SourceWrite, SourceDelete, KeepProgram, indexVars, workVars
  <2>22. ASSUME NEW p \in Files, NEW kind, Observe(p, kind) PROVE PresentHasFile'
    BY <2>12, <2>22 DEF Observe, indexVars, workVars
  <2>19. CASE IgnoreEvent \/ DropEvent \/ PushEvent \/ Stop \/ Tick \/ UNCHANGED vars
    BY <2>12, <2>19 DEF IgnoreEvent, DropEvent, PushEvent, Stop, Tick, Accept, KeepProgram,
       vars, indexVars, workVars
  <2>20. CASE WorkerStep
    BY <2>3, <2>4, <2>5, <2>6, <2>7, <2>8, <2>9, <2>10, <2>13, <2>14, <2>15, <2>20, <2>21
       DEF WorkerStep
  <2>. QED
    BY <2>1, <2>2, <2>16, <2>17, <2>18, <2>19, <2>20, <2>22
       DEF Next, ReaderStep, RecordEvent, ControlStep, WorldStep
<1>. QED
  BY <1>1, <1>2, StepTypes, PTL DEF Spec

-----------------------------------------------------------------------------
(* The quiet period, for every delay, every unit of time and every number  *)
(* of files: what a worker that reads its batch once and then copies for   *)
(* minutes may still say of the time of a copy.                            *)

(* The batch was read at a time that has come, and a job in it that is not *)
(* due at that time any more was moved by an access recorded since.        *)
BatchRead == batchNow <= now
MovedByAccess(j) ==
  HasJob(j.path) /\ jobs[j.path].due > Stored(batchNow) => j.path \in renewed
BatchDue == \A j \in batch : (j = current /\ pc \in Begun) \/ MovedByAccess(j)
TimeInv == SafeTypes /\ NoOpenBatch /\ BatchInv /\ BatchRead /\ BatchDue

(* Rounding to the second keeps the order of times. *)
LEMMA StoredOrder ==
  ASSUME NEW s \in Nat, NEW t \in Nat, s <= t
  PROVE  Stored(s) <= Stored(t) /\ Stored(s) <= t
<1>1. Stored(s) \in Nat /\ Stored(s) <= s
  <2>1. s % Second \in Nat
    BY SecondAssumption, SMT
  <2>. QED
    BY <2>1, StoredType, SMT DEF Stored
<1>2. Stored(s) <= t
  BY <1>1, SMT
<1>. QED
  BY <1>1, <1>2, StoredTwice, StoredBelow

(* Before the first start there is no batch. *)
LEMMA InitTime == Init => TimeInv
BY InitTypes DEF TimeInv, Init, NoOpenBatch, BatchInv, BatchOnce, BatchWanted, BatchRead, BatchDue

(* A step that keeps the batch and gives no path of it a later due time. *)
LEMMA TimeFrame ==
  ASSUME TimeInv, UNCHANGED <<batch, batchNow, current>>, now <= now', now' \in Nat,
         renewed \subseteq renewed', pc \in Begun => pc' \in Begun,
         \A j \in batch : HasJob(j.path)' => HasJob(j.path) /\ jobs'[j.path].due = jobs[j.path].due
  PROVE  BatchRead' /\ BatchDue'
<1>1. BatchRead'
  BY DEF TimeInv, BatchRead, SafeTypes, TypeOK, WorkerTypeOK, WorldTypeOK
<1>2. ASSUME NEW j \in batch, ~(j = current /\ pc \in Begun) PROVE MovedByAccess(j)'
  BY <1>2 DEF TimeInv, BatchDue, MovedByAccess
<1>. QED
  BY <1>1, <1>2 DEF BatchDue

(* A step that deals with the current job, or drops the batch. *)
LEMMA TimeLeaves ==
  ASSUME TimeInv, batch' \subseteq batch \ {current}, now' = now, renewed' = renewed,
         \A j \in batch' : jobs'[j.path] = jobs[j.path],
         batchNow' = batchNow
  PROVE  BatchRead' /\ BatchDue'
<1>1. BatchRead'
  BY DEF TimeInv, BatchRead
<1>2. ASSUME NEW j \in batch' PROVE MovedByAccess(j)'
  <2>1. MovedByAccess(j)
    BY <1>2 DEF TimeInv, BatchDue
  <2>. QED
    BY <1>2, <2>1 DEF MovedByAccess, HasJob
<1>. QED
  BY <1>1, <1>2 DEF BatchDue

(* Only accesses move a job of the batch that is still to be copied. *)
LEMMA TimeStep ==
  ASSUME TimeInv, [Next]_vars
  PROVE  BatchRead' /\ BatchDue'
<1>0. /\ TypeOK /\ IndexInv /\ NoOpenBatch /\ BatchOnce /\ BatchRead /\ BatchDue
      /\ now \in Nat /\ batchNow \in Nat /\ CopyDelay \in Nat
      /\ current # None <=> pc \in AtJob
      /\ \A j \in batch : j.path \in Files /\ j # None
      /\ current # None => current \in batch /\ Mine \in Files /\ RetryDue \in Nat
  <2>1. TypeOK /\ IndexInv /\ NoOpenBatch /\ BatchOnce /\ BatchRead /\ BatchDue
    BY DEF TimeInv, SafeTypes, TypeOK, IndexInv, BatchInv
  <2>2. /\ now \in Nat /\ batchNow \in Nat /\ (current # None <=> pc \in AtJob)
        /\ batch \in SUBSET BatchJob
    BY <2>1 DEF TypeOK, WorldTypeOK, WorkerTypeOK
  <2>3. \A j \in batch : j.path \in Files /\ j # None
    BY <2>2, SentinelAssumption DEF BatchJob
  <2>4. current # None => current \in batch /\ Mine \in Files /\ RetryDue \in Nat
    BY <2>1, <2>2, JobInHand
  <2>. QED
    BY <2>1, <2>2, <2>3, <2>4, SettingsAssumption
<1>a. \A j \in batch : j # current /\ current # None => j.path # Mine
  BY <1>0 DEF BatchOnce, Mine
<1>. USE DEF Goto, KeepOutside, AtJob, Begun, ghostVars, askVars
<1>1. ASSUME NEW p \in Files, NEW kind, RecordCopyWorthy(p, kind)
      PROVE  BatchRead' /\ BatchDue'
  <2>1. \A q \in Files \ {p} : jobs'[q] = jobs[q]
    BY <1>0, <1>1 DEF RecordCopyWorthy, RecordAccess, IndexInv, IndexTypeOK
  <2>2. /\ UNCHANGED <<pc, current, batch, batchNow, now>>
        /\ renewed' = renewed \cup {q \in {p} : \E j \in batch : j.path = q}
    BY <1>1 DEF RecordCopyWorthy, Accept, workVars, worldVars
  <2>3. ASSUME NEW j \in batch, ~(j = current /\ pc \in Begun) PROVE MovedByAccess(j)'
    <3>1. CASE j.path = p
      BY <2>2, <3>1 DEF MovedByAccess
    <3>2. CASE j.path # p
      BY <1>0, <2>1, <2>2, <2>3, <3>2 DEF MovedByAccess, BatchDue, HasJob
    <3>. QED
      BY <3>1, <3>2
  <2>. QED
    BY <1>0, <2>2, <2>3 DEF BatchRead, BatchDue
<1>2. ASSUME NEW p \in Files, MarkRemoved(p),
             UNCHANGED <<current, batch, batchNow, now, renewed>>, pc \in Begun => pc' \in Begun
      PROVE  BatchRead' /\ BatchDue'
  <2>1. \A q \in Files : HasJob(q)' => HasJob(q) /\ jobs'[q] = jobs[q]
    BY <1>0, <1>2 DEF MarkRemoved, IndexInv, IndexTypeOK, HasJob
  <2>. QED
    BY <1>0, <1>2, <2>1, TimeFrame
<1>3. CASE MarkCopied
  <2>1. UNCHANGED <<batch, batchNow, current, now, jobs, renewed>> /\ pc' \in Begun
    BY <1>3 DEF MarkCopied, MarkCached, worldVars
  <2>. QED
    BY <1>0, <2>1, TimeFrame DEF HasJob
<1>4. CASE DropJob \/ MarkMissing \/ PushRetry
  <2>1. \A q \in Files \ {Mine} : jobs'[q] = jobs[q]
    BY <1>0, <1>4 DEF DropJob, MarkMissing, PushRetry, RemovePendingJob, MarkRemoved, IndexInv,
       IndexTypeOK, indexVars
  <2>2. batch' = batch \ {current} /\ UNCHANGED <<batchNow, now, renewed>> /\ current # None
    BY <1>0, <1>4 DEF DropJob, MarkMissing, PushRetry, FinishJob, worldVars
  <2>. QED
    BY <1>0, <1>a, <2>1, <2>2, TimeLeaves
<1>5. CASE CountFailure \/ Reschedule
  <2>1. Mine \in Files /\ current # None /\ pc \in Begun /\ pc' \in Begun
    BY <1>0, <1>5 DEF CountFailure, Reschedule
  <2>2. \A q \in Files \ {Mine} : jobs'[q] = jobs[q]
    BY <1>0, <1>5, <2>1 DEF CountFailure, RecordError, Reschedule, UpsertPendingJob, IndexInv,
       IndexTypeOK
  <2>3. UNCHANGED <<batch, batchNow, current, now, renewed>>
    BY <1>5 DEF CountFailure, Reschedule, worldVars
  <2>4. ASSUME NEW j \in batch, j # current PROVE MovedByAccess(j)'
    <3>1. MovedByAccess(j) /\ j.path \in Files \ {Mine}
      BY <1>0, <1>a, <2>1, <2>4 DEF BatchDue
    <3>. QED
      BY <2>2, <2>3, <3>1 DEF MovedByAccess, HasJob
  <2>. QED
    BY <1>0, <2>1, <2>3, <2>4 DEF BatchDue, BatchRead
<1>6. ASSUME batch' = {}, batchNow' = 0, now' = now PROVE BatchRead' /\ BatchDue'
  BY <1>0, <1>6 DEF BatchRead, BatchDue
<1>7. CASE BatchDone \/ Cancelled \/ CopyThrows \/ Join \/ Crash
  BY <1>6, <1>7 DEF BatchDone, Cancelled, CopyThrows, Leave, Join, Crash, Ends, worldVars
<1>8. CASE SelectBatch
  <2>1. PICK D \in SUBSET DuePaths(batchNow) : batch' = Snapshot(D)
    BY <1>8 DEF SelectBatch, Selection
  <2>2. UNCHANGED <<batchNow, now, jobs>>
    BY <1>8 DEF SelectBatch, worldVars, indexVars
  <2>3. \A j \in batch' : j.path \in Files /\ HasJob(j.path)
                         /\ jobs[j.path].due <= Stored(batchNow)
    BY <2>1 DEF Snapshot, DuePaths
  <2>4. ASSUME NEW j \in batch' PROVE MovedByAccess(j)'
    <3>1. jobs[j.path].due \in Nat /\ Stored(batchNow) \in Nat
      BY <1>0, <2>3, StoredType DEF IndexInv, IndexTypeOK, HasJob, Job
    <3>. QED
      BY <2>2, <2>3, <2>4, <3>1, SMT DEF MovedByAccess, HasJob
  <2>. QED
    BY <1>0, <2>2, <2>4 DEF BatchRead, BatchDue
<1>23. CASE Lookup
  <2>1. batch' = {} /\ now' = now /\ batchNow' = now
    BY <1>23, <1>0 DEF Lookup, NoOpenBatch, worldVars
  <2>. QED
    BY <1>0, <2>1 DEF BatchRead, BatchDue
<1>9. ASSUME UNCHANGED <<jobs, batch, batchNow, renewed>>, now' \in {now, now + 1},
             current' = current \/ current = None,
             pc \in Begun => pc' \in Begun \/ batch = {}
      PROVE  BatchRead' /\ BatchDue'
  <2>2. BatchRead'
    BY <1>0, <1>9, SMT DEF BatchRead
  <2>3. ASSUME NEW j \in batch, MovedByAccess(j) PROVE MovedByAccess(j)'
    BY <1>9, <2>3 DEF MovedByAccess, HasJob
  <2>4. BatchDue'
    BY <1>0, <1>9, <2>3 DEF BatchDue
  <2>. QED
    BY <2>2, <2>4
<1>10. CASE NextJob \/ RoomEnough \/ ListVictims \/ EvictDone \/ CopyBegin \/ SourceMissing
            \/ Copied \/ CopyFails \/ RemoveStaleCopy \/ RemoveFails
  BY <1>0, <1>9, <1>10
     DEF NextJob, RoomEnough, ListVictims, EvictDone, CopyBegin, SourceMissing, Copied, CopyFails,
         RemoveStaleCopy, RemoveFails, worldVars, indexVars
<1>11. CASE PutBack \/ SkipStale \/ WorkerExit
  BY <1>0, <1>9, <1>11 DEF PutBack, SkipStale, WorkerExit, worldVars, indexVars
<1>12. ASSUME NEW v \in victims, EvictFile(v) \/ EvictFails(v) PROVE BatchRead' /\ BatchDue'
  BY <1>0, <1>9, <1>12 DEF EvictFile, EvictFails, worldVars, indexVars
<1>13. ASSUME NEW i \in DOMAIN heap, Pop(i) PROVE BatchRead' /\ BatchDue'
  BY <1>0, <1>9, <1>13 DEF Pop, worldVars, indexVars
<1>14. CASE MarkEvicted
  <2>1. victim \in Files /\ MarkRemoved(victim)
    BY <1>0, <1>14 DEF MarkEvicted, TypeOK, WorkerTypeOK
  <2>. QED
    BY <1>2, <1>14, <2>1 DEF MarkEvicted, worldVars
<1>15. ASSUME NEW p \in Files, NEW kind \in Kinds \ CopyKinds, RecordOther(p, kind)
       PROVE  BatchRead' /\ BatchDue'
  BY <1>0, <1>9, <1>15 DEF RecordOther, RecordAccess, Accept, workVars, worldVars
<1>24. ASSUME NEW p \in Files, NEW kind, Observe(p, kind) PROVE BatchRead' /\ BatchDue'
  BY <1>0, <1>9, <1>24 DEF Observe, workVars, worldVars, indexVars
<1>16. ASSUME NEW p \in Files, RecordDelete(p) PROVE BatchRead' /\ BatchDue'
  BY <1>2, <1>16 DEF RecordDelete, Accept, workVars, worldVars
<1>17. CASE Start
  <2>1. pc \notin Begun
    BY <1>0, <1>17 DEF Start, TypeOK, WorkerTypeOK
  <2>. QED
    BY <1>0, <1>9, <1>17, <2>1 DEF Start, KeepWork, worldVars, indexVars
<1>18. CASE IgnoreEvent \/ DropEvent \/ PushEvent \/ Stop \/ Tick \/ UNCHANGED vars
  BY <1>0, <1>9, <1>18 DEF IgnoreEvent, DropEvent, PushEvent, Stop, Tick, Accept, KeepProgram,
     vars, workVars, worldVars, indexVars
<1>19. ASSUME NEW b \in BOOLEAN, SetPaused(b) PROVE BatchRead' /\ BatchDue'
  BY <1>0, <1>9, <1>19 DEF SetPaused, workVars, worldVars, indexVars
<1>20. ASSUME NEW p \in Files, SourceWrite(p) \/ SourceDelete(p) PROVE BatchRead' /\ BatchDue'
  BY <1>0, <1>9, <1>20 DEF SourceWrite, SourceDelete, KeepProgram, workVars, indexVars
<1>21. CASE WorkerStep
  BY <1>3, <1>4, <1>5, <1>7, <1>8, <1>10, <1>11, <1>12, <1>13, <1>14, <1>21,
     <1>23 DEF WorkerStep
<1>22. CASE ReaderStep
  BY <1>1, <1>15, <1>16, <1>18, <1>22, <1>24, AccessKinds DEF ReaderStep, RecordEvent
<1>. QED
  BY <1>7, <1>17, <1>18, <1>19, <1>20, <1>21, <1>22 DEF Next, ControlStep, WorldStep

(* A copy starts within the quiet period of an access only if that access  *)
(* was recorded after run_due_once had read its batch, however long the    *)
(* copies before it in the batch took and whenever the access was stamped. *)
THEOREM QuietPeriod == Spec => QuietPeriodKept
<1>1. TimeInv /\ [Next]_vars => TimeInv'
  BY TimeStep, StepNoBatch, BatchStep, StepTypes DEF TimeInv
<1>2. TimeInv /\ StartsCopy /\ HasJob(Mine) /\ jobs[Mine].due > now => Mine \in renewed
  <2>. SUFFICES ASSUME TimeInv, pc = "copy", HasJob(Mine), jobs[Mine].due > now
                PROVE  Mine \in renewed
    BY DEF StartsCopy
  <2>1. current \in batch /\ Mine \in Files
    BY JobInHand DEF TimeInv, SafeTypes, AtJob
  <2>2. MovedByAccess(current)
    BY <2>1 DEF TimeInv, BatchDue, Begun
  <2>3. jobs[Mine].due \in Nat /\ batchNow \in Nat /\ now \in Nat
    BY <2>1 DEF TimeInv, SafeTypes, TypeOK, IndexTypeOK, WorkerTypeOK, WorldTypeOK, HasJob, Job
  <2>4. Stored(batchNow) <= now /\ Stored(batchNow) \in Nat
    BY <2>3, StoredOrder, StoredType DEF TimeInv, BatchRead
  <2>. QED
    BY <2>2, <2>3, <2>4 DEF MovedByAccess, Mine
<1>. QED
  BY InitTime, <1>1, <1>2, PTL DEF Spec, QuietPeriodKept

=============================================================================
