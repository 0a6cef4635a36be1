# ssd-cache in TLA+

A verification development kept beside the code of ssd-cache: TLA+ modules that
model the parts of the program that run concurrently or fail halfway, TLC
configurations that check them on small instances, and TLAPS proofs that hold for
instances of any size.  Line numbers refer to `src/src/...` of the repository.

## 1. Inventory

ssd-cache keeps copies of the files of a network share on a local SSD volume and
presents them when the share is away.  A minifilter reports file accesses, a
Windows service schedules and makes copies, a tray program switches modes.

| Component | State it keeps | Operations | What must hold |
|---|---|---|---|
| **PendingCopyScheduler** (`core/job_scheduler.cpp`) | heap of (path, due time), `paused_`, `stop_requested_`, the worker's locals | `record_event` (activity thread), `start`, `stop`, `set_paused` (service), `worker_loop`, `run_due_once`, `make_room_for` (worker) | no pending job without a heap entry; no copy inside the quiet period; index and cache agree; stopping returns |
| **CacheIndex** (`core/cache_index.cpp`) | SQLite tables `files` and `pending_jobs` | upserts, removals and queries, each one transaction | a job refers to a known file; retries and cached sizes survive what they should |
| **Copy engine** (`platform/win/win_file_copy.cpp`) | open handles, temporary file, running hash | `copy_and_hash`, `remove_cached_file` | the cache file is never partial; the digest is the file's; an undisturbed copy equals the source |
| **Eviction, `--free`** (`core/cache_eviction.cpp`, `service/service_main.cpp`) | a snapshot of the cached files | least recently used first, until a goal is met | index and volume agree; what is freed is what was asked for |
| **Service host** (`platform/win/win_service_host.cpp`) | `scheduler_`, `caching_active_`, `stop_event_`, SCM status | `run_worker`, `handle_control`, start-up cleanup | the mode saved is the mode in force; no dangling scheduler |
| **CacheMon** (`driver/src/driver.c`) | client port, service pid, mutex, stream-handle contexts | pre/post callbacks, connect, message, disconnect, unload | file operations are never held up; the service's own are not reported; the end of a write is |
| **Activity source** (`platform/win/win_filter_activity_source.cpp`) | port handle, reader thread, stop flag | `start`, `stop`, `reader_loop` | `stop` returns; the reader sees no feedback |
| **Path mapping** (`core/path_mapper.cpp`) | none | UNC and device paths to (share, relative path) | one file, one identity |
| **Configuration** (`core/config.cpp`) | the config file | load, save, pattern lists, wildcards | settings survive being rewritten; patterns mean what is documented |
| **Tray** (`app/tray_main.cpp`) | user-session drive mapping | the three mode switches, menu | a mode reported is presented |
| **Service controller** (`platform/win/win_service_controller.cpp`, `--health`) | none | SCM and filter manager calls, state queries | a connected service is reported healthy |
| **Mode manager, mounts** (`core/mode_manager.cpp`, `platform/win/win_mount_manager.cpp`) | drive letters | map, unmap, assign, remove | the cache volume keeps a letter |
| **Time, text, log, config paths** (`core/time.cpp`, `core/utf.cpp`, `win_file_logger.cpp`, `win_config_paths.cpp`) | log file | conversions | times agree once stored |

**Interactions.**  A file operation passes through CacheMon, which sends an event
under its mutex to the one connected client.  The reader thread of the activity
source maps the path onto the share and calls the service's callback, which drops
uninteresting events and calls `record_event`.  That commits to the index and then
pushes a heap entry under the scheduler's mutex.  The worker pops due entries, reads a
batch of due jobs from the index, makes room, copies, and writes the outcome back, with
no lock held across these steps.  The SCM's dispatcher thread calls `handle_control`
beside `run_worker`; both apply modes.  The tray is another process: it sends the
control, maps drives and rewrites the same config file.  `--free` is yet another
process on the same index and volume.

**What is hard.**  Index, heap, cache volume and config file are four stores updated
one after the other by five threads in four processes, with crashes in between; state is
read before and used after a copy that takes minutes; two condition-variable flags are
set without the mutex; two threads of the service apply modes; a config file is saved by
truncating it.  `PROJECT.json` lists every such place, at its line, under `hazards`, with
the properties that would catch it going wrong.

## 2. Modules

| Module | Models | State and actions against the code |
|---|---|---|
| `CacheIndex` | the two tables | one action per public method; a method holds the index mutex throughout and SQLite serialises processes, so it is one step.  Columns nothing branches on are left out; a time is rounded to the second when it is stored (`Stored`, which is `format_utc`) |
| `CopyScheduler` | the scheduler on the index | `pc` is the worker's place in `worker_loop`/`run_due_once`; `hand`, `batch`, `batchNow`, `current`, `victims` are their locals.  Every index or file operation is a step, so anything may come between, `record_error` and the retry's `upsert_pending_job` included.  An event is stamped by the reader (`observed`), dropped or committed later with the time of the stamp, and only then pushed (`reader`).  `SelectBatch` takes `BatchSize` of the due jobs, which need not hold the popped one.  `asleep` is a worker that a resume's notification missed |
| `CopyRequests` | what the scheduler promises of the copies asked for | no heap, batch, thread or clock: a request is settled by a copy of what was asked for, or forgotten together with the copy |
| `WorkerWakeUp` | mutex, condition variable and atomics of the same class | one step per lock, predicate test, block, notification; `CopyScheduler` abstracts from it by letting the worker pop whenever an entry is due |
| `CopyEngine` | `copy_and_hash` chunk by chunk | handles, temporary file, running hash; writers, deletion, cancellation, errors, crash at each step |
| `AtomicReplace` | what `copy_engine.h` promises | the cache file changes in one step, from old to the result of one read through the source |
| `FreeSpace` | `make_room_for` and `evict_least_recently_used` as two processes | `pc[e]` per evictor; removal and `mark_removed` are separate steps.  `held` is the true size of each cache file, the index has the size `measured` before the copy.  Delete events, sources that are gone or change size, the start-up cleanup, unmounts (`Mounts`) and processes that die come between |
| `ServiceHost` | `run_worker` and `handle_control` as two threads | `pc` and `ctl`, and the reported `status` both of them write; the config file is truncated and then written, which may fail unnoticed; the volume leaves one letter and then gets another |
| `TrayModes` | the mode switches of the tray and of commands beside it, composed with `ServiceHost` | `tray[c]` follows `enter_*_mode` and `persist_mode` in each client; `net` is the user's drive mapping, which they share; mapping and unmapping may fail, a client may be killed anywhere, and the user edits the config file (`edits` counts the versions) |
| `CacheMon` | the minifilter | one step per lock acquisition, send, time-out; handles with their contexts |
| `ActivitySource` | the reader thread, composed with `CacheMon` | `start`, `stop` and `reader_loop` against loss of the driver and of the process; `query_service_state`, `query_driver_state` and `build_health_json` as operators on what the system answers |
| `PathMapper` | the functions of `path_mapper.cpp` | operators on sequences of characters |
| `EventFilter` | an event from the port to `record_event` | mapping, then the wildcard matcher as a state machine with its indices, for path and process patterns |

`CopyScheduler` and `FreeSpace` extend `CacheIndex`; `TrayModes` extends `ServiceHost`;
`ActivitySource` extends `CacheMon`; `EventFilter` extends `PathMapper`; `CopyEngine` refines
`AtomicReplace`, and `CopyScheduler` refines `CopyRequests`, through `INSTANCE`. The theorems
are in `CacheIndexProofs`, `CopySchedulerProofs`, `CopyEngineProofs`, `WakeUpProofs`,
`FreeSpaceProofs`, `TrayModesProofs`, `ActivitySourceProofs` and `EventFilterProofs`, each of which
extends the module it is about.  `MC*` modules only
give constants values and define symmetry.  Operators called `Faulty...` are plausible bugs of the definition that follows them,
named in `PROJECT.json` under `mutants`: with one of them in place of the definition, the
property it is listed with is violated.

**Abstractions.**  A path, a handle or a chunk is a model value.  The contents of a source file
are a version number in `CopyScheduler` and a sequence of chunks in `CopyEngine`; a digest is
the content it is the digest of (SHA-256 does not collide).  The clock has `Second` ticks a
second; the index stores whole seconds, and so does the heap.  History variables (marked
"history" where they are declared) never guard an action; properties use them to speak of the
past.

**Environment.**  The scheduler's clients behave as the service does: the activity source is stopped
before the scheduler (win_service_host.cpp:666-673), and one reader thread records one event at
a time.

## 3. Runs

| Run | Question | Bounds |
|---|---|---|
| `scheduler_race` | what may index, cache and pending jobs say of each other while files are written, deleted, evicted and copied with failures, and does the scheduler implement `CopyRequests`? | 2 files, 3 accesses (two to cache both files, one to touch the victim of an eviction), 2 contents per file (of one size, so that comparing matters), reads and deletions reported, 2 seconds; a retry is written back and comes due after the end, `scheduler_lifecycle` has it run; a batch of both files, so that a worker goes on to a second job of its snapshot |
| `scheduler_lifecycle` | is every pending job covered by a heap entry, taken up, and not taken up too early, across pauses, stops, crashes, restarts and retries? | 2 files, 2 accesses, 2 ticks a second, delay and first retry of 1 s, next retry of 2 s, 5 ticks: accesses between two seconds, and a delay and a retry both expire; a batch of 1, so that two jobs due in one second do not fit and the popped one may be left out |
| `wakeup` | can a notification be missed? | 2 pushes, 2 time units, any number of pauses, one stop |
| `copy_engine` | does the engine implement `AtomicReplace`, and is what it returns true? | 2 chunks of 2 values: a mixed read and a digest mismatch both exist |
| `mode_switch` | do config file, pipeline, letters, settings and reported status stay consistent? | 2 clients (symmetric) and 2 requests between them, one of which may be an edit of the settings (`MaxRequests` counts both, `MaxEdits` versions), from every layout a switch leaves: every ordered pair of modes, one after the other or overlapping, with every failure, killed client and crash between |
| `cachemon` | feedback, stale pid, owed write closes, blocking, truth of `--health` | 2 handles, 3 operations, 2 loads of the driver, 2 starts |
| `free_space` | do index and volume agree with two evictors at work? | 3 files, two of size 1 and one that has size 1 or 2 whenever it is looked at, on a volume of 2, so that a third never fits, nor a second beside the grown one; 3 accesses, one call of `--free`, and one of: a delete event, an unmount, a cleanup, a process that dies (`MaxUpsets`; mounting again is free) |
| `event_filter` | which events reach the scheduler, under which name? | every pattern of up to 4 of `a b * ?` against 9 paths, every spelling of 9 paths on 3 shares |
| `lost_reschedule` (violation) | is a job rescheduled during its copy kept? | as `scheduler_lifecycle`, no failures |
| `orphan_on_throw` (violation) | is a job whose hash throws taken up again? | the same, hashing may throw |
| `stop_hangs` (violation) | does `stop()` return? | 1 push |
| `mode_not_presented` (violation) | is the mode the tray reports presented? | 1 client, 4 requests, no failures |

A bound is enough when every branch of the code is taken (each passing run, or another of
the same module, fires every action) and when a second actor can be put between any two
steps of the first.  Counters (`MaxTime`, `MaxEvents`, `MaxOps`, ...) bound only how often the
environment acts; the program itself is never cut short.  `CHECK_DEADLOCK FALSE` stands
where the environment may have used up its actions with the program idle; `event_filter`
checks deadlock.

### What the runs show

- **Scheduler.** `PresentHasFile`: in no order of events, evictions and failures
  does the index call a file present that is not on the volume, except between removal and
  transaction.  (That a job refers to a known file is the database's foreign key and no property
  here; `UpsertPendingJob` needs the row.)  `FreshUnlessRaced`: a cached file without a pending job
  is as new as its last accepted access, unless that access came during the copy.  `RequestsKept`:
  every step of the scheduler is a step of `CopyRequests`, so a pending job never goes unless the
  copy in the cache is the one asked for or its record goes in the same transaction; a request that
  came during the copy is the only excuse (`lost_reschedule` shows that one).  `QuietPeriodKept`: a
  copy starts before its job is due only if the access that moved the job was *recorded* after the
  batch was read; it may have been stamped before, as the filters between stamp and record open
  the requesting process and look the file up on the network.
  `JobCovered`: every pending job has its exact heap entry, unless that entry was popped for a batch
  that had no room for the job (`missed`): with more than `due_batch_size` (32) jobs due,
  and the popped one tied with others, the query's LIMIT may leave it out, and it waits for another access or a
  restart.  `EventuallyTakenUp` excuses the same jobs, and a worker that slept through the last
  resume (`asleep`).  Both need `HashFails = FALSE`; `orphan_on_throw` shows why.
- **Waking up.** `NoPushMissed`, `PushTakenUp`: no push is slept through, because pushing takes
  the mutex; setting the flags does not, and `stop_hangs` is the consequence.
- **Copying.** `ReplacesAtomically`, `DigestOfCache`, `UndisturbedCopy`, `NoPartialFile`.  The
  abstract specification says "each chunk was in the file at some time during the copy": the
  engine shares the source for writing, so nothing stronger is true.
- **Freeing.** `IndexAgrees` holds except on files listed in `loose`, and these are the ways in
  which index and volume come to disagree: a process that dies between a change of the volume and
  its record; removal "succeeding" because the volume is on another letter; `--free` and the worker
  at the same file; the start-up cleanup, which deletes the record of a file that now matches an ignored
  pattern and leaves the file; and a delete event, which clears the record and leaves the file.
  `RoomMade`: where the free space is known a copy starts with `min_free_bytes` free and with the size
  the index has for the file, or with no other cached file that could be removed.  That size is
  the hint of the last access, which the driver leaves at 0, so this is *less* than the
  `max(incoming file size, min_free_space_mb)` of the program's README.md:489-490, which the code does not keep
  (section 4).  `FreeExact`: `--free`, alone with index and volume, reports the bytes it removed unless it
  removed the copy of a source that changed size between being measured and being copied (`grown`,
  `exact`), and stops short of its goal only with nothing left in the cache.
- **Modes.** `ModeInForce`, `CacheReachable`, `SettingsKept`, `SwitchPresented`, `PointerAlive`,
  each with the exceptions the code has: a start overtaken by a control (`overtaken`), a process lost in the middle
  of a switch (`cut`), a letter lost to a failed assignment (`HasLetter`), two clients whose requests cross so
  that the overtaken one saves last (`crossed`).  `SettingsKept` follows the settings the user saved last through every
  rewriting of the config file; they are lost to a program that was killed, or could not write, once it had
  emptied the file (`torn`), to one that loaded the emptied file, and by being saved while a
  program held what it had loaded before (both `contended`).  `SwitchPresented`: a reported switch left the cache
  volume on its letter, and the network drive as the mode has it unless Windows refused to map or
  unmap it, which the tray does not look at (`undriven`).
  `StoppedIsFinal`: the last status reported is SERVICE_STOPPED, although two threads report
  without a lock, unless the worker failed by itself while a stop was delivered.
- **Driver.** `NoFeedback`: at most the one operation under way between connecting and
  registering comes back.  `HealthTrue`: a connected service is called healthy, also where the SCM
  denies that a driver loaded on demand runs, unless the driver is not found among the loaded filters either, which
  it never is for a caller who may not list them; a disconnected one is called healthy only while the
  driver is being unloaded or after it was loaded again, when the service stays deaf.
  `OperationsFinish`, `StopReturns`: nobody waits for good.
- **Events.** `FilterRight`: exactly what the documented meaning of the patterns excludes is dropped,
  although the matcher remembers one star only.  The meaning is that of the requestor's name as the service
  finds it: of a process that has exited that is no name, which no pattern means (section 4).  `MovesOn`: it never goes in a circle.
  `NamesFile`: every spelling of a file of the share is mapped to the same name; it speaks of a
  source `\\server\share` and of device paths with at most one session component. `PatternsKept`: a
  list survives being saved and loaded.

### Fairness

Weak fairness of the worker's steps, of pushing and notifying once begun, of the passing of
time, of the reader thread and of the kernel's time-out of `FltSendMessage`: threads that can
run are scheduled, and a call once made goes on.  Nothing is assumed of the environment: nobody
has to access a file, to resume, to stop or to start anything, and spurious wake-ups cannot be
counted on.  `EventuallyTakenUp` and `PushTakenUp` therefore have the premise that the service in
the end stays running and unpaused, and that its worker did not sleep through the last resume:
nothing but an access would wake that one.  Nor does fairness make the filters let an event pass.

## 4. Disagreements found

Four are shown by runs and recorded under `findings`:

1. `lost_reschedule`: `remove_pending_job` at the end of a copy deletes whatever job the path has,
   also one an access made while the copy ran.
2. `orphan_on_throw`: an exception from hashing ends the batch; the popped entry is gone and its
   job waits for a restart or another access.
3. `stop_hangs`: `stop()` sets its flag and notifies without the mutex, so the notification may
   fall between the worker's test and its wait.  Resuming has the same window, which is why
   `PushTakenUp` and `EventuallyTakenUp` exclude a worker left in the wait for the end of a pause.
4. `mode_not_presented`: `enter_serve_mode` unmaps the network drive before asking the service, no
   failure path maps it again, and "already in this mode" returns success.

Others are in the models as behaviours and are named as exceptions of a property or under
`hazards`:

- with more jobs due in one second than a batch takes, the popped job may be left out of the batch and
  keep no heap entry;
- an access stamped before a batch was read and recorded after it does not hold back the copy;
- the program's README.md:489-490 promises free space of `max(incoming file size, min_free_space_mb)`, but
  the driver's size hint is 0 and the incoming size is ignored;
- the cached size recorded is the source's before the copy; `--free` counts a victim the other
  process removed; a delete event leaves the cache file without a record;
- a start applies an older mode than the one saved; two clients that switch at once may leave the mode
  saved by the one the service has left; Serve, Disabled, Serve is refused;
- saving the config does not check its writes, and a file left empty is loaded as default settings;
- a network drive that cannot be mapped or unmapped is reported as a success;
- a driver reloaded under a running service is never reconnected, while `--health` calls the service
  healthy; for a caller who may not list filters it may call a connected one unhealthy;
- events are dropped while paused, deletions included (job_scheduler.h:91 speaks of
  "persisting it");
- README.md:499-502 drops the accesses of processes that match a pattern, but a process that has exited by
  the time its event is handled has no name and matches none, so its accesses are cached; `FilterRight` takes
  the missing name as given and does not test that promise;
- with the default settings a change that keeps the size is not copied, as README.md:474 documents;
- index keys keep the case of the reported path; a `source_unc` with a folder maps paths relative
  to the share.

## 5. Proofs

Proved with TLAPS for any number of files, clients and handles, any delays, batch sizes and
bounds, from the assumptions stated in the modules: types of the constants, sentinels like `None`
are none of the values they stand beside, and `Files` is finite for the scheduler (a batch is read
into a list).

- `CacheIndexProofs`: every operation of the index keeps its types, the database's foreign key (needed
  by the others, not a result) and whole seconds in the due times (`IndexInv`, `DueWhole`); further lemmas say what an operation may
  do to the rows, to what the index shows as cached, and to the requests still open
  (`RemovedRows`, `DeletedForgets`, `RemovalSettles`, `FailureAsks`, ...).  The proofs of both modules that
  extend `CacheIndex` cite them.
- `CopySchedulerProofs`
  - `TypeCorrect`: types of index, heap, worker locals and files, from the invariant
    `SafeTypes`, which adds the foreign key that a retry's insert relies on.
  - `NoJobOrphaned`: `Spec => []JobCovered`, for batches of any size, assuming only that hashing does not
    throw, which cannot be dropped, as `orphan_on_throw` shows.  `JobCovered` is not
    inductive: the invariant adds that the popped entry is due (`HandDue`) and that the batch is
    empty until it is read, so that the job the worker holds is in the batch it selects or was left
    out of a full one, and is then in `missed`.
  - `PromiseIsFresh`: of the abstract specification, that a file shown as
    cached with no request left holds what was asked for (`SettledFresh`).
  - `SchedulerRefines`: `Spec => RequestsKept`, under `ContentTold`: hashes are compared before
    a cached file of the same size is taken for the same content, or no change keeps the size.
    Without it the default settings keep an old copy of the same size, as documented.  The invariant
    `RefineInv` adds to `SafeTypes` what the worker's locals mean across the steps other
    threads may take in between: the content under way is the one asked for, or was asked for
    late (`CopyFresh`); what the engine put in place is what is recorded next (`CopyPlaced`); the
    file forgotten next is gone (`CopyGone`); and until a copy of it begins a job of the snapshot
    is still pending or its file is not shown (`BatchWanted`).
  - `CachedIsFresh`: `Spec => []FreshUnlessRaced`, by the refinement from `PromiseIsFresh`.
  - `PresentIsThere`: `Spec => []PresentHasFile` when the process does not crash; the premise is
    needed, as a crash between a removal and its record breaks it.
  - `QuietPeriod`: `Spec => QuietPeriodKept`, for any delay and unit of time.  The
    invariant `TimeInv` says that a job of the snapshot that is no longer due at the time the snapshot
    was read was moved by an access recorded since (`MovedByAccess`); nothing is said of when that access was
    stamped.  The rounding lemmas `StoredTwice`,
    `StoredBelow` and `StoredOrder` carry it across the stored seconds.
- `CopyEngineProofs`
  - `TypeCorrect`; `Refines`: `Spec => ReplacesAtomically`, the refinement of
    `AtomicReplace`, for files of any number of chunks.  The invariant `SeenInv` says that
    the chunks read so far, and those still to be read from the open file, were in the file since it
    was opened.
  - `DigestsTrue`, `CopiesTrue`, `NothingLeftBehind`: what a returned copy says, from `OutcomeInv`;
    `QuietInv` says that the hash is a prefix of the source while nobody touched it.
- `WakeUpProofs`: `TypeCorrect`, with the mutex held by the worker exactly where it tests, pops and
  decides to block, and `PushesHeard`: `Spec => []NoPushMissed`.  The invariant adds that the heap
  is still what the worker saw until it releases the mutex by waiting (`Undisturbed`), so a
  notification that comes before the wait was not needed by it.

- `FreeSpaceProofs`, for any set of files (an infinite one too: the volume holds finitely many), any
  sizes and capacity, and any number of calls of `--free`, accesses and crashes
  - `TypeCorrect`.  Free space is the capacity less a fold over the files on the volume, and the fold
    takes them in an order nobody chose: `SumsExist` and `SumsAgree` show that it has a value and
    only one, by taking a least finite set for which it would not (`LeastSet`, from the library's
    theorem that inclusion is well-founded on finite sets), and `TotalRemove` that a removal
    frees the file's size.
  - `VolumeAgrees`: `Spec => []IndexAgrees`.  The invariant `AgreeInv` says where each evictor may be
    between a file and its record: `Removed` and `Placed` while the volume is ahead of the
    index, `Known` that a file being copied has a record to update.
  - `RoomForCopy`: `Spec => []RoomMade`.  `RoomMade` is of the size the index has.  `RoomInv` says that the free bytes the worker counts with
    are no more than there are (`Counted`) as only the worker fills the volume, that its goal
    is what the copy needs (`MinWanted`), and that a cached file is still listed, already tried or
    the one to be copied (`Listed`).  No exception is made for files
    `--free` is at, or on which index and volume disagree.
  - `FreesWhatItSays`: `Spec => []FreeExact`.  While `--free` is alone its list is what the index shows
    (`ListFresh`, `ListWhole`), names a file once (`ListDistinct`), and what it has counted is
    what is gone (`Summed`); `SizesRight`, that a recorded size is the file's unless its source changed size
    around the copy (`grown`), turns the sum of the records into bytes where no such file was removed.
- `TrayModesProofs`, for any number of clients and requests, of tray, service and config file together
  - `TypeCorrect`; `PointerGuarded`: `Spec => []PointerAlive`, by `Pointer`: the scheduler is
    published last and withdrawn first, but for a start that throws.
  - `StopReportedLast`: `Spec => StoppedIsFinal`.  `Signalled` says that a stop is signalled
    once, after the handler has reported it and when the service accepts no more controls.
  - `SavedModeInForce`: `Spec => []ModeInForce`, and `CacheStaysReachable`: `Spec => []CacheReachable`.  The
    first speaks of a quiet service only.  Its invariant must say at every step of a switch
    what is already done: whose request is under way, the client that made it being there or killed
    (`Exchange`), that from the service's save to the client's the file holds the mode requested, or is empty
    (`Saving`), and which of the worker's and the handler's steps have applied that mode (`InForce`).
    The mode these speak of is the one the client is about to save, or else the one in the file (`Settled`,
    `Held`).  `Volume` says the same of the cache volume's letter, and `Reach` of a service that caches by a configuration
    it loaded before.
  - `SettingsSurvive`: `Spec => []SettingsKept`, by `Whole`: whoever rewrites the file holds
    the settings saved last, and the file is empty only while somebody is writing it or after that went
    wrong (`torn`).
  - `ReportedSwitchPresented`: `Spec => []SwitchPresented`.  `Presented` follows a switch no other one
    overlaps from the request to the report, drive and volume apart, and holds on through stops, crashes
    and restarts of the service afterwards.
- `ActivitySourceProofs`, for any number of handles and operations, of driver, reader and service together
  - `TypeCorrect`, with the driver's lock held exactly by the one that sends; `PidForgotten`:
    `Spec => []PidHasClient`, from `Connection`, which relates the port of the
    driver and the handle of the service.
  - `OwnReadsIgnored`: `Spec => []NoFeedback`.  `Feedback` says that of the service's operations only the one
    under way when it registered its pid can still come.
  - `WritesEnd`: `Spec => []WriteEndsReported`, by `Contexts`: every write of an open handle
    that is not over has a context that stands for it.
  - `HealthReported`: `Spec => []HealthTrue`, from `Connection` and `Reloads`: a link that is dead
    beside a loaded driver has outlived a load; of the answers of the system only those are
    excepted that neither call the driver running nor list it.
- `EventFilterProofs`, for any set of characters, any settings and any paths that hold no star (a
  Windows name cannot; nor does lower-casing make one, nor a separator)
  - `TypeCorrect`: the matcher's indices stay within one of pattern and value; `MovesOnwards`:
    `Spec => MovesOn`, no step of the matcher goes in a circle.
  - `FilterExact`: `Spec => []FilterRight`.  A pattern means a value if its characters can share
    the value out among them; `Reaches(p, i, v, j)` says the same of what is left of both.  The
    invariant has three parts.  `Typed` bounds the indices and relates them to each other.
    `MatcherRight`: the characters since the last star fit one by one (`Literal`), and the
    pattern means the value exactly if it can still be met from that star on, with what the star has taken
    so far; so the matcher may forget the earlier stars (`NextStar`), has to give the last one more
    where a character does not fit (`TakesMore`), and cannot at the end (`TakesNoMore`).
    `AttemptsRight`: the event is to be dropped for the list at work exactly if one of the
    attempts left succeeds (`ToTry`).  `SplitPatternsItems` relates the list as it is split to
    the items between the marks, whatever their order and number.
  - `ListsKept`: `Spec => []PatternsKept`.  Joining is undone by splitting (`JoinParts`, by adding one
    part after the other, `PartsMore`), for a list that splitting has made: of trimmed, plain,
    non-empty patterns (`SplitPatternsPlain`), which trimming keeps (`TrimKeeps`).
  - `NamesKept`: `Spec => []NamesFile`.  Two roots `\\server\share` are the same but for case exactly
    if servers and shares are (`RootsAgree`: names hold no separator, and none comes from
    lower-casing); the identity seen is that of the names (`SeenIs`); and a path is its first name,
    a separator and the path of the rest (`JoinNext`), so the root of the source takes the place of
    the one observed (`JoinsBack`).  `MappedRight` carries the mapped path to the end.

Only model-checked: liveness under fairness (`EventuallyTakenUp`, `PushTakenUp`,
`OperationsFinish`, `StopReturns`) and with it `ENABLED`.  Every invariant and every action
property of a passing run is a theorem.  Where an argument goes by induction (a fold, a recursive
function, the number of parts) it is by a least counterexample (`Least`, `LeastSet`) in place of the
induction theorems, whose operator parameters the provers cannot take.

## 6. Not modelled

- Windows, menus, notifications, help texts and installation: no state the rest depends on.
- `ModeManager` and `WinMountPresentation`: built, but no program uses them; the drive letters they
  would move are moved by `ServiceHost` and `TrayModes`.
- Logging, config paths, `utf.cpp`, the calendar arithmetic of `time.cpp`: conversions and I/O.  Of
  `time.cpp` only the rounding to seconds matters to the program.
- Installing the service and the driver: single calls of the system, nothing is kept in between.
- Errors SQLite raises by itself (busy, disk full), truncation of names over the driver's buffer
  sizes, paging I/O, I/O priority and throttling.
- Only the code paths the programs take: `caching` while `source_unc` is empty starts no activity
  source, which `ServiceHost` has as a start with default settings.

## 7. Plan

Done, in this order: `CacheIndex`, `CopyScheduler` and its proofs; `WorkerWakeUp`; `CopyEngine`
with `AtomicReplace` and its proofs; `ServiceHost` and `TrayModes`; `CacheMon` and
`ActivitySource`; `FreeSpace`; `PathMapper` and `EventFilter`; then the clock finer than a
second, the reported status, several clients, health reporting, and `CopyRequests` with the
refinement and timing proofs; and the proofs of `FreeSpace`, `TrayModes`, `ActivitySource` and `EventFilter`.
