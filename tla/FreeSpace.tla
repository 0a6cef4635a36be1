------------------------------- MODULE FreeSpace -------------------------------
(***************************************************************************)
(* Freeing the cache volume: the copy worker's make_room_for before a copy *)
(* (src/core/job_scheduler.cpp) and `ssd-cache-service --free`, a process  *)
(* of its own (src/service/service_main.cpp, src/core/cache_eviction.cpp). *)
(* Both list the cached files and remove the least recently seen, while    *)
(* files are accessed, copied and removed, the volume moves to another     *)
(* letter, the start-up cleanup forgets records, and processes die.        *)
(***************************************************************************)
EXTENDS CacheIndex, FiniteSetsExt

CONSTANTS
  Sizes,      \* sizes each source file may have: it may grow and shrink
  Hints,      \* sizes its accesses may come with: 0 from the driver
  Capacity,   \* of the cache volume
  MinFree,    \* min_free_bytes
  Requests,   \* sizes --free is called with: a number and a unit
  Kilo,       \* 1024
  Word,       \* 2^64, where a std::uint64_t ends
  Faults,     \* what may go wrong: a subset of {"remove", "unmount", "ignore"}
  MaxAccess,  \* bound: accesses
  MaxFrees,   \* bound: calls of --free
  MaxUpsets   \* bound: deletions, unmounts, cleanups and processes that die

Victim == [path : Files, seen : Nat, size : Nat]

ASSUME SpaceAssumption ==
  /\ Sizes \in [Files -> SUBSET Nat] /\ Hints \in [Files -> SUBSET Nat]
  /\ Capacity \in Nat /\ MinFree \in Nat \ {0} /\ Kilo \in Nat \ {0}
  /\ Word \in Nat \ {0} /\ Requests \subseteq [number : Nat, unit : STRING]
  /\ Faults \subseteq {"remove", "unmount", "ignore"}
  /\ MaxAccess \in Nat /\ MaxFrees \in Nat /\ MaxUpsets \in Nat
  /\ None \notin Int \cup Victim \cup Files

Evictors == {"worker", "cli"}
Other(e) == IF e = "worker" THEN "cli" ELSE "worker"

VARIABLES
  disk,       \* cache files on the volume
  held,       \* size of each, 0 where there is none
  mounted,    \* the volume is on the cache letter
  pc,         \* where each evictor is
  victims,    \* what is left of the list of cached files it took
  victim,     \* the one whose file it has just removed
  current,    \* the file the worker is to copy
  required,   \* the free space it wants for it
  free,       \* the free space it counts with, None if it cannot tell
  measured,   \* the size it is to record for the copy it has made
  goal, freed,   \* what --free is to free, and has
  now, frees, upsets   \* time, calls and upsets so far

VARIABLES
  loose,      \* history: files index and volume may disagree about, see Middle
  stuck,      \* history: files the worker failed to remove for this copy
  guessed,    \* history: free is an estimate
  alone,      \* history: --free has had volume and index for itself
  really,     \* history: bytes --free has removed
  grown,      \* history: files whose source had one size when it was
              \* measured and another when it was copied
  exact       \* history: --free has removed none of those

spaceVars == <<disk, held, mounted, grown>>
workerVars == <<current, required, free, measured, stuck, guessed>>
cliVars == <<goal, freed, frees, really, exact>>
vars == <<indexVars, spaceVars, pc, victims, victim, workerVars, cliVars, now, upsets, loose, alone>>

Init ==
  /\ IndexInit /\ disk = {} /\ held = [p \in Files |-> 0] /\ mounted = TRUE
  /\ pc = [e \in Evictors |-> "idle"]
  /\ victims = [e \in Evictors |-> {}] /\ victim = [e \in Evictors |-> None]
  /\ current = None /\ required = 0 /\ free = None /\ measured = 0
  /\ goal = 0 /\ freed = 0 /\ now = 0 /\ frees = 0 /\ upsets = 0
  /\ loose = {} /\ stuck = {} /\ guessed = FALSE /\ alone = FALSE /\ really = 0
  /\ grown = {} /\ exact = TRUE

-----------------------------------------------------------------------------

SpaceLeft == Capacity - MapThenSumSet(LAMBDA p : held[p], disk)

(* WinFreeSpaceProvider::free_bytes: fails without a volume on the letter. *)
FreeBytes == IF mounted THEN SpaceLeft ELSE None

(* Files e has changed on the volume and not yet in the index.             *)
Middle(e) ==
  CASE pc[e] = "mark"                 -> {victim[e].path}
    [] pc[e] \in {"copied", "gone"}    -> {current}
    [] OTHER                          -> {}

(* Fault: the path outlives the copy. *)
FaultyEndCopy ==
  /\ required' = 0 /\ free' = None /\ measured' = 0
  /\ stuck' = {} /\ guessed' = FALSE
  /\ UNCHANGED current

(* The locals of a call go with it. *)
EndCopy ==
  /\ current' = None /\ required' = 0 /\ free' = None /\ measured' = 0
  /\ stuck' = {} /\ guessed' = FALSE

(* unit_multiplier, of the upper-cased suffix. *)
UnitMultiplier(unit) ==
  CASE unit \in {"", "B"}   -> 1
    [] unit \in {"K", "KB"} -> Kilo
    [] unit \in {"M", "MB"} -> Kilo * Kilo
    [] unit \in {"G", "GB"} -> Kilo * Kilo * Kilo
    [] unit \in {"T", "TB"} -> Kilo * Kilo * Kilo * Kilo
    [] OTHER               -> None

(* parse_size_bytes: what has no unit or does not fit is no size. *)
ParseSizeBytes(request) ==
  IF UnitMultiplier(request.unit) = None THEN None
  ELSE LET bytes == request.number * UnitMultiplier(request.unit)
       IN  IF bytes < Word THEN bytes ELSE None

EndFree == goal' = 0 /\ freed' = 0 /\ really' = 0 /\ exact' = TRUE /\ UNCHANGED frees

Goto(e, a, b) == pc[e] = a /\ pc' = [pc EXCEPT ![e] = b]

(* The driver leaves the size hint at 0; other sources may know the size.  *)
Access(p) ==
  /\ now < MaxAccess /\ now' = now + 1
  /\ \E hint \in Hints[p] : RecordAccess(p, "ReadOpen", now', hint, 0)
  /\ alone' = FALSE
  /\ UNCHANGED <<spaceVars, pc, victims, victim, workerVars, cliVars, loose>>

(* A delete event forgets the copy; its file stays on the volume, unless   *)
(* the worker is about to record it anew.                                  *)
Delete(p) ==
  /\ MarkRemoved(p)
  /\ loose' = loose \cup (({p} \cap disk) \ Middle("worker"))
  /\ alone' = FALSE
  /\ UNCHANGED <<spaceVars, pc, victims, victim, workerVars, cliVars, now>>

-----------------------------------------------------------------------------
(* The evictors.                                                           *)

(* Fault: the smaller of the two is enough. *)
FaultyRequiredFor(p) == IF rows[p].size < MinFree THEN rows[p].size ELSE MinFree

(* max(incoming size, min_free_bytes); the size is the row's. *)
RequiredFor(p) == IF rows[p].size > MinFree THEN rows[p].size ELSE MinFree

(* A job is due: make_room_for asks for the free space first. *)
TakeJob(p) ==
  /\ HasJob(p) /\ HasRow(p)
  /\ Goto("worker", "idle", IF FreeBytes = None \/ FreeBytes >= RequiredFor(p)
                            THEN "copy" ELSE "list")
  /\ current' = p /\ required' = RequiredFor(p) /\ free' = FreeBytes /\ measured' = 0
  /\ stuck' = {} /\ guessed' = FALSE /\ alone' = FALSE
  /\ UNCHANGED <<indexVars, spaceVars, victims, victim, cliVars, now, loose>>

(* A size that does not parse, or 0, ends the call at once.                *)
CallFree(request) ==
  /\ ParseSizeBytes(request) \notin {None, 0}
  /\ frees < MaxFrees /\ frees' = frees + 1
  /\ Goto("cli", "idle", "list")
  /\ goal' = ParseSizeBytes(request) /\ freed' = 0 /\ really' = 0 /\ exact' = TRUE
  /\ alone' = (pc["worker"] = "idle" /\ mounted /\ loose = {})
  /\ UNCHANGED <<indexVars, spaceVars, victims, victim, workerVars, now, loose>>

(* cached_files_by_last_access, less the file to be cached. *)
List(e) ==
  /\ Goto(e, "list", "loop")
  /\ victims' = [victims EXCEPT ![e] =
       {[path |-> p, seen |-> rows[p].seen, size |-> rows[p].cachedSize] :
          p \in CachedPaths \ IF e = "worker" THEN {current} ELSE {}}]
  /\ UNCHANGED <<indexVars, spaceVars, victim, workerVars, cliVars, now, loose, alone>>

(* Fault: --free ends one byte short of its goal. *)
FaultyEnough(e) == IF e = "worker" THEN free >= required ELSE freed + 1 >= goal

Enough(e) == IF e = "worker" THEN free >= required ELSE freed >= goal

(* The next victim: the least recently seen that is left. *)
Chosen(e, v) ==
  /\ pc[e] = "loop" /\ v \in victims[e] /\ ~Enough(e)
  /\ \A w \in victims[e] : v.seen <= w.seen
  /\ victims' = [victims EXCEPT ![e] = @ \ {v}]

(* DeleteFileW on the path: a file that is not there, or whose volume is    *)
(* not, counts as removed.                                                 *)
Unlink(p) ==
  /\ disk' = IF mounted THEN disk \ {p} ELSE disk
  /\ held' = IF mounted THEN [held EXCEPT ![p] = 0] ELSE held
  /\ grown' = IF mounted THEN grown \ {p} ELSE grown
  /\ UNCHANGED mounted

(* The other evictor's copy of the same file is under way. *)
Crossed(e, p) == pc[Other(e)] = "copied" /\ current = p

RemoveFile(e, v) ==
  /\ Chosen(e, v) /\ Goto(e, "loop", "mark")
  /\ victim' = [victim EXCEPT ![e] = v]
  /\ Unlink(v.path)
  /\ really' = IF e = "cli" /\ v.path \in disk \ disk' THEN really + held[v.path]
                                                       ELSE really
  /\ exact' = (exact /\ (e = "cli" => v.path \notin grown))
  /\ loose' = IF v.path \in disk' \/ Crossed(e, v.path) THEN loose \cup {v.path}
                                                        ELSE loose
  /\ alone' = (alone /\ e = "cli")
  /\ UNCHANGED <<indexVars, workerVars, goal, freed, frees, now>>

(* Fault: the record goes although the file could not be removed. *)
FaultyRemoveFails(e, v) ==
  /\ Chosen(e, v) /\ Goto(e, "loop", "mark")
  /\ "remove" \in Faults /\ mounted /\ v.path \in disk
  /\ victim' = [victim EXCEPT ![e] = v]
  /\ stuck' = IF e = "worker" THEN stuck \cup {v.path} ELSE stuck
  /\ UNCHANGED <<indexVars, spaceVars, current, required, free, measured, guessed, cliVars, now, loose, alone>>

(* The file is in use: the next candidate is tried. *)
RemoveFails(e, v) ==
  /\ Chosen(e, v) /\ Goto(e, "loop", "loop")
  /\ "remove" \in Faults /\ mounted /\ v.path \in disk
  /\ stuck' = IF e = "worker" THEN stuck \cup {v.path} ELSE stuck
  /\ alone' = (alone /\ e = "worker")
  /\ UNCHANGED <<indexVars, spaceVars, victim, current, required, free, measured, guessed, cliVars, now, loose>>

(* mark_removed; the worker then asks for the free space again, and adds   *)
(* up the sizes if it cannot tell, while --free adds them up always.       *)
Mark(e) ==
  /\ Goto(e, "mark", "loop")
  /\ MarkRemoved(victim[e].path)
  /\ victim' = [victim EXCEPT ![e] = None]
  /\ IF e = "worker"
     THEN /\ free' = IF mounted THEN FreeBytes ELSE free + victim[e].size
          /\ guessed' = ~mounted
          /\ UNCHANGED freed
     ELSE freed' = freed + victim[e].size /\ UNCHANGED <<free, guessed>>
  /\ UNCHANGED <<spaceVars, victims, current, required, measured, stuck, goal, frees, really, exact, now, loose, alone>>

EndLoop(e) ==
  /\ Goto(e, "loop", IF e = "worker" THEN "copy" ELSE "done")
  /\ Enough(e) \/ victims[e] = {}
  /\ victims' = [victims EXCEPT ![e] = {}]
  /\ UNCHANGED <<indexVars, spaceVars, victim, workerVars, cliVars, now, loose, alone>>

Report ==
  /\ Goto("cli", "done", "idle")
  /\ EndFree /\ alone' = FALSE
  /\ UNCHANGED <<indexVars, spaceVars, victims, victim, workerVars, now, loose>>

-----------------------------------------------------------------------------
(* The copy, as far as the volume is concerned: the new file is written    *)
(* beside the old one, if there is room, and takes its place.              *)

(* The size to record is the one the source had before it was opened; the  *)
(* file copied may have another by then.                                   *)
Replaced(size) ==
  /\ SpaceLeft >= size
  /\ disk' = disk \cup {current} /\ held' = [held EXCEPT ![current] = size]
  /\ grown' = IF measured' = size THEN grown \ {current} ELSE grown \cup {current}

(* A cache file of the source's size, or of its digest too, is left alone. *)
Skipped ==
  /\ current \in disk /\ held[current] = measured'
  /\ grown' = grown \ {current}
  /\ UNCHANGED <<disk, held>>

Copy ==
  /\ Goto("worker", "copy", "copied")
  /\ mounted /\ measured' \in Sizes[current]
  /\ Skipped \/ \E size \in Sizes[current] : Replaced(size)
  /\ loose' = IF current \in Middle("cli") THEN loose \cup {current} ELSE loose \ {current}
  /\ UNCHANGED <<indexVars, mounted, victims, victim, current, required, free, stuck, guessed>>
  /\ UNCHANGED <<cliVars, now, alone>>

(* The job stays for a retry; nothing here reads when, or how often.       *)
CopyFails ==
  /\ Goto("worker", "copy", "idle")
  /\ EndCopy
  /\ UNCHANGED <<indexVars, spaceVars, victims, victim, cliVars, now, loose, alone>>

MarkCopied ==
  /\ Goto("worker", "copied", "marked")
  /\ MarkCached(current, measured, measured)
  /\ UNCHANGED <<spaceVars, victims, victim, workerVars, cliVars, now, loose, alone>>

(* The source is gone: its cache file is removed, if it can be, and then   *)
(* the record marked.                                                      *)
SourceGone ==
  /\ Goto("worker", "copy", "gone")
  /\ Unlink(current)
  /\ loose' = IF current \in disk' THEN loose \cup {current} ELSE loose
  /\ UNCHANGED <<indexVars, victims, victim, workerVars, cliVars, now, alone>>

MarkGone ==
  /\ Goto("worker", "gone", "idle")
  /\ MarkRemoved(current)
  /\ EndCopy
  /\ UNCHANGED <<spaceVars, victims, victim, cliVars, now, loose, alone>>

DropJob ==
  /\ Goto("worker", "marked", "idle")
  /\ RemovePendingJob(current)
  /\ EndCopy
  /\ UNCHANGED <<spaceVars, victims, victim, cliVars, now, loose, alone>>

-----------------------------------------------------------------------------
(* What happens to both.                                                   *)

(* Serve mode takes the volume off the cache letter, Monitor mode puts it  *)
(* back.                                                                   *)
Mounts(there) ==
  /\ "unmount" \in Faults
  /\ mounted # there /\ mounted' = there /\ alone' = FALSE
  /\ UNCHANGED <<indexVars, disk, held, grown, pc, victims, victim, workerVars, cliVars, now, loose>>

Dies(e) ==
  /\ pc[e] # "idle" /\ pc' = [pc EXCEPT ![e] = "idle"]
  /\ loose' = loose \cup Middle(e)
  /\ victims' = [victims EXCEPT ![e] = {}] /\ victim' = [victim EXCEPT ![e] = None]
  /\ IF e = "worker" THEN EndCopy /\ UNCHANGED <<cliVars, alone>>
                      ELSE EndFree /\ alone' = FALSE /\ UNCHANGED workerVars
  /\ UNCHANGED <<indexVars, spaceVars, now>>

(* cleanup_invalid_cache_records, when the service starts: records of paths *)
(* that now match an ignored pattern are deleted, their cache files stay.  *)
CleanUp(ignored) ==
  /\ "ignore" \in Faults /\ pc["worker"] = "idle" /\ HasRow(ignored)
  /\ DeleteRecord(ignored)
  /\ loose' = loose \cup ({ignored} \cap disk)
  /\ alone' = FALSE
  /\ UNCHANGED <<spaceVars, pc, victims, victim, workerVars, cliVars, now>>

-----------------------------------------------------------------------------

Work ==
  \/ \E p \in Files : Access(p) \/ TakeJob(p)
  \/ \E request \in Requests : CallFree(request)
  \/ \E e \in Evictors :
       \/ List(e) \/ Mark(e) \/ EndLoop(e)
       \/ \E v \in victims[e] : RemoveFile(e, v) \/ RemoveFails(e, v)
  \/ Report \/ Copy \/ CopyFails \/ MarkCopied \/ DropJob
  \/ SourceGone \/ MarkGone
  \/ Mounts(TRUE)

Upset ==
  \/ \E p \in Files : Delete(p) \/ CleanUp(p)
  \/ Mounts(FALSE)
  \/ \E e \in Evictors : Dies(e)

Next ==
  \/ Work /\ UNCHANGED upsets
  \/ Upset /\ upsets < MaxUpsets /\ upsets' = upsets + 1

Spec == Init /\ [][Next]_vars

-----------------------------------------------------------------------------
(* Properties.                                                             *)

TypeOK ==
  /\ IndexTypeOK
  /\ disk \subseteq Files /\ held \in [Files -> Nat] /\ mounted \in BOOLEAN
  /\ pc["worker"] \in {"idle", "list", "loop", "mark", "copy", "copied", "marked", "gone"}
  /\ pc["cli"] \in {"idle", "list", "loop", "mark", "done"}
  /\ victims \in [Evictors -> SUBSET Victim]
  /\ \A e \in Evictors : pc[e] \notin {"loop", "mark"} => victims[e] = {}
  /\ victim \in [Evictors -> Victim \cup {None}]
  /\ \A e \in Evictors : victim[e] # None <=> pc[e] = "mark"
  /\ current \in Files \cup {None} /\ (current = None <=> pc["worker"] = "idle")
  /\ required \in Nat /\ free \in Int \cup {None} /\ goal \in Nat /\ freed \in Nat
  /\ measured \in Nat
  /\ now \in 0..MaxAccess /\ frees \in 0..MaxFrees /\ upsets \in 0..MaxUpsets
  /\ loose \subseteq Files /\ stuck \subseteq Files /\ guessed \in BOOLEAN
  /\ alone \in BOOLEAN /\ really \in Nat /\ grown \subseteq Files /\ exact \in BOOLEAN

(* The index and the volume agree on which files are cached, except on     *)
(* files an evictor is at, or was when it died; files "removed" while      *)
(* their volume was elsewhere; files --free removed while they were being  *)
(* recached; files whose record the cleanup deleted; and files of which a  *)
(* delete event was reported, whose copies stay.  A later copy mends each  *)
(* of these.                                                               *)
IndexAgrees ==
  \A p \in Files \ (loose \cup Middle("worker") \cup Middle("cli")) :
    (HasRow(p) /\ rows[p].present) <=> p \in disk

(* When the free space is known, a copy starts with min_free_bytes free    *)
(* and no less than the size the index had for the file, or with every     *)
(* other cached file found impossible to remove.  That size is the hint of *)
(* the last access, which the driver leaves at 0: the room for the file    *)
(* itself that src/README.md:489-490 promises does not follow.             *)
RoomMade ==
  pc["worker"] = "copy" /\ free # None /\ ~guessed =>
    (SpaceLeft >= required /\ SpaceLeft >= MinFree) \/ CachedPaths \ {current} \subseteq stuck

(* --free, with nobody else at work, reports what it freed, unless it      *)
(* removed the copy of a source that changed size between being measured   *)
(* and being copied; and it frees "at least <size> bytes" by its own count *)
(* unless nothing is left in the cache.                                    *)
FreeExact ==
  pc["cli"] = "done" /\ alone =>
    (exact => freed = really) /\ (freed >= goal \/ CachedPaths = {})

=============================================================================
