------------------------------ MODULE CopyEngine ------------------------------
(***************************************************************************)
(* WinFileCopyEngine (src/platform/win/win_file_copy.cpp): copy_and_hash   *)
(* and remove_cached_file on one file, called by the one worker thread,    *)
(* while others write, replace and delete the source, another process      *)
(* removes the cache file (service_main.cpp --free), the service is        *)
(* stopped and the process is lost.                                        *)
(*                                                                         *)
(* A file is its sequence of chunks, the size of a file their number, and  *)
(* a digest the content it is the digest of.                               *)
(***************************************************************************)
EXTENDS Integers, Sequences

CONSTANTS
  Chunks,       \* contents of one chunk
  MaxChunks,    \* bound: chunks of a file
  None,         \* no file, no handle, no digest
  Live          \* a handle on the file at the path itself

Content == UNION {[1..n -> Chunks] : n \in 0..MaxChunks}

ASSUME EngineAssumption ==
  MaxChunks \in Nat /\ None \notin Content /\ Live \notin Content \cup {None}

VARIABLES
  source,     \* content of the source file, or None
  cache,      \* content of the cache file, or None
  temp,       \* content of the .ssd-cache.tmp file, or None
  compare,    \* the argument compare_hash_before_overwrite
  pc,         \* where copy_and_hash is; "idle" between calls
  handle,     \* open source: None, Live, or the content of an unlinked file
  hashed,     \* the chunks fed to the running hash
  result,     \* the CopyResult
  cancelled,  \* stop_requested_ of the scheduler
  seen,       \* history: what each chunk held since the source was opened
  quiet       \* history: nobody has touched the source since the call

vars == <<source, cache, temp, compare, pc, handle, hashed, result, cancelled, seen, quiet>>

Actions == {"Copied", "SkippedSameSize", "SkippedHashMatch", "SourceMissing",
            "Failed", "Cancelled", "Threw"}

NoResult == [action |-> "Failed", sourceSize |-> 0, cachedSize |-> 0, hash |-> None]

Nothing == [i \in 1..MaxChunks |-> {}]

Init ==
  /\ source \in Content \cup {None} /\ cache \in Content \cup {None} /\ temp = None
  /\ compare = FALSE /\ pc = "idle" /\ handle = None /\ hashed = <<>> /\ result = NoResult
  /\ cancelled = FALSE /\ seen = Nothing /\ quiet = FALSE

World == UNCHANGED <<source, compare, cancelled, quiet>>

-----------------------------------------------------------------------------
(* The call and its ways back.                                             *)

Call ==
  /\ pc = "idle"
  /\ compare' \in BOOLEAN
  /\ pc' = "inspect" /\ result' = NoResult /\ quiet' = TRUE
  /\ UNCHANGED <<source, cache, temp, handle, hashed, cancelled, seen>>

(* Returning closes the handles. *)
Return(action) ==
  /\ pc' = "returned" /\ result' = [result EXCEPT !.action = action]
  /\ handle' = None /\ hashed' = <<>> /\ seen' = Nothing
  /\ World

TakeResult ==
  /\ pc = "returned"
  /\ pc' = "idle"
  /\ UNCHANGED <<source, cache, temp, compare, handle, hashed, result, cancelled, seen, quiet>>

-----------------------------------------------------------------------------
(* Is there anything to copy?                                              *)

Inspect ==
  /\ pc = "inspect" /\ source # None
  /\ pc' = "compare" /\ result' = [result EXCEPT !.sourceSize = Len(source)]
  /\ World /\ UNCHANGED <<cache, temp, handle, hashed, seen>>

InspectMissing ==
  /\ pc = "inspect" /\ source = None
  /\ Return("SourceMissing") /\ UNCHANGED <<cache, temp>>

SameSize == cache # None /\ Len(cache) = result.sourceSize

(* The size of the cache file is taken whenever there is one. *)
Sized == IF cache # None THEN [result EXCEPT !.cachedSize = Len(cache)] ELSE result

SkipSameSize ==
  /\ pc = "compare" /\ SameSize /\ ~compare
  /\ pc' = "returned" /\ result' = [Sized EXCEPT !.action = "SkippedSameSize"]
  /\ World /\ UNCHANGED <<cache, temp, handle, hashed, seen>>

CompareDigests ==
  /\ pc = "compare" /\ SameSize /\ compare
  /\ pc' = "hashOpen" /\ result' = Sized
  /\ World /\ UNCHANGED <<cache, temp, handle, hashed, seen>>

Differs ==
  /\ pc = "compare" /\ ~SameSize
  /\ pc' = "open" /\ result' = Sized
  /\ World /\ UNCHANGED <<cache, temp, handle, hashed, seen>>

(* hash_existing_file on the source: opened, then read chunk by chunk. *)
HashOpen ==
  /\ pc = "hashOpen" /\ source # None
  /\ pc' = "hash" /\ handle' = Live
  /\ World /\ UNCHANGED <<cache, temp, hashed, result, seen>>

Held == IF handle = Live THEN source ELSE handle
More == Len(hashed) < Len(Held)

HashChunk ==
  /\ pc = "hash" /\ More
  /\ hashed' = Append(hashed, Held[Len(hashed) + 1])
  /\ World /\ UNCHANGED <<cache, temp, pc, handle, result, seen>>

(* Then on the cache file, which nobody writes in place. *)
DigestsMatch ==
  /\ pc = "hash" /\ ~More /\ hashed = cache
  /\ pc' = "returned"
  /\ result' = [result EXCEPT !.action = "SkippedHashMatch", !.hash = hashed]
  /\ handle' = None /\ hashed' = <<>>
  /\ World /\ UNCHANGED <<cache, temp, seen>>

(* Fault: the copy goes on with the hash of the comparison. *)
FaultyDigestsDiffer ==
  /\ pc = "hash" /\ ~More /\ cache # None /\ hashed # cache
  /\ pc' = "open" /\ handle' = None
  /\ World /\ UNCHANGED <<cache, temp, hashed, result, seen>>

DigestsDiffer ==
  /\ pc = "hash" /\ ~More /\ cache # None /\ hashed # cache
  /\ pc' = "open" /\ handle' = None /\ hashed' = <<>>
  /\ World /\ UNCHANGED <<cache, temp, result, seen>>

(* Either file cannot be opened or read: nothing in the engine catches it. *)
HashThrows ==
  /\ pc \in {"hashOpen", "hash"}
  /\ Return("Threw") /\ UNCHANGED <<cache, temp>>

-----------------------------------------------------------------------------
(* The copy.  From "create" on the source is open, from "loop" to "finish"  *)
(* the temporary file is open for exclusive use.                           *)

OpenSource ==
  /\ pc = "open" /\ source # None
  /\ pc' = "create" /\ handle' = Live
  /\ seen' = [i \in 1..MaxChunks |-> IF i <= Len(source) THEN {source[i]} ELSE {}]
  /\ World /\ UNCHANGED <<cache, temp, hashed, result>>

OpenMissing ==
  /\ pc = "open" /\ source = None
  /\ Return("SourceMissing") /\ UNCHANGED <<cache, temp>>

(* Fault: a temporary file left over is opened as it is. *)
FaultyCreateTemp ==
  /\ pc = "create"
  /\ pc' = "loop" /\ temp' = (IF temp = None THEN <<>> ELSE temp)
  /\ World /\ UNCHANGED <<cache, handle, hashed, result, seen>>

CreateTemp ==
  /\ pc = "create"
  /\ pc' = "loop" /\ temp' = <<>>
  /\ World /\ UNCHANGED <<cache, handle, hashed, result, seen>>

(* Fault: the temporary file is deleted while it is open, which fails. *)
FaultyCancel ==
  /\ pc = "loop" /\ cancelled
  /\ Return("Cancelled") /\ UNCHANGED <<cache, temp>>

(* Polled before each chunk; the temporary file is closed, then deleted. *)
Cancel ==
  /\ pc = "loop" /\ cancelled
  /\ temp' = None
  /\ Return("Cancelled") /\ UNCHANGED cache

ReadChunk ==
  /\ pc = "loop" /\ ~cancelled /\ More
  /\ pc' = "write" /\ hashed' = Append(hashed, Held[Len(hashed) + 1])
  /\ World /\ UNCHANGED <<cache, temp, handle, result, seen>>

WriteChunk ==
  /\ pc = "write"
  /\ pc' = "loop" /\ temp' = Append(temp, hashed[Len(hashed)])
  /\ World /\ UNCHANGED <<cache, handle, hashed, result, seen>>

(* A read or write error, or an exception: the temporary file is still open *)
(* without sharing, so deleting it fails (or is not tried) and it stays.   *)
BreakOff ==
  /\ pc \in {"loop", "write"}
  /\ \/ Return("Failed")
     \/ pc = "loop" /\ Return("SourceMissing")
  /\ UNCHANGED <<cache, temp>>

(* Fault: the source stays open. *)
FaultyEndOfFile ==
  /\ pc = "loop" /\ ~cancelled /\ ~More
  /\ pc' = "publish"
  /\ result' = [result EXCEPT !.cachedSize = result.sourceSize, !.hash = hashed]
  /\ World /\ UNCHANGED <<cache, temp, handle, hashed, seen>>

EndOfFile ==
  /\ pc = "loop" /\ ~cancelled /\ ~More
  /\ pc' = "publish"
  /\ result' = [result EXCEPT !.cachedSize = result.sourceSize, !.hash = hashed]
  /\ handle' = None
  /\ World /\ UNCHANGED <<cache, temp, hashed, seen>>

(* Fault: the cache file is opened and written in two steps. *)
FaultyPublish ==
  /\ pc = "publish" /\ temp # None
  /\ cache' = IF cache = <<>> THEN temp ELSE <<>>
  /\ temp' = IF cache = <<>> THEN None ELSE temp
  /\ IF cache = <<>> THEN Return("Copied")
     ELSE World /\ UNCHANGED <<pc, handle, hashed, result, seen>>

Publish ==
  /\ pc = "publish" /\ temp # None
  /\ cache' = temp /\ temp' = None
  /\ Return("Copied")

(* Somebody has the cache file open, or has removed the temporary one. *)
PublishFails ==
  /\ pc = "publish"
  /\ temp' = None
  /\ Return("Failed") /\ UNCHANGED cache

(* Any other error before the temporary file exists. *)
FailEarly ==
  /\ pc \in {"inspect", "open", "create"}
  /\ Return("Failed") /\ UNCHANGED <<cache, temp>>

-----------------------------------------------------------------------------
(* remove_cached_file, by the worker between copies: the temporary file    *)
(* goes first, the cache file may resist.                                  *)

RemoveCached ==
  /\ pc = "idle"
  /\ temp' = None /\ cache' \in {cache, None}
  /\ UNCHANGED <<source, compare, pc, handle, hashed, result, cancelled, seen, quiet>>

-----------------------------------------------------------------------------
(* The rest of the system.                                                 *)

Opened == pc \in {"create", "loop", "write", "publish"}

(* What the copy may come across grows with every state of the source. *)
Adding(f) ==
  [i \in 1..MaxChunks |-> seen[i] \cup (IF f # None /\ i <= Len(f) THEN {f[i]} ELSE {})]

Touch(f) ==
  /\ source' = f /\ quiet' = FALSE
  /\ seen' = IF Opened THEN Adding(f) ELSE seen
  /\ UNCHANGED <<cache, temp, compare, pc, hashed, result, cancelled>>

(* Written in place: an open handle sees it. *)
SourceWrite(f) ==
  /\ source # None /\ Touch(f) /\ UNCHANGED handle

(* Deleted, or replaced by another file: an open handle keeps the old one. *)
SourceReplace(f) ==
  /\ Touch(f)
  /\ handle' = IF handle = Live THEN source ELSE handle

RequestStop ==
  /\ ~cancelled /\ cancelled' = TRUE
  /\ UNCHANGED <<source, cache, temp, compare, pc, handle, hashed, result, seen, quiet>>

(* Another process frees space, with the same remove_cached_file: it takes  *)
(* along a temporary file nobody has open.                                 *)
ExternalRemove ==
  /\ cache # None
  /\ cache' \in {cache, None}
  /\ temp' = IF pc \in {"loop", "write"} THEN temp ELSE None
  /\ UNCHANGED <<source, compare, pc, handle, hashed, result, cancelled, seen, quiet>>

(* The process ends; what it had in the temporary file stays. *)
Lost ==
  /\ pc' = "idle" /\ handle' = None /\ hashed' = <<>> /\ result' = NoResult
  /\ compare' = FALSE /\ cancelled' = FALSE /\ seen' = Nothing /\ quiet' = FALSE
  /\ UNCHANGED <<source, cache, temp>>

-----------------------------------------------------------------------------

EngineStep ==
  \/ Call \/ TakeResult \/ RemoveCached
  \/ Inspect \/ InspectMissing \/ SkipSameSize \/ CompareDigests \/ Differs
  \/ HashOpen \/ HashChunk \/ DigestsMatch \/ DigestsDiffer \/ HashThrows
  \/ OpenSource \/ OpenMissing \/ CreateTemp \/ Cancel \/ ReadChunk \/ WriteChunk
  \/ BreakOff \/ EndOfFile \/ Publish \/ PublishFails \/ FailEarly

WorldStep ==
  \/ \E f \in Content : SourceWrite(f)
  \/ \E f \in Content \cup {None} : SourceReplace(f)
  \/ RequestStop \/ ExternalRemove \/ Lost

Next == EngineStep \/ WorldStep

Spec == Init /\ [][Next]_vars

-----------------------------------------------------------------------------
(* Properties.                                                             *)

(* The types, and what is open at which point: in particular the temporary *)
(* file holds exactly the chunks that were hashed.                         *)
TypeOK ==
  /\ source \in Content \cup {None} /\ cache \in Content \cup {None}
  /\ temp \in Content \cup {None} /\ hashed \in Content
  /\ pc \in {"idle", "inspect", "compare", "hashOpen", "hash", "open", "create",
            "loop", "write", "publish", "returned"}
  /\ handle \in Content \cup {None, Live}
  /\ handle # None <=> pc \in {"hash", "create", "loop", "write"}
  /\ handle = Live => source # None
  /\ pc \notin {"hash", "loop", "write", "publish"} => hashed = <<>>
  /\ pc = "loop" => temp = hashed
  /\ pc = "write" => temp # None /\ hashed = Append(temp, hashed[Len(hashed)])
  /\ pc = "publish" => temp \in {hashed, None} /\ result.hash = hashed
  /\ result \in [action : Actions, sourceSize : 0..MaxChunks, cachedSize : 0..MaxChunks,
                 hash : Content \cup {None}]
  /\ compare \in BOOLEAN /\ cancelled \in BOOLEAN /\ quiet \in BOOLEAN
  /\ seen \in [1..MaxChunks -> SUBSET Chunks] /\ (~Opened => seen = Nothing)

Outcome(actions) == pc = "returned" /\ result.action \in actions

(* The digest a copy returns, which the index then stores, is the digest   *)
(* of the cache file, whatever writers, leftovers of earlier copies or a   *)
(* crash did (a removal by another process aside).                         *)
DigestOfCache ==
  Outcome({"Copied", "SkippedHashMatch"}) /\ cache # None => result.hash = cache

(* When nobody touched the source during the call, the cache file is the   *)
(* source file and the size returned is its size.                          *)
UndisturbedCopy ==
  Outcome({"Copied", "SkippedHashMatch"}) /\ quiet /\ cache # None =>
    cache = source /\ result.cachedSize = Len(cache)

(* copy_engine.h: an aborted copy "leaves no partial file behind"; nor     *)
(* does a finished one, even if an earlier copy had left its own.          *)
NoPartialFile == Outcome({"Copied", "Cancelled"}) => temp = None

Abstract == INSTANCE AtomicReplace WITH busy <- Opened

(* The cache file is only ever replaced as a whole, by chunks the source    *)
(* held while the copy had it open.                                        *)
ReplacesAtomically == Abstract!Spec

=============================================================================
