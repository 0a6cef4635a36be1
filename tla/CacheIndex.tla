----------------------------- MODULE CacheIndex -----------------------------
(***************************************************************************)
(* The SQLite cache index of src/core/cache_index.cpp: the table `files`   *)
(* (rows) and the table `pending_jobs` (jobs), and every statement or      *)
(* transaction the program runs against them.  Each public method of       *)
(* CacheIndex holds the index mutex for its whole body, and SQLite         *)
(* serialises the processes that share the file, so a method is one step.  *)
(*                                                                         *)
(* Columns nothing in the program branches on (last_error, reason, the     *)
(* requestor, the digest and the hash and write-close times) are left out. *)
(* The clock ticks Second times a second; stored times are whole seconds.  *)
(***************************************************************************)
EXTENDS Integers

CONSTANTS
  Files,    \* relative paths that may be accessed
  Second,   \* ticks of the clock per second
  None      \* stands for the row, job or entry that is not there

Row == [seen: Nat, size: Nat, cachedSize: Nat, present: BOOLEAN]
Job == [due: Nat, retries: Nat]

ASSUME SecondAssumption == Second \in Nat \ {0}

ASSUME NoneAssumption == None \notin Row \cup Job

VARIABLES
  rows,     \* files: last_seen_utc, source and cached size, cache_present
  jobs      \* pending_jobs: due_utc and retries

indexVars == <<rows, jobs>>

\* Kinds of access the driver reports (access_event.h).
Kinds == {"ReadOpen", "WriteObserved", "WriteClosed", "Rename", "Delete"}

\* Only opens for reading and closes after writing schedule a copy.
CopyKinds == {"ReadOpen", "WriteClosed"}

HasRow(p) == rows[p] # None
HasJob(p) == jobs[p] # None

\* The retry count survives a conflicting insert: only due_utc is overwritten.
Retries(p) == IF HasJob(p) THEN jobs[p].retries ELSE 0

IndexInit ==
  /\ rows = [p \in Files |-> None]
  /\ jobs = [p \in Files |-> None]

-----------------------------------------------------------------------------

(* format_utc: a time is stored to the second; what parse_utc reads back is *)
(* the beginning of that second.                                           *)
Stored(t) == t - (t % Second)

(* The upsert of `files`: an access refreshes last_seen and overwrites the *)
(* source size with the size hint of the event, keeping the cache columns. *)
AccessedRow(p, t, hint) ==
  IF HasRow(p) THEN [rows[p] EXCEPT !.seen = Stored(t), !.size = hint]
               ELSE [seen |-> Stored(t), size |-> hint, cachedSize |-> 0, present |-> FALSE]

(* record_access: both upserts in one transaction. *)
RecordAccess(p, kind, t, hint, delay) ==
  /\ rows' = [rows EXCEPT ![p] = AccessedRow(p, t, hint)]
  /\ jobs' = IF kind \in CopyKinds
             THEN [jobs EXCEPT ![p] =
                     [due |-> Stored(t + delay), retries |-> Retries(p)]]
             ELSE jobs

(* upsert_pending_job: pending_jobs references files and foreign keys are  *)
(* enforced: without a row the insert throws, so the step needs one.       *)
UpsertPendingJob(p, due) ==
  /\ HasRow(p)
  /\ jobs' = [jobs EXCEPT ![p] = [due |-> Stored(due), retries |-> Retries(p)]]
  /\ UNCHANGED rows

(* record_error: the retry counter of the path's job, if it has one. *)
RecordError(p) ==
  /\ jobs' = IF HasJob(p) THEN [jobs EXCEPT ![p].retries = @ + 1] ELSE jobs
  /\ UNCHANGED rows

(* mark_cached is an UPDATE: it creates no row and leaves the job alone. *)
MarkCached(p, size, cachedSize) ==
  /\ rows' = IF HasRow(p)
             THEN [rows EXCEPT ![p].size = size, ![p].cachedSize = cachedSize,
                               ![p].present = TRUE]
             ELSE rows
  /\ UNCHANGED jobs

RemovePendingJob(p) ==
  /\ jobs' = [jobs EXCEPT ![p] = None]
  /\ UNCHANGED rows

(* mark_removed: the job goes and cache_present is cleared in one           *)
(* transaction; the row and its cached size stay.                          *)
MarkRemoved(p) ==
  /\ jobs' = [jobs EXCEPT ![p] = None]
  /\ rows' = IF HasRow(p) THEN [rows EXCEPT ![p].present = FALSE] ELSE rows

DeleteRecord(p) ==
  /\ jobs' = [jobs EXCEPT ![p] = None]
  /\ rows' = [rows EXCEPT ![p] = None]

-----------------------------------------------------------------------------

(* Fault: jobs are due a second early. *)
FaultyDuePaths(t) == {p \in Files : HasJob(p) /\ jobs[p].due <= Stored(t + Second)}

(* due_jobs: the paths of jobs due at t, compared as stored. *)
DuePaths(t) == {p \in Files : HasJob(p) /\ jobs[p].due <= Stored(t)}

CachedPaths == {p \in Files : HasRow(p) /\ rows[p].present}

-----------------------------------------------------------------------------

IndexTypeOK ==
  /\ rows \in [Files -> Row \cup {None}]
  /\ jobs \in [Files -> Job \cup {None}]

(* Every pending job refers to a known file: the foreign key, which SQLite *)
(* enforces.                                                               *)
JobsHaveRows == \A p \in Files : HasJob(p) => HasRow(p)

=============================================================================
