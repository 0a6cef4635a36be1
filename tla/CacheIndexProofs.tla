-------------------------- MODULE CacheIndexProofs --------------------------
(***************************************************************************)
(* What the operations of CacheIndex preserve: the types of both tables,   *)
(* the foreign key from pending_jobs to files, and due times of whole      *)
(* seconds; and what each does to the rows, to the files shown as cached   *)
(* and to the requests still open.                                         *)
(***************************************************************************)
EXTENDS CacheIndex, TLAPS

(* A due time is stored to the second: storing it again changes nothing. *)
DueWhole == \A p \in Files : HasJob(p) => Stored(jobs[p].due) = jobs[p].due

IndexInv == IndexTypeOK /\ JobsHaveRows /\ DueWhole

(* None is neither a row nor a job, so a path that is given one has one.   *)
LEMMA NoneIsNothing == None \notin Row /\ None \notin Job
BY NoneAssumption

(* An index that was just created has no rows, and so no dangling job. *)
LEMMA IndexInitInv == IndexInit => IndexInv
BY DEF IndexInit, IndexInv, IndexTypeOK, JobsHaveRows, DueWhole, HasJob

(* A time the index stores is a time. *)
LEMMA StoredType ==
  ASSUME NEW t \in Nat
  PROVE  Stored(t) \in Nat
<1>1. t % Second \in 0..(Second - 1) /\ t = Second * (t \div Second) + (t % Second)
  BY SecondAssumption, SMT
<1>2. Second \in Nat /\ t \div Second \in Nat
  BY SecondAssumption, SMT
<1>3. Second * (t \div Second) \in Nat
  BY <1>2, SMT
<1>. QED
  BY <1>1, <1>3 DEF Stored

(* Rounding to the second a time already rounded leaves it as it is. *)
LEMMA StoredTwice ==
  ASSUME NEW t \in Nat
  PROVE  Stored(Stored(t)) = Stored(t)
<1>. DEFINE q == t \div Second
<1>1. Second \in Nat \ {0} /\ q \in Nat /\ Stored(t) = Second * q
  BY SecondAssumption, SMT DEF Stored
<1>2. (Second * q) % Second = 0
  BY <1>1, SMT
<1>. QED
  BY <1>1, <1>2, StoredType DEF Stored

(* A whole second that has come is not after the time as it is stored. *)
LEMMA StoredBelow ==
  ASSUME NEW d \in Nat, NEW t \in Nat, Stored(d) = d, d <= t
  PROVE  d <= Stored(t)
<1>. DEFINE a == d \div Second
            b == t \div Second
<1>1. /\ Second \in Nat \ {0} /\ a \in Nat /\ b \in Nat
      /\ d = Second * a /\ Stored(t) = Second * b /\ t < Second * b + Second
  BY SecondAssumption, SMT DEF Stored
<1>. HIDE DEF a, b
<1>2. CASE a <= b
  BY <1>1, <1>2, SMT
<1>3. CASE b + 1 <= a
  <2>1. Second * (b + 1) = Second * b + Second
    BY <1>1, SMT
  <2>2. Second * (b + 1) <= Second * a
    BY <1>1, <1>3, SMT
  <2>. QED
    BY <1>1, <2>1, <2>2, SMT
<1>. QED
  BY <1>1, <1>2, <1>3

(* An access leaves a well-typed row, and its job beside it. *)
LEMMA AccessedRowType ==
  ASSUME IndexTypeOK, NEW p \in Files, NEW t \in Nat, NEW hint \in Nat
  PROVE  AccessedRow(p, t, hint) \in Row
BY StoredType DEF AccessedRow, IndexTypeOK, HasRow, Row

(* The retry count that an access carries over is a number, with or without a job. *)
LEMMA RetriesType ==
  ASSUME IndexTypeOK, NEW p \in Files
  PROVE  Retries(p) \in Nat
BY DEF Retries, IndexTypeOK, HasJob, Job

(* record_access creates the row before, and with, the job. *)
LEMMA RecordAccessInv ==
  ASSUME IndexInv, NEW p \in Files, NEW kind, NEW t \in Nat, NEW hint \in Nat,
         NEW delay \in Nat, RecordAccess(p, kind, t, hint, delay)
  PROVE  IndexInv'
<1>1. AccessedRow(p, t, hint) \in Row
  BY AccessedRowType DEF IndexInv
<1>2. [due |-> Stored(t + delay), retries |-> Retries(p)] \in Job
  BY RetriesType, StoredType DEF IndexInv, Job
<1>3. IndexTypeOK'
  BY <1>1, <1>2 DEF RecordAccess, IndexInv, IndexTypeOK
<1>4. ASSUME NEW q \in Files, HasJob(q)' PROVE HasRow(q)'
  BY <1>1, <1>4, NoneIsNothing
     DEF RecordAccess, IndexInv, IndexTypeOK, JobsHaveRows, HasRow, HasJob
<1>5. ASSUME NEW q \in Files, HasJob(q)' PROVE Stored(jobs'[q].due) = jobs'[q].due
  BY <1>2, <1>5, StoredTwice
     DEF RecordAccess, IndexInv, IndexTypeOK, DueWhole, HasJob
<1>. QED
  BY <1>5, <1>3, <1>4 DEF IndexInv, JobsHaveRows, DueWhole

(* A failed copy reschedules a job only for a path that has a row. *)
LEMMA UpsertPendingJobInv ==
  ASSUME IndexInv, NEW p \in Files, NEW due \in Nat, UpsertPendingJob(p, due)
  PROVE  IndexInv'
<1>1. [due |-> Stored(due), retries |-> Retries(p)] \in Job
  BY RetriesType, StoredType DEF IndexInv, Job
<1>2. IndexTypeOK'
  BY <1>1 DEF UpsertPendingJob, IndexInv, IndexTypeOK
<1>3. ASSUME NEW q \in Files, HasJob(q)' PROVE HasRow(q)'
  BY <1>3 DEF UpsertPendingJob, IndexInv, IndexTypeOK, JobsHaveRows, HasRow, HasJob
<1>4. ASSUME NEW q \in Files, HasJob(q)' PROVE Stored(jobs'[q].due) = jobs'[q].due
  BY <1>1, <1>4, StoredTwice DEF UpsertPendingJob, IndexInv, IndexTypeOK, DueWhole, HasJob
<1>. QED
  BY <1>4, <1>2, <1>3 DEF IndexInv, JobsHaveRows, DueWhole

(* record_error counts a retry on a job that is there, and adds no job. *)
LEMMA RecordErrorInv ==
  ASSUME IndexInv, NEW p \in Files, RecordError(p)
  PROVE  IndexInv'
<1>1. IndexTypeOK'
  BY DEF RecordError, IndexInv, IndexTypeOK, HasJob, Job
<1>2. ASSUME NEW q \in Files, HasJob(q)' PROVE HasRow(q)'
  BY <1>2 DEF RecordError, IndexInv, IndexTypeOK, JobsHaveRows, HasRow, HasJob
<1>3. ASSUME NEW q \in Files, HasJob(q)' PROVE Stored(jobs'[q].due) = jobs'[q].due
  BY <1>3 DEF RecordError, IndexInv, IndexTypeOK, DueWhole, HasJob, Job
<1>. QED
  BY <1>3, <1>1, <1>2 DEF IndexInv, JobsHaveRows, DueWhole

(* mark_cached rewrites one row, and the rows of other jobs stay. *)
LEMMA MarkCachedInv ==
  ASSUME IndexInv, NEW p \in Files, NEW size \in Nat, NEW cachedSize \in Nat,
         MarkCached(p, size, cachedSize)
  PROVE  IndexInv'
<1>1. IndexTypeOK'
  BY DEF MarkCached, IndexInv, IndexTypeOK, HasRow, Row
<1>2. ASSUME NEW q \in Files, HasJob(q)' PROVE HasRow(q)'
  BY <1>2, NoneIsNothing
     DEF MarkCached, IndexInv, IndexTypeOK, JobsHaveRows, HasRow, HasJob, Row
<1>3. DueWhole'
  BY DEF MarkCached, IndexInv, DueWhole, HasJob
<1>. QED
  BY <1>3, <1>1, <1>2 DEF IndexInv, JobsHaveRows, DueWhole

(* remove_pending_job takes a job away, never a row. *)
LEMMA RemovePendingJobInv ==
  ASSUME IndexInv, NEW p \in Files, RemovePendingJob(p)
  PROVE  IndexInv'
BY DEF RemovePendingJob, IndexInv, IndexTypeOK, JobsHaveRows, DueWhole, HasRow, HasJob

(* mark_removed keeps the row, so a job of another path keeps its own. *)
LEMMA MarkRemovedInv ==
  ASSUME IndexInv, NEW p \in Files, MarkRemoved(p)
  PROVE  IndexInv'
<1>1. IndexTypeOK'
  BY DEF MarkRemoved, IndexInv, IndexTypeOK, HasRow, Row
<1>2. ASSUME NEW q \in Files, HasJob(q)' PROVE HasRow(q)'
  BY <1>2, NoneIsNothing
     DEF MarkRemoved, IndexInv, IndexTypeOK, JobsHaveRows, HasRow, HasJob, Row
<1>3. DueWhole'
  BY DEF MarkRemoved, IndexInv, IndexTypeOK, DueWhole, HasJob
<1>. QED
  BY <1>3, <1>1, <1>2 DEF IndexInv, JobsHaveRows, DueWhole

(* The start-up cleanup deletes a row together with its job. *)
LEMMA DeleteRecordInv ==
  ASSUME IndexInv, NEW p \in Files, DeleteRecord(p)
  PROVE  IndexInv'
BY DEF DeleteRecord, IndexInv, IndexTypeOK, JobsHaveRows, DueWhole, HasRow, HasJob

(* A step that leaves both tables alone keeps what holds of them. *)
LEMMA IndexStutterInv ==
  ASSUME IndexInv, UNCHANGED indexVars
  PROVE  IndexInv'
BY DEF indexVars, IndexInv, IndexTypeOK, JobsHaveRows, DueWhole, HasRow, HasJob

-----------------------------------------------------------------------------
(* What the operations of the index do to requests and shown copies.       *)

Wanted == {p \in Files : HasJob(p)}

(* record_access makes a request of a copy-worthy access, and shows nothing. *)
LEMMA AccessAsks ==
  ASSUME IndexInv, NEW p \in Files, NEW kind, NEW t \in Nat, NEW hint \in Nat,
         NEW delay \in Nat, RecordAccess(p, kind, t, hint, delay)
  PROVE  /\ CachedPaths' = CachedPaths
         /\ Wanted' = IF kind \in CopyKinds THEN Wanted \cup {p} ELSE Wanted
<1>1. AccessedRow(p, t, hint) \in Row /\ AccessedRow(p, t, hint) # None
  BY AccessedRowType, NoneIsNothing DEF IndexInv
<1>2. AccessedRow(p, t, hint).present = (HasRow(p) /\ rows[p].present)
  BY DEF AccessedRow, IndexInv, IndexTypeOK, HasRow, Row
<1>3. rows' = [rows EXCEPT ![p] = AccessedRow(p, t, hint)]
  BY DEF RecordAccess
<1>4. CachedPaths' = CachedPaths
  BY <1>1, <1>2, <1>3 DEF CachedPaths, HasRow, IndexInv, IndexTypeOK
<1>5. [due |-> Stored(t + delay), retries |-> Retries(p)] # None
  BY RetriesType, StoredType, NoneIsNothing DEF IndexInv, Job
<1>6. Wanted' = IF kind \in CopyKinds THEN Wanted \cup {p} ELSE Wanted
  BY <1>5 DEF Wanted, HasJob, RecordAccess, IndexInv, IndexTypeOK
<1>. QED
  BY <1>4, <1>6

(* mark_removed forgets request and copy in one transaction. *)
LEMMA RemovedForgets ==
  ASSUME IndexInv, NEW p \in Files, MarkRemoved(p)
  PROVE  CachedPaths' = CachedPaths \ {p} /\ Wanted' = Wanted \ {p}
<1>1. Wanted' = Wanted \ {p}
  BY DEF Wanted, HasJob, MarkRemoved, IndexInv, IndexTypeOK
<1>2. ASSUME HasRow(p)
      PROVE  [rows[p] EXCEPT !.present = FALSE].present = FALSE
  BY <1>2 DEF HasRow, IndexInv, IndexTypeOK, Row
<1>3. CachedPaths' = CachedPaths \ {p}
  BY <1>2 DEF CachedPaths, HasRow, MarkRemoved, IndexInv, IndexTypeOK
<1>. QED
  BY <1>1, <1>3

(* mark_cached shows the copy of a file that has a row. *)
LEMMA CachedShows ==
  ASSUME IndexInv, NEW p \in Files, NEW size \in Nat, NEW cachedSize \in Nat,
         MarkCached(p, size, cachedSize)
  PROVE  /\ CachedPaths' = IF HasRow(p) THEN CachedPaths \cup {p} ELSE CachedPaths
         /\ Wanted' = Wanted
<1>. DEFINE r == [rows[p] EXCEPT !.size = size, !.cachedSize = cachedSize, !.present = TRUE]
<1>1. ASSUME HasRow(p) PROVE r \in Row /\ r.present = TRUE /\ r # None
  BY <1>1, NoneIsNothing DEF HasRow, IndexInv, IndexTypeOK, Row
<1>2. rows' = IF HasRow(p) THEN [rows EXCEPT ![p] = r] ELSE rows
  BY DEF MarkCached, IndexInv, IndexTypeOK
<1>. HIDE DEF r
<1>3. CachedPaths' = IF HasRow(p) THEN CachedPaths \cup {p} ELSE CachedPaths
  BY <1>1, <1>2 DEF CachedPaths, HasRow, IndexInv, IndexTypeOK
<1>4. Wanted' = Wanted
  BY DEF Wanted, HasJob, MarkCached
<1>. QED
  BY <1>3, <1>4

(* remove_pending_job takes the request alone. *)
LEMMA RemovalSettles ==
  ASSUME IndexInv, NEW p \in Files, RemovePendingJob(p)
  PROVE  CachedPaths' = CachedPaths /\ Wanted' = Wanted \ {p}
BY DEF RemovePendingJob, CachedPaths, Wanted, HasRow, HasJob, IndexInv, IndexTypeOK

(* The retry of a failed copy asks again. *)
LEMMA UpsertAsks ==
  ASSUME IndexInv, NEW p \in Files, NEW due \in Nat, UpsertPendingJob(p, due)
  PROVE  CachedPaths' = CachedPaths /\ Wanted' = Wanted \cup {p}
<1>1. [due |-> Stored(due), retries |-> Retries(p)] # None
  BY RetriesType, StoredType, NoneIsNothing DEF IndexInv, Job
<1>. QED
  BY <1>1 DEF UpsertPendingJob, CachedPaths, Wanted, HasRow, HasJob, IndexInv, IndexTypeOK

(* Counting an error changes no request. *)
LEMMA ErrorKeeps ==
  ASSUME IndexInv, NEW p \in Files, RecordError(p)
  PROVE  CachedPaths' = CachedPaths /\ Wanted' = Wanted
<1>1. ASSUME HasJob(p) PROVE [jobs[p] EXCEPT !.retries = jobs[p].retries + 1] # None
  BY <1>1, NoneIsNothing DEF HasJob, IndexInv, IndexTypeOK, Job
<1>. QED
  BY <1>1 DEF RecordError, CachedPaths, Wanted, HasRow, HasJob, IndexInv, IndexTypeOK

(* Neither does a step that leaves both tables alone. *)
LEMMA StutterKeeps ==
  ASSUME UNCHANGED indexVars
  PROVE  CachedPaths' = CachedPaths /\ Wanted' = Wanted
BY DEF indexVars, CachedPaths, Wanted, HasRow, HasJob

(* What is kept of a row by an access, by a removal and by a copy: that it *)
(* is there, and the size its copy is recorded with.                       *)
LEMMA AccessRows ==
  ASSUME IndexInv, NEW p \in Files, NEW kind, NEW t \in Nat, NEW hint \in Nat,
         NEW delay \in Nat, RecordAccess(p, kind, t, hint, delay), NEW q \in Files, HasRow(q)
  PROVE  HasRow(q)' /\ rows'[q].cachedSize = rows[q].cachedSize
<1>1. AccessedRow(p, t, hint) # None
  BY AccessedRowType, NoneIsNothing DEF IndexInv
<1>2. HasRow(p) => AccessedRow(p, t, hint).cachedSize = rows[p].cachedSize
  BY DEF AccessedRow, IndexInv, IndexTypeOK, HasRow, Row
<1>3. rows' = [rows EXCEPT ![p] = AccessedRow(p, t, hint)]
  BY DEF RecordAccess
<1>. QED
  BY <1>1, <1>2, <1>3 DEF HasRow, IndexInv, IndexTypeOK

LEMMA RemovedRows ==
  ASSUME IndexInv, NEW p \in Files, MarkRemoved(p), NEW q \in Files, HasRow(q)
  PROVE  HasRow(q)' /\ rows'[q].cachedSize = rows[q].cachedSize
<1>. DEFINE r == [rows[p] EXCEPT !.present = FALSE]
<1>1. ASSUME HasRow(p) PROVE r # None /\ r.cachedSize = rows[p].cachedSize
  BY <1>1, NoneIsNothing DEF HasRow, IndexInv, IndexTypeOK, Row
<1>2. rows' = IF HasRow(p) THEN [rows EXCEPT ![p] = r] ELSE rows
  BY DEF MarkRemoved, IndexInv, IndexTypeOK
<1>. HIDE DEF r
<1>. QED
  BY <1>1, <1>2 DEF HasRow, IndexInv, IndexTypeOK

LEMMA CachedRows ==
  ASSUME IndexInv, NEW p \in Files, NEW size \in Nat, NEW cachedSize \in Nat,
         MarkCached(p, size, cachedSize), NEW q \in Files, HasRow(q)
  PROVE  /\ HasRow(q)'
         /\ rows'[q].cachedSize = IF q = p THEN cachedSize ELSE rows[q].cachedSize
<1>. DEFINE r == [rows[p] EXCEPT !.size = size, !.cachedSize = cachedSize, !.present = TRUE]
<1>1. ASSUME HasRow(p) PROVE r # None /\ r.cachedSize = cachedSize
  BY <1>1, NoneIsNothing DEF HasRow, IndexInv, IndexTypeOK, Row
<1>2. rows' = IF HasRow(p) THEN [rows EXCEPT ![p] = r] ELSE rows
  BY DEF MarkCached, IndexInv, IndexTypeOK
<1>. HIDE DEF r
<1>. QED
  BY <1>1, <1>2 DEF HasRow, IndexInv, IndexTypeOK

(* The start-up cleanup forgets the copy with the record. *)
LEMMA DeletedForgets ==
  ASSUME IndexInv, NEW p \in Files, DeleteRecord(p)
  PROVE  CachedPaths' = CachedPaths \ {p} /\ Wanted' = Wanted \ {p}
BY DEF DeleteRecord, CachedPaths, Wanted, HasRow, HasJob, IndexInv, IndexTypeOK

=============================================================================
