---------------------------- MODULE FreeSpaceProofs ----------------------------
(***************************************************************************)
(* Freeing the cache volume, for every set of files, all sizes, every      *)
(* capacity and any number of accesses, calls of --free and upsets.       *)
(***************************************************************************)
EXTENDS FreeSpace, CacheIndexProofs, FiniteSetTheorems

-----------------------------------------------------------------------------
(* The bytes on the volume.  SpaceLeft folds a set; that the fold does not *)
(* depend on the order is shown by taking a least set for which it would:  *)
(* finite sets are well-founded under inclusion.                           *)

(* The sum of the sizes S gives to a set of files, and the fold that computes it. *)
Total(S, D) == MapThenSumSet(LAMBDA p : S[p], D)
Pick(D) == CHOOSE p \in D : TRUE
Sums(S, D, g) ==
  g = [E \in SUBSET D |-> IF E = {} THEN 0 ELSE S[Pick(E)] + g[E \ {Pick(E)}]]

(* Among finite sets of files there is always one none of whose parts is among them. *)
LEMMA LeastSet ==
  ASSUME NEW T, T \subseteq FiniteSubsetsOf(Files), T # {}
  PROVE  \E D \in T : \A E \in SUBSET D : E # D => E \notin T
<1>1. PICK D \in T : \A E \in T : <<E, D>> \notin StrictSubsetOrdering(Files)
  BY WFMin, FS_StrictSubsetOrderingWellFounded
<1>2. ASSUME NEW E \in SUBSET D, E # D, E \in T PROVE FALSE
  <2>1. E \in SUBSET Files /\ D \in SUBSET Files
    BY <1>2 DEF FiniteSubsetsOf
  <2>2. <<E, D>> \in StrictSubsetOrdering(Files)
    BY <1>2, <2>1 DEF StrictSubsetOrdering
  <2>. QED
    BY <2>2, <1>1, <1>2
<1>. QED
  BY <1>1, <1>2

LEMMA PartFinite ==
  ASSUME NEW D \in FiniteSubsetsOf(Files), NEW E \in SUBSET D
  PROVE  E \in FiniteSubsetsOf(Files)
BY FS_Subset DEF FiniteSubsetsOf

LEMMA PickIn == ASSUME NEW D, D # {} PROVE Pick(D) \in D
BY DEF Pick

(* Two functions that sum sets agree where both do. *)
LEMMA SumsAgree ==
  ASSUME NEW S \in [Files -> Nat], NEW D \in FiniteSubsetsOf(Files), NEW g, Sums(S, D, g), NEW B \in SUBSET D, NEW h, Sums(S, B, h)
  PROVE  g[B] = h[B]
<1>. DEFINE T == {E \in SUBSET B : g[E] # h[E]}
<1>. SUFFICES ASSUME T # {} PROVE FALSE
  OBVIOUS
<1>1. T \subseteq FiniteSubsetsOf(Files)
  BY PartFinite
<1>2. PICK E \in T : \A F \in SUBSET E : F # E => F \notin T
  <2>. HIDE DEF T
  <2>. QED
    BY <1>1, LeastSet
<1>3. g[{}] = 0 /\ h[{}] = 0
  BY DEF Sums
<1>4. E # {} /\ E \in SUBSET B /\ E \in SUBSET D /\ g[E] # h[E]
  BY <1>2, <1>3
<1>5. Pick(E) \in E
  BY <1>4, PickIn
<1>6. g[E \ {Pick(E)}] = h[E \ {Pick(E)}]
  BY <1>2, <1>5
<1>7. g[E] = S[Pick(E)] + g[E \ {Pick(E)}] /\ h[E] = S[Pick(E)] + h[E \ {Pick(E)}]
  BY <1>4 DEF Sums
<1>. QED
  BY <1>4, <1>6, <1>7

(* Every finite set of files has a function that sums it, of numbers. *)
LEMMA SumsExist ==
  ASSUME NEW S \in [Files -> Nat], NEW D \in FiniteSubsetsOf(Files)
  PROVE  \E g : Sums(S, D, g) /\ g \in [SUBSET D -> Nat]
<1>. DEFINE Has(E) == \E g : Sums(S, E, g) /\ g \in [SUBSET E -> Nat]
            T == {E \in FiniteSubsetsOf(Files) : ~Has(E)}
<1>. SUFFICES ASSUME T # {} PROVE FALSE
  OBVIOUS
<1>1. PICK E \in T : \A F \in SUBSET E : F # E => F \notin T
  <2>1. T \subseteq FiniteSubsetsOf(Files)
    OBVIOUS
  <2>. HIDE DEF T
  <2>. QED
    BY <2>1, LeastSet
<1>2. \A F \in SUBSET E : F # E => Has(F)
  BY <1>1, PartFinite
<1>. DEFINE G(F) == CHOOSE g : Sums(S, F, g) /\ g \in [SUBSET F -> Nat]
            h == [F \in SUBSET E |->
                    IF F = {} THEN 0 ELSE S[Pick(F)] + G(F \ {Pick(F)})[F \ {Pick(F)}]]
<1>3. ASSUME NEW F \in SUBSET E, F # E PROVE Sums(S, F, G(F)) /\ G(F) \in [SUBSET F -> Nat]
  BY <1>2, <1>3
<1>. HIDE DEF G
<1>4. ASSUME NEW F \in SUBSET E, F # {}
      PROVE  Pick(F) \in F /\ F \ {Pick(F)} \in SUBSET E /\ F \ {Pick(F)} # E
  BY <1>4, PickIn
<1>5. ASSUME NEW F \in SUBSET E, F # E PROVE G(F)[F] = h[F] /\ h[F] \in Nat
  <2>0. Sums(S, F, G(F)) /\ G(F) \in [SUBSET F -> Nat]
    BY <1>3, <1>5
  <2>1. CASE F = {}
    BY <2>0, <2>1 DEF Sums
  <2>2. CASE F # {}
    <3>. DEFINE R == F \ {Pick(F)}
    <3>1. Pick(F) \in F /\ R \in SUBSET E /\ R # E /\ R \in SUBSET F
      BY <1>4, <2>2
    <3>2. Sums(S, R, G(R)) /\ F \in FiniteSubsetsOf(Files)
      BY <1>3, <3>1, <1>1, PartFinite
    <3>3. G(F)[R] = G(R)[R]
      BY <2>0, <3>1, <3>2, SumsAgree
    <3>4. G(F)[F] = S[Pick(F)] + G(F)[R]
      BY <2>0, <2>2 DEF Sums
    <3>5. h[F] = S[Pick(F)] + G(R)[R]
      BY <2>2
    <3>6. G(F)[F] \in Nat
      BY <2>0
    <3>. QED
      BY <3>3, <3>4, <3>5, <3>6
  <2>. QED
    BY <2>1, <2>2
<1>6. Sums(S, E, h)
  <2>1. ASSUME NEW F \in SUBSET E, F # {}
        PROVE  G(F \ {Pick(F)})[F \ {Pick(F)}] = h[F \ {Pick(F)}]
    BY <2>1, <1>4, <1>5
  <2>2. h = [F \in SUBSET E |-> IF F = {} THEN 0 ELSE S[Pick(F)] + h[F \ {Pick(F)}]]
    BY <2>1
  <2>. HIDE DEF h
  <2>. QED
    BY <2>2 DEF Sums
<1>7. h \in [SUBSET E -> Nat]
  <2>1. ASSUME NEW F \in SUBSET E PROVE h[F] \in Nat
    <3>1. CASE F = {}
      BY <3>1
    <3>2. CASE F # {}
      <4>0. Pick(F) \in F /\ F \ {Pick(F)} \in SUBSET E /\ F \ {Pick(F)} # E
        BY <1>4, <3>2
      <4>a. E \in SUBSET Files
        BY <1>1 DEF FiniteSubsetsOf
      <4>b. G(F \ {Pick(F)}) \in [SUBSET (F \ {Pick(F)}) -> Nat]
        BY <4>0, <1>3
      <4>1. G(F \ {Pick(F)})[F \ {Pick(F)}] \in Nat /\ Pick(F) \in Files
        BY <4>0, <4>a, <4>b
      <4>2. S[Pick(F)] \in Nat
        BY <4>1
      <4>3. h[F] = S[Pick(F)] + G(F \ {Pick(F)})[F \ {Pick(F)}]
        BY <3>2
      <4>. HIDE DEF h
      <4>. QED
        BY <4>1, <4>2, <4>3
    <3>. QED
      BY <3>1, <3>2
  <2>. QED
    BY <2>1
<1>8. Has(E)
  <2>. HIDE DEF h
  <2>. QED
    BY <1>6, <1>7
<1>. QED
  BY <1>1, <1>8

LEMMA TotalIs ==
  ASSUME NEW S \in [Files -> Nat], NEW D \in FiniteSubsetsOf(Files)
  PROVE  \E g : Sums(S, D, g) /\ g \in [SUBSET D -> Nat] /\ Total(S, D) = g[D]
<1>. DEFINE c == CHOOSE g : Sums(S, D, g)
<1>1. Total(S, D) = c[D]
  BY DEF Total, MapThenSumSet, MapThenFoldSet, Sums, Pick
<1>2. PICK g : Sums(S, D, g) /\ g \in [SUBSET D -> Nat]
  BY SumsExist
<1>3. Sums(S, D, c)
  <2>. HIDE DEF Sums
  <2>. QED
    BY <1>2
<1>4. c[D] = g[D]
  <2>1. D \in SUBSET D
    OBVIOUS
  <2>. HIDE DEF c
  <2>. QED
    BY <1>2, <1>3, <2>1, SumsAgree
<1>. QED
  BY <1>1, <1>2, <1>4

LEMMA TotalNat ==
  ASSUME NEW S \in [Files -> Nat], NEW D \in FiniteSubsetsOf(Files)
  PROVE  Total(S, D) \in Nat
<1>1. PICK g : g \in [SUBSET D -> Nat] /\ Total(S, D) = g[D]
  BY TotalIs
<1>. QED
  BY <1>1

LEMMA TotalPick ==
  ASSUME NEW S \in [Files -> Nat], NEW D \in FiniteSubsetsOf(Files), D # {}
  PROVE  Total(S, D) = S[Pick(D)] + Total(S, D \ {Pick(D)})
<1>. DEFINE R == D \ {Pick(D)}
<1>0. Pick(D) \in D /\ R \in SUBSET D /\ R \in FiniteSubsetsOf(Files)
  BY PickIn, PartFinite
<1>1. PICK g : Sums(S, D, g) /\ g \in [SUBSET D -> Nat] /\ Total(S, D) = g[D]
  BY TotalIs
<1>2. PICK h : Sums(S, R, h) /\ Total(S, R) = h[R]
  BY TotalIs, <1>0
<1>3. g[R] = h[R]
  BY <1>0, <1>1, <1>2, SumsAgree
<1>4. g[D] = S[Pick(D)] + g[R]
  BY <1>1 DEF Sums
<1>. QED
  BY <1>1, <1>2, <1>3, <1>4

(* A file that leaves the set takes its size off the sum, whichever it is. *)
LEMMA TotalRemove ==
  ASSUME NEW S \in [Files -> Nat], NEW D \in FiniteSubsetsOf(Files), NEW p \in D
  PROVE  Total(S, D) = S[p] + Total(S, D \ {p})
<1>. DEFINE T == {E \in FiniteSubsetsOf(Files) :
                    \E q \in E : Total(S, E) # S[q] + Total(S, E \ {q})}
<1>. SUFFICES ASSUME T # {} PROVE FALSE
  OBVIOUS
<1>1. PICK E \in T : \A F \in SUBSET E : F # E => F \notin T
  <2>1. T \subseteq FiniteSubsetsOf(Files)
    OBVIOUS
  <2>. HIDE DEF T
  <2>. QED
    BY <2>1, LeastSet
<1>2. PICK q \in E : Total(S, E) # S[q] + Total(S, E \ {q})
  BY <1>1
<1>. DEFINE c == Pick(E)
            R == E \ {c}
            Q == E \ {q}
<1>3. E \in FiniteSubsetsOf(Files) /\ c \in E /\ Total(S, E) = S[c] + Total(S, R)
  BY <1>1, PickIn, TotalPick
<1>4. c # q
  BY <1>2, <1>3
<1>5. /\ R \in FiniteSubsetsOf(Files) /\ R \notin T /\ q \in R
      /\ Q \in FiniteSubsetsOf(Files) /\ Q \notin T /\ c \in Q
      /\ R \ {q} = Q \ {c} /\ R \ {q} \in FiniteSubsetsOf(Files)
  BY <1>1, <1>3, <1>4, PartFinite
<1>6. Total(S, R) = S[q] + Total(S, R \ {q})
  BY <1>5
<1>7. Total(S, Q) = S[c] + Total(S, Q \ {c})
  BY <1>5
<1>8. S[c] \in Nat /\ S[q] \in Nat /\ Total(S, R \ {q}) \in Nat
  <2>1. c \in Files /\ q \in Files
    BY <1>3 DEF FiniteSubsetsOf
  <2>. QED
    BY <2>1, <1>5, TotalNat
<1>9. Total(S, E) = S[c] + (S[q] + Total(S, R \ {q})) /\ Total(S, Q) = S[c] + Total(S, R \ {q})
  BY <1>3, <1>5, <1>6, <1>7
<1>10. Total(S, E) = S[q] + Total(S, Q)
  BY <1>8, <1>9, SMT
<1>. QED
  BY <1>2, <1>10

(* The sum depends on the sizes of the files in the set alone. *)
LEMMA TotalSame ==
  ASSUME NEW S \in [Files -> Nat], NEW R \in [Files -> Nat], NEW D \in FiniteSubsetsOf(Files),
         \A p \in D : S[p] = R[p]
  PROVE  Total(S, D) = Total(R, D)
<1>1. PICK g : Sums(S, D, g) /\ Total(S, D) = g[D]
  BY TotalIs
<1>2. PICK h : Sums(R, D, h) /\ Total(R, D) = h[D]
  BY TotalIs
<1>3. ASSUME NEW E \in SUBSET D, E # {} PROVE S[Pick(E)] = R[Pick(E)]
  BY <1>3, PickIn
<1>4. Sums(R, D, g)
  BY <1>1, <1>3 DEF Sums
<1>5. D \in SUBSET D
  OBVIOUS
<1>. QED
  BY <1>1, <1>2, <1>4, <1>5, SumsAgree

LEMMA SpaceLeftIs ==
  SpaceLeft = Capacity - Total(held, disk) /\ SpaceLeft' = Capacity - Total(held', disk')
BY DEF SpaceLeft, Total, MapThenSumSet, MapThenFoldSet

-----------------------------------------------------------------------------
(* The types, in the parts different steps change.                         *)

VolumeTypes ==
  /\ disk \subseteq Files /\ IsFiniteSet(disk) /\ held \in [Files -> Nat]
  /\ mounted \in BOOLEAN /\ loose \subseteq Files /\ grown \subseteq Files

Places == {"idle", "list", "loop", "mark", "copy", "copied", "marked", "gone", "done"}

ListTypes ==
  /\ pc \in [Evictors -> Places]
  /\ pc["worker"] \in {"idle", "list", "loop", "mark", "copy", "copied", "marked", "gone"}
  /\ pc["cli"] \in {"idle", "list", "loop", "mark", "done"}
  /\ victims \in [Evictors -> SUBSET Victim]
  /\ \A e \in Evictors : pc[e] \notin {"loop", "mark"} => victims[e] = {}
  /\ victim \in [Evictors -> Victim \cup {None}]
  /\ \A e \in Evictors : victim[e] # None <=> pc[e] = "mark"

(* The worker evicts only against a free space it knows. *)
WorkerTypes ==
  /\ current \in Files \cup {None} /\ (current = None <=> pc["worker"] = "idle")
  /\ required \in Nat /\ measured \in Nat /\ free \in Int \cup {None}
  /\ pc["worker"] \in {"list", "loop", "mark"} => free # None
  /\ stuck \subseteq Files /\ guessed \in BOOLEAN

CliTypes ==
  /\ goal \in Nat /\ freed \in Nat /\ really \in Nat
  /\ now \in 0..MaxAccess /\ frees \in 0..MaxFrees /\ upsets \in 0..MaxUpsets
  /\ alone \in BOOLEAN /\ exact \in BOOLEAN

SpaceTypes == IndexInv /\ VolumeTypes /\ ListTypes /\ WorkerTypes /\ CliTypes

LEMMA TypesAreTypes == SpaceTypes => TypeOK
BY DEF SpaceTypes, VolumeTypes, ListTypes, WorkerTypes, CliTypes, TypeOK, IndexInv

(* An empty volume, an empty index, nobody at work. *)
LEMMA InitTypes == Init => SpaceTypes
<1>. SUFFICES ASSUME Init PROVE SpaceTypes
  OBVIOUS
<1>1. IndexInv
  BY IndexInitInv DEF Init
<1>2. VolumeTypes
  BY FS_EmptySet DEF Init, VolumeTypes
<1>3. ListTypes
  <2>1. /\ pc = [e \in Evictors |-> "idle"] /\ victims = [e \in Evictors |-> {}]
        /\ victim = [e \in Evictors |-> None]
    BY DEF Init
  <2>. QED
    BY <2>1 DEF ListTypes, Evictors, Places
<1>4. WorkerTypes
  <2>1. /\ pc = [e \in Evictors |-> "idle"] /\ current = None /\ required = 0 /\ free = None
        /\ measured = 0 /\ stuck = {} /\ guessed \in BOOLEAN
    BY DEF Init
  <2>. QED
    BY <2>1 DEF WorkerTypes, Evictors
<1>5. CliTypes
  <2>1. /\ goal = 0 /\ freed = 0 /\ really = 0 /\ now = 0 /\ frees = 0 /\ upsets = 0
        /\ alone \in BOOLEAN /\ exact \in BOOLEAN
    BY DEF Init
  <2>. QED
    BY <2>1, SpaceAssumption DEF CliTypes
<1>. QED
  BY <1>1, <1>2, <1>3, <1>4, <1>5 DEF SpaceTypes

(* What the worker is told is a number or None, never a number that is not one. *)
LEMMA FreeBytesType ==
  ASSUME VolumeTypes
  PROVE  SpaceLeft \in Int /\ FreeBytes \in Int \cup {None} /\ (mounted => FreeBytes # None)
<1>1. disk \in FiniteSubsetsOf(Files)
  BY DEF VolumeTypes, FiniteSubsetsOf
<1>2. SpaceLeft \in Int
  BY <1>1, TotalNat, SpaceLeftIs, SpaceAssumption
<1>. QED
  BY <1>2, SpaceAssumption DEF FreeBytes

(* A victim is taken from the list, an evictor from its place. *)
LEMMA ChosenIs ==
  ASSUME ListTypes, NEW e \in Evictors, NEW v \in victims[e], Chosen(e, v)
  PROVE  /\ v \in Victim /\ v.path \in Files /\ v.size \in Nat
         /\ victims' = [victims EXCEPT ![e] = @ \ {v}]
BY DEF ListTypes, Chosen, Victim

(* The worker's place has a file, the one marked a path and a size. *)
LEMMA PlaceIs ==
  ASSUME ListTypes, WorkerTypes
  PROVE  /\ pc["worker"] # "idle" => current \in Files
         /\ \A e \in Evictors : pc[e] = "mark" => victim[e] \in Victim /\ victim[e].path \in Files
                                                  /\ victim[e].size \in Nat
BY DEF ListTypes, WorkerTypes, Victim

(* Each step runs one statement of the index, or none. *)
LEMMA IndexStep == SpaceTypes /\ [Next]_vars => IndexInv'
<1>. SUFFICES ASSUME SpaceTypes, [Next]_vars PROVE IndexInv'
  OBVIOUS
<1>0. IndexInv /\ ListTypes /\ WorkerTypes /\ CliTypes
  BY DEF SpaceTypes
<1>1. ASSUME NEW p \in Files, Access(p) PROVE IndexInv'
  <2>1. PICK hint \in Hints[p] : RecordAccess(p, "ReadOpen", now', hint, 0)
    BY <1>1 DEF Access
  <2>2. hint \in Nat /\ now' \in Nat
    BY <1>0, <1>1, SpaceAssumption DEF Access, CliTypes
  <2>. QED
    BY <1>0, <2>1, <2>2, RecordAccessInv
<1>2. ASSUME NEW e \in Evictors, Mark(e) PROVE IndexInv'
  <2>1. victim[e].path \in Files /\ MarkRemoved(victim[e].path)
    BY <1>0, <1>2, PlaceIs DEF Mark, Goto
  <2>. QED
    BY <1>0, <2>1, MarkRemovedInv
<1>3. CASE MarkCopied
  <2>1. current \in Files /\ measured \in Nat
    BY <1>0, <1>3, PlaceIs DEF MarkCopied, Goto, WorkerTypes
  <2>. QED
    BY <1>0, <1>3, <2>1, MarkCachedInv DEF MarkCopied
<1>4. CASE DropJob
  <2>1. current \in Files
    BY <1>0, <1>4, PlaceIs DEF DropJob, Goto
  <2>. QED
    BY <1>0, <1>4, <2>1, RemovePendingJobInv DEF DropJob
<1>5. ASSUME NEW p \in Files, CleanUp(p) PROVE IndexInv'
  BY <1>0, <1>5, DeleteRecordInv DEF CleanUp
<1>12. ASSUME NEW p \in Files, Delete(p) PROVE IndexInv'
  BY <1>0, <1>12, MarkRemovedInv DEF Delete
<1>13. CASE MarkGone
  <2>1. current \in Files
    BY <1>0, <1>13, PlaceIs DEF MarkGone, Goto
  <2>. QED
    BY <1>0, <1>13, <2>1, MarkRemovedInv DEF MarkGone
<1>6. ASSUME UNCHANGED indexVars PROVE IndexInv'
  BY <1>0, <1>6, IndexStutterInv
<1>7. ASSUME NEW p \in Files, TakeJob(p) PROVE IndexInv'
  BY <1>6, <1>7 DEF TakeJob
<1>8. ASSUME NEW request \in Requests, CallFree(request) PROVE IndexInv'
  BY <1>6, <1>8 DEF CallFree
<1>9. ASSUME NEW e \in Evictors, List(e) \/ EndLoop(e) \/ Dies(e) PROVE IndexInv'
  BY <1>6, <1>9 DEF List, EndLoop, Dies
<1>10. ASSUME NEW e \in Evictors, NEW v \in victims[e], RemoveFile(e, v) \/ RemoveFails(e, v)
       PROVE  IndexInv'
  BY <1>6, <1>10 DEF RemoveFile, RemoveFails
<1>11. CASE Report \/ Copy \/ CopyFails \/ SourceGone \/ (\E there \in BOOLEAN : Mounts(there))
            \/ UNCHANGED vars
  BY <1>6, <1>11 DEF Report, Copy, CopyFails, SourceGone, Mounts, vars, indexVars
<1>. QED
  BY <1>1, <1>2, <1>3, <1>4, <1>5, <1>7, <1>8, <1>9, <1>10, <1>11, <1>12, <1>13
     DEF Next, Work, Upset

LEMMA UnlinkTypes ==
  ASSUME VolumeTypes, NEW p \in Files, Unlink(p), loose' = loose \/ loose' = loose \cup {p}
  PROVE  VolumeTypes'
<1>1. IsFiniteSet(disk \ {p})
  BY FS_RemoveElement DEF VolumeTypes
<1>2. [held EXCEPT ![p] = 0] \in [Files -> Nat]
  BY DEF VolumeTypes
<1>3. disk' \subseteq Files /\ IsFiniteSet(disk') /\ held' \in [Files -> Nat] /\ mounted' = mounted
  BY <1>1, <1>2 DEF VolumeTypes, Unlink
<1>4. grown' \subseteq Files /\ loose' \subseteq Files /\ mounted \in BOOLEAN
  BY DEF VolumeTypes, Unlink
<1>. QED
  BY <1>3, <1>4 DEF VolumeTypes

LEMMA VolumeStep == SpaceTypes /\ [Next]_vars => VolumeTypes'
<1>. SUFFICES ASSUME SpaceTypes, [Next]_vars PROVE VolumeTypes'
  OBVIOUS
<1>0. VolumeTypes /\ ListTypes /\ WorkerTypes
  BY DEF SpaceTypes
<1>1. ASSUME NEW p \in Files, Access(p) \/ TakeJob(p) PROVE VolumeTypes'
  BY <1>0, <1>1 DEF Access, TakeJob, VolumeTypes, spaceVars
<1>2. ASSUME NEW request \in Requests, CallFree(request) PROVE VolumeTypes'
  BY <1>0, <1>2 DEF CallFree, VolumeTypes, spaceVars
<1>3. ASSUME NEW e \in Evictors, List(e) \/ Mark(e) \/ EndLoop(e) PROVE VolumeTypes'
  BY <1>0, <1>3 DEF List, Mark, EndLoop, VolumeTypes, spaceVars
<1>4. ASSUME NEW e \in Evictors, NEW v \in victims[e], RemoveFile(e, v) PROVE VolumeTypes'
  <2>1. v.path \in Files
    BY <1>0, <1>4, ChosenIs DEF RemoveFile
  <2>2. /\ Unlink(v.path)
        /\ loose' = IF v.path \in disk' \/ Crossed(e, v.path) THEN loose \cup {v.path} ELSE loose
    BY <1>4 DEF RemoveFile
  <2>. QED
    BY <1>0, <2>1, <2>2, UnlinkTypes
<1>5. ASSUME NEW e \in Evictors, NEW v \in victims[e], RemoveFails(e, v) PROVE VolumeTypes'
  BY <1>0, <1>5 DEF RemoveFails, VolumeTypes, spaceVars
<1>6. CASE Copy
  <2>1. current \in Files
    BY <1>0, <1>6, PlaceIs DEF Copy, Goto
  <2>2. IsFiniteSet(disk \cup {current})
    BY <1>0, FS_AddElement DEF VolumeTypes
  <2>3. \A size \in Nat : [held EXCEPT ![current] = size] \in [Files -> Nat]
    BY <1>0 DEF VolumeTypes
  <2>4. Sizes[current] \subseteq Nat
    BY <2>1, SpaceAssumption
  <2>5. /\ disk' \in {disk, disk \cup {current}} /\ held' \in [Files -> Nat]
        /\ grown' \subseteq grown \cup {current}
    BY <1>0, <1>6, <2>3, <2>4 DEF Copy, Skipped, Replaced, VolumeTypes
  <2>6. mounted' = mounted /\ loose' \subseteq loose \cup {current}
    BY <1>6 DEF Copy
  <2>. QED
    BY <1>0, <2>1, <2>2, <2>5, <2>6 DEF VolumeTypes
<1>7. CASE Report \/ CopyFails \/ MarkCopied \/ DropJob \/ MarkGone \/ UNCHANGED vars
  BY <1>0, <1>7 DEF Report, CopyFails, MarkCopied, DropJob, MarkGone, vars, VolumeTypes, spaceVars
<1>11. CASE SourceGone
  <2>1. current \in Files
    BY <1>0, <1>11, PlaceIs DEF SourceGone, Goto
  <2>2. Unlink(current) /\ (loose' = loose \/ loose' = loose \cup {current})
    BY <1>11 DEF SourceGone
  <2>. QED
    BY <1>0, <2>1, <2>2, UnlinkTypes
<1>12. ASSUME NEW p \in Files, Delete(p) PROVE VolumeTypes'
  BY <1>0, <1>12 DEF Delete, VolumeTypes, spaceVars
<1>8. CASE (\E there \in BOOLEAN : Mounts(there))
  BY <1>0, <1>8 DEF Mounts, VolumeTypes
<1>9. ASSUME NEW p \in Files, CleanUp(p) PROVE VolumeTypes'
  BY <1>0, <1>9 DEF CleanUp, VolumeTypes, spaceVars
<1>10. ASSUME NEW e \in Evictors, Dies(e) PROVE VolumeTypes'
  <2>1. Middle(e) \subseteq Files
    <3>1. CASE pc[e] = "mark"
      BY <1>0, <3>1, PlaceIs DEF Middle
    <3>2. CASE pc[e] \in {"copied", "gone"}
      <4>1. e = "worker"
        BY <1>0, <3>2 DEF ListTypes, Evictors
      <4>. QED
        BY <1>0, <3>2, <4>1, PlaceIs DEF Middle
    <3>3. CASE pc[e] \notin {"mark", "copied", "gone"}
      BY <3>3 DEF Middle
    <3>. QED
      BY <3>1, <3>2, <3>3
  <2>. QED
    BY <1>0, <1>10, <2>1 DEF Dies, VolumeTypes, spaceVars
<1>. QED
  BY <1>1, <1>2, <1>3, <1>4, <1>5, <1>6, <1>7, <1>8, <1>9, <1>10, <1>11, <1>12
     DEF Next, Work, Upset

LEMMA ListStep == SpaceTypes /\ [Next]_vars => ListTypes'
<1>. SUFFICES ASSUME SpaceTypes, [Next]_vars PROVE ListTypes'
  OBVIOUS
<1>0. IndexTypeOK /\ ListTypes /\ WorkerTypes
  BY DEF SpaceTypes, IndexInv
<1>. USE DEF ListTypes, Evictors, Places
<1>1. ASSUME NEW p \in Files, Access(p) \/ Delete(p) \/ CleanUp(p) PROVE ListTypes'
  BY <1>0, <1>1 DEF Access, Delete, CleanUp
<1>2. ASSUME NEW p \in Files, TakeJob(p) PROVE ListTypes'
  BY <1>0, <1>2 DEF TakeJob, Goto
<1>3. ASSUME NEW request \in Requests, CallFree(request) PROVE ListTypes'
  BY <1>0, <1>3 DEF CallFree, Goto
<1>4. ASSUME NEW e \in Evictors, List(e) PROVE ListTypes'
  <2>1. ASSUME NEW p \in CachedPaths
        PROVE  [path |-> p, seen |-> rows[p].seen, size |-> rows[p].cachedSize] \in Victim
    BY <1>0, <2>1 DEF CachedPaths, HasRow, IndexTypeOK, Row, Victim
  <2>2. /\ Goto(e, "list", "loop") /\ UNCHANGED victim
        /\ \E L \in SUBSET Victim : victims' = [victims EXCEPT ![e] = L]
    BY <1>4, <2>1 DEF List
  <2>. QED
    BY <1>0, <2>2 DEF Goto
<1>5. ASSUME NEW e \in Evictors, NEW v \in victims[e], RemoveFile(e, v) PROVE ListTypes'
  <2>1. /\ v \in Victim /\ victims' = [victims EXCEPT ![e] = @ \ {v}] /\ Goto(e, "loop", "mark")
        /\ victim' = [victim EXCEPT ![e] = v] /\ v # None
    BY <1>0, <1>5, SpaceAssumption DEF RemoveFile, Chosen
  <2>. QED
    BY <1>0, <2>1 DEF Goto
<1>6. ASSUME NEW e \in Evictors, NEW v \in victims[e], RemoveFails(e, v) PROVE ListTypes'
  BY <1>0, <1>6 DEF RemoveFails, Chosen, Goto
<1>7. ASSUME NEW e \in Evictors, Mark(e) PROVE ListTypes'
  <2>1. Goto(e, "mark", "loop") /\ victim' = [victim EXCEPT ![e] = None] /\ UNCHANGED victims
    BY <1>7 DEF Mark
  <2>. QED
    BY <1>0, <2>1 DEF Goto
<1>8. ASSUME NEW e \in Evictors, EndLoop(e) PROVE ListTypes'
  <2>1. /\ Goto(e, "loop", IF e = "worker" THEN "copy" ELSE "done")
        /\ victims' = [victims EXCEPT ![e] = {}] /\ UNCHANGED victim
    BY <1>8 DEF EndLoop
  <2>. QED
    BY <1>0, <2>1 DEF Goto
<1>9. ASSUME NEW e \in Evictors, Dies(e) PROVE ListTypes'
  <2>1. /\ pc' = [pc EXCEPT ![e] = "idle"] /\ victims' = [victims EXCEPT ![e] = {}]
        /\ victim' = [victim EXCEPT ![e] = None]
    BY <1>9 DEF Dies
  <2>. QED
    BY <1>0, <2>1
<1>10. CASE Report \/ Copy \/ CopyFails \/ MarkCopied \/ DropJob \/ SourceGone \/ MarkGone
  BY <1>0, <1>10 DEF Report, Copy, CopyFails, MarkCopied, DropJob, SourceGone, MarkGone, Goto
<1>11. CASE (\E there \in BOOLEAN : Mounts(there)) \/ UNCHANGED vars
  BY <1>0, <1>11 DEF Mounts, vars
<1>. QED
  BY <1>1, <1>2, <1>3, <1>4, <1>5, <1>6, <1>7, <1>8, <1>9, <1>10, <1>11 DEF Next, Work, Upset

LEMMA WorkerStep == SpaceTypes /\ [Next]_vars => WorkerTypes'
<1>. SUFFICES ASSUME SpaceTypes, [Next]_vars PROVE WorkerTypes'
  OBVIOUS
<1>0. /\ IndexTypeOK /\ VolumeTypes /\ ListTypes /\ WorkerTypes
      /\ pc \in [Evictors -> Places] /\ mounted \in BOOLEAN
      /\ FreeBytes \in Int \cup {None} /\ (mounted => FreeBytes # None)
  BY FreeBytesType DEF SpaceTypes, IndexInv, ListTypes, VolumeTypes
<1>a. None \notin Int /\ None \notin Files
  BY SpaceAssumption
<1>. USE DEF WorkerTypes, workerVars, Evictors, Places
<1>1. ASSUME NEW p \in Files, Access(p) \/ Delete(p) \/ CleanUp(p) PROVE WorkerTypes'
  BY <1>0, <1>1 DEF Access, Delete, CleanUp
<1>2. ASSUME NEW p \in Files, TakeJob(p) PROVE WorkerTypes'
  <2>1. RequiredFor(p) \in Nat
    BY <1>0, <1>2, SpaceAssumption DEF TakeJob, RequiredFor, HasRow, IndexTypeOK, Row
  <2>2. /\ pc' = [pc EXCEPT !["worker"] = IF FreeBytes = None \/ FreeBytes >= RequiredFor(p)
                                         THEN "copy" ELSE "list"]
        /\ current' = p /\ required' = RequiredFor(p) /\ free' = FreeBytes /\ stuck' = {}
        /\ guessed' \in BOOLEAN /\ measured' = 0
    BY <1>2 DEF TakeJob, Goto
  <2>. QED
    BY <1>0, <1>a, <2>1, <2>2
<1>3. ASSUME NEW request \in Requests, CallFree(request) PROVE WorkerTypes'
  BY <1>0, <1>3 DEF CallFree, Goto
<1>4. ASSUME NEW e \in Evictors, List(e) \/ EndLoop(e) PROVE WorkerTypes'
  BY <1>0, <1>4 DEF List, EndLoop, Goto
<1>5. ASSUME NEW e \in Evictors, NEW v \in victims[e], RemoveFile(e, v) PROVE WorkerTypes'
  BY <1>0, <1>5 DEF RemoveFile, Goto
<1>6. ASSUME NEW e \in Evictors, NEW v \in victims[e], RemoveFails(e, v) PROVE WorkerTypes'
  <2>1. v.path \in Files
    BY <1>0, <1>6, ChosenIs DEF RemoveFails
  <2>2. /\ Goto(e, "loop", "loop") /\ UNCHANGED <<current, required, free, measured, guessed>>
        /\ stuck' \subseteq stuck \cup {v.path}
    BY <1>6 DEF RemoveFails
  <2>. QED
    BY <1>0, <2>1, <2>2 DEF Goto
<1>7. ASSUME NEW e \in Evictors, Mark(e) PROVE WorkerTypes'
  <2>1. e = "worker" => victim[e].size \in Nat
    BY <1>0, <1>7, PlaceIs DEF Mark, Goto
  <2>2. (free' \in Int /\ guessed' \in BOOLEAN) \/ UNCHANGED <<free, guessed>>
    <3>1. CASE e = "worker"
      <4>1. free' = IF mounted THEN FreeBytes ELSE free + victim[e].size
        BY <1>7, <3>1 DEF Mark
      <4>2. guessed' \in BOOLEAN
        BY <1>7, <3>1 DEF Mark
      <4>3. free \in Int
        BY <1>0, <1>7, <3>1 DEF Mark, Goto
      <4>. QED
        BY <1>0, <2>1, <3>1, <4>1, <4>2, <4>3
    <3>2. CASE e # "worker"
      BY <1>7, <3>2 DEF Mark
    <3>. QED
      BY <3>1, <3>2
  <2>3. Goto(e, "mark", "loop") /\ UNCHANGED <<current, required, measured, stuck>>
    BY <1>7 DEF Mark
  <2>. QED
    BY <1>0, <1>a, <2>2, <2>3 DEF Goto
<1>8. ASSUME NEW e \in Evictors, Dies(e) PROVE WorkerTypes'
  <2>1. /\ pc' = [pc EXCEPT ![e] = "idle"]
        /\ IF e = "worker"
           THEN /\ current' = None /\ required' = 0 /\ free' = None /\ measured' = 0
                /\ stuck' = {} /\ guessed' \in BOOLEAN
           ELSE UNCHANGED workerVars
    BY <1>8 DEF Dies, EndCopy
  <2>. QED
    BY <1>0, <2>1
<1>9. CASE CopyFails \/ DropJob \/ MarkGone
  <2>1. /\ pc' = [pc EXCEPT !["worker"] = "idle"] /\ current' = None /\ required' = 0
        /\ free' = None /\ measured' = 0 /\ stuck' = {} /\ guessed' \in BOOLEAN
    BY <1>9 DEF CopyFails, DropJob, MarkGone, EndCopy, Goto
  <2>. QED
    BY <1>0, <2>1
<1>10. CASE Report \/ MarkCopied \/ SourceGone
  BY <1>0, <1>10 DEF Report, MarkCopied, SourceGone, Goto
<1>12. CASE Copy
  <2>1. current \in Files /\ pc["worker"] = "copy"
    BY <1>0, <1>12, PlaceIs DEF Copy, Goto
  <2>2. measured' \in Nat
    BY <1>12, <2>1, SpaceAssumption DEF Copy
  <2>3. /\ pc' = [pc EXCEPT !["worker"] = "copied"]
        /\ UNCHANGED <<current, required, free, stuck, guessed>>
    BY <1>12 DEF Copy, Goto
  <2>. QED
    BY <1>0, <2>1, <2>2, <2>3
<1>11. CASE (\E there \in BOOLEAN : Mounts(there)) \/ UNCHANGED vars
  BY <1>0, <1>11 DEF Mounts, vars
<1>. QED
  BY <1>1, <1>2, <1>3, <1>4, <1>5, <1>6, <1>7, <1>8, <1>9, <1>10, <1>11, <1>12
     DEF Next, Work, Upset

(* A size that parses is a number of bytes. *)
LEMMA SizeParsed ==
  ASSUME NEW request \in Requests
  PROVE  ParseSizeBytes(request) \in Nat \cup {None}
<1>1. request.number \in Nat
  BY SpaceAssumption
<1>2. UnitMultiplier(request.unit) \in Nat \cup {None}
  <2>1. Kilo * Kilo \in Nat /\ Kilo * Kilo * Kilo \in Nat /\ Kilo * Kilo * Kilo * Kilo \in Nat
    BY SpaceAssumption, SMT
  <2>. QED
    BY <2>1, SpaceAssumption DEF UnitMultiplier
<1>. QED
  BY <1>1, <1>2 DEF ParseSizeBytes

LEMMA CliStep == SpaceTypes /\ [Next]_vars => CliTypes'
<1>. SUFFICES ASSUME SpaceTypes, [Next]_vars PROVE CliTypes'
  OBVIOUS
<1>0. /\ VolumeTypes /\ ListTypes /\ WorkerTypes /\ CliTypes /\ alone \in BOOLEAN
      /\ MaxAccess \in Nat /\ MaxFrees \in Nat /\ MaxUpsets \in Nat
  BY SpaceAssumption DEF SpaceTypes, CliTypes
<1>. USE DEF CliTypes, cliVars, Evictors
<1>1. ASSUME NEW p \in Files, Access(p), UNCHANGED upsets PROVE CliTypes'
  <2>1. alone' \in BOOLEAN /\ now < MaxAccess /\ now' = now + 1 /\ UNCHANGED cliVars
    BY <1>1 DEF Access
  <2>. QED
    BY <1>0, <1>1, <2>1
<1>2. ASSUME NEW p \in Files, TakeJob(p), UNCHANGED upsets PROVE CliTypes'
  BY <1>0, <1>2 DEF TakeJob
<1>3. ASSUME NEW request \in Requests, CallFree(request), UNCHANGED upsets PROVE CliTypes'
  <2>1. ParseSizeBytes(request) \in Nat
    BY <1>3, SizeParsed DEF CallFree
  <2>2. alone' \in BOOLEAN
    BY <1>3 DEF CallFree
  <2>3. /\ frees < MaxFrees /\ frees' = frees + 1 /\ goal' = ParseSizeBytes(request)
        /\ freed' = 0 /\ really' = 0 /\ exact' = TRUE /\ UNCHANGED now
    BY <1>3 DEF CallFree
  <2>. QED
    BY <1>0, <1>3, <2>1, <2>2, <2>3
<1>4. ASSUME NEW e \in Evictors, List(e) \/ EndLoop(e), UNCHANGED upsets PROVE CliTypes'
  BY <1>0, <1>4 DEF List, EndLoop
<1>5. ASSUME NEW e \in Evictors, NEW v \in victims[e], RemoveFile(e, v), UNCHANGED upsets
      PROVE  CliTypes'
  <2>1. v.path \in Files /\ held[v.path] \in Nat
    BY <1>0, <1>5, ChosenIs DEF RemoveFile, VolumeTypes
  <2>2. really' \in Nat
    BY <1>0, <1>5, <2>1 DEF RemoveFile
  <2>3. alone' \in BOOLEAN /\ exact' \in BOOLEAN
    BY <1>5 DEF RemoveFile
  <2>4. UNCHANGED <<goal, freed, frees, now>>
    BY <1>5 DEF RemoveFile
  <2>. QED
    BY <1>0, <1>5, <2>2, <2>3, <2>4
<1>6. ASSUME NEW e \in Evictors, NEW v \in victims[e], RemoveFails(e, v), UNCHANGED upsets
      PROVE  CliTypes'
  <2>1. alone' \in BOOLEAN /\ UNCHANGED <<goal, freed, really, exact, frees, now>>
    BY <1>6 DEF RemoveFails
  <2>. QED
    BY <1>0, <1>6, <2>1
<1>7. ASSUME NEW e \in Evictors, Mark(e), UNCHANGED upsets PROVE CliTypes'
  <2>1. victim[e].size \in Nat
    BY <1>0, <1>7, PlaceIs DEF Mark, Goto
  <2>2. freed' \in Nat /\ UNCHANGED <<goal, frees, really, exact, now, alone>>
    BY <1>0, <1>7, <2>1 DEF Mark
  <2>. QED
    BY <1>0, <1>7, <2>2
<1>8. ASSUME NEW e \in Evictors, Dies(e), upsets < MaxUpsets, upsets' = upsets + 1 PROVE CliTypes'
  <2>1. UNCHANGED <<now, frees>>
    BY <1>8 DEF Dies, EndFree
  <2>2. (goal' = 0 /\ freed' = 0 /\ really' = 0) \/ UNCHANGED <<goal, freed, really>>
    BY <1>8 DEF Dies, EndFree
  <2>3. alone' \in BOOLEAN /\ exact' \in BOOLEAN
    BY <1>0, <1>8 DEF Dies, EndFree
  <2>. QED
    BY <1>0, <1>8, <2>1, <2>2, <2>3
<1>9. CASE (Report \/ Copy \/ CopyFails \/ MarkCopied \/ DropJob \/ SourceGone \/ MarkGone
            \/ (\E there \in BOOLEAN : Mounts(there))) /\ upsets' \in 0..MaxUpsets
  <2>1. (goal' = 0 /\ freed' = 0 /\ really' = 0) \/ UNCHANGED <<goal, freed, really>>
    BY <1>9 DEF Report, Copy, CopyFails, MarkCopied, DropJob, SourceGone, MarkGone, Mounts, EndFree
  <2>2. UNCHANGED <<now, frees>>
    BY <1>9 DEF Report, Copy, CopyFails, MarkCopied, DropJob, SourceGone, MarkGone, Mounts, EndFree
  <2>3. alone' \in BOOLEAN /\ exact' \in BOOLEAN
    BY <1>0, <1>9
       DEF Report, Copy, CopyFails, MarkCopied, DropJob, SourceGone, MarkGone, Mounts, EndFree
  <2>. QED
    BY <1>0, <1>9, <2>1, <2>2, <2>3
<1>10. CASE UNCHANGED vars
  BY <1>0, <1>10 DEF vars
<1>11. ASSUME NEW p \in Files, Delete(p) \/ CleanUp(p), upsets' \in 0..MaxUpsets PROVE CliTypes'
  BY <1>0, <1>11 DEF Delete, CleanUp
<1>12. UNCHANGED upsets => upsets' \in 0..MaxUpsets
  BY <1>0
<1>13. upsets < MaxUpsets /\ upsets' = upsets + 1 => upsets' \in 0..MaxUpsets
  BY <1>0
<1>. QED
  BY <1>1, <1>2, <1>3, <1>4, <1>5, <1>6, <1>7, <1>8, <1>9, <1>10, <1>11, <1>12, <1>13
     DEF Next, Work, Upset

(* Every step keeps the types. *)
LEMMA TypesStep == SpaceTypes /\ [Next]_vars => SpaceTypes'
BY IndexStep, VolumeStep, ListStep, WorkerStep, CliStep DEF SpaceTypes

-----------------------------------------------------------------------------
(* Index and volume.                                                       *)

(* A file whose record goes next is gone, or is put up with; one whose     *)
(* record comes next is there, or is put up with, and has a record to      *)
(* update: the cleanup that deletes records runs before the worker does.   *)
Removed ==
  /\ \A e \in Evictors : pc[e] = "mark" => victim[e].path \in loose \/ victim[e].path \notin disk
  /\ pc["worker"] = "gone" => current \in loose \/ current \notin disk
Placed == pc["worker"] = "copied" => current \in loose \cup disk
Known == pc["worker"] # "idle" => HasRow(current)

AgreeInv == IndexAgrees /\ Removed /\ Placed /\ Known

LEMMA InitAgree == Init => AgreeInv
<1>. SUFFICES ASSUME Init PROVE AgreeInv
  OBVIOUS
<1>1. /\ pc = [e \in Evictors |-> "idle"] /\ disk = {} /\ rows = [p \in Files |-> None]
  BY DEF Init, IndexInit
<1>. QED
  BY <1>1 DEF AgreeInv, IndexAgrees, Removed, Placed, Known, HasRow, Evictors

(* Outside the files an evictor is at, index and volume agree. *)
LEMMA AgreesIs ==
  IndexAgrees <=> \A p \in Files : p \in loose \cup Middle("worker") \cup Middle("cli")
                                   \/ (p \in CachedPaths <=> p \in disk)
BY DEF IndexAgrees, CachedPaths

(* A step of an evictor that is not between volume and index, or of others. *)
LEMMA AgreeFrame ==
  ASSUME AgreeInv, ListTypes, UNCHANGED <<disk, loose, victim>>, CachedPaths' = CachedPaths,
         \A e \in Evictors : pc'[e] # pc[e] => {pc[e], pc'[e]} \cap {"mark", "copied", "gone"} = {},
         pc'["worker"] \in {"copied", "gone"} => current' = current,
         pc'["worker"] # "idle" => HasRow(current)'
  PROVE  AgreeInv'
<1>. USE DEF AgreeInv, Evictors
<1>1. Middle("worker")' = Middle("worker") /\ Middle("cli")' = Middle("cli")
  BY DEF Middle, ListTypes
<1>2. IndexAgrees'
  BY <1>1 DEF IndexAgrees, CachedPaths
<1>3. Removed' /\ Placed' /\ Known'
  BY DEF Removed, Placed, Known
<1>. QED
  BY <1>2, <1>3

LEMMA AgreeStep == SpaceTypes /\ AgreeInv /\ [Next]_vars => AgreeInv'
<1>. SUFFICES ASSUME SpaceTypes, AgreeInv, [Next]_vars PROVE AgreeInv'
  OBVIOUS
<1>0. IndexInv /\ VolumeTypes /\ ListTypes /\ WorkerTypes /\ CliTypes /\ ListTypes'
  BY ListStep DEF SpaceTypes
<1>a. Removed /\ Placed /\ Known /\ pc \in [Evictors -> Places]
  BY <1>0 DEF AgreeInv, ListTypes
<1>b. \A p \in Files : p \in loose \cup Middle("worker") \cup Middle("cli")
                       \/ (p \in CachedPaths <=> p \in disk)
  BY AgreesIs DEF AgreeInv
<1>c. /\ \A e \in Evictors : Middle(e) = IF pc[e] = "mark" THEN {victim[e].path}
                                         ELSE IF pc[e] \in {"copied", "gone"} THEN {current} ELSE {}
      /\ \A e \in Evictors : Middle(e)' = IF pc'[e] = "mark" THEN {victim'[e].path}
                                          ELSE IF pc'[e] \in {"copied", "gone"} THEN {current'} ELSE {}
  BY DEF Middle
<1>d. pc["cli"] \notin {"copied", "gone"}
  BY <1>0 DEF ListTypes
<1>. USE DEF Evictors
<1>1. ASSUME NEW p \in Files, Access(p) PROVE AgreeInv'
  <2>1. PICK hint \in Hints[p] : RecordAccess(p, "ReadOpen", now', hint, 0)
    BY <1>1 DEF Access
  <2>2. hint \in Nat /\ now' \in Nat
    BY <1>0, <1>1, SpaceAssumption DEF Access, CliTypes
  <2>3. CachedPaths' = CachedPaths /\ \A q \in Files : HasRow(q) => HasRow(q)'
    BY <1>0, <2>1, <2>2, AccessAsks, AccessRows
  <2>4. pc["worker"] # "idle" => HasRow(current)'
    BY <1>0, <1>a, <2>3, PlaceIs, <1>1 DEF Known, Access, workerVars
  <2>. QED
    BY <1>0, <1>1, <2>3, <2>4, AgreeFrame DEF Access, spaceVars, workerVars
<1>2. ASSUME UNCHANGED <<indexVars, disk, loose, victim>>,
             \A e \in Evictors : pc'[e] # pc[e] => {pc[e], pc'[e]} \cap {"mark", "copied", "gone"} = {},
             (current' = current /\ (pc'["worker"] # "idle" => pc["worker"] # "idle"))
               \/ (pc'["worker"] \notin {"copied", "gone"} /\ HasRow(current'))
               \/ pc'["worker"] = "idle"
      PROVE  AgreeInv'
  <2>1. CachedPaths' = CachedPaths /\ \A q : HasRow(q)' <=> HasRow(q)
    BY <1>2, StutterKeeps DEF HasRow, indexVars
  <2>2. pc'["worker"] # "idle" => HasRow(current')
    BY <1>a, <1>2 DEF Known
  <2>3. pc'["worker"] \in {"copied", "gone"} => current' = current
    BY <1>2
  <2>4. pc'["worker"] # "idle" => HasRow(current)'
    BY <1>2, <2>2 DEF HasRow, indexVars
  <2>. QED
    BY <1>0, <1>2, <2>1, <2>3, <2>4, AgreeFrame
<1>3. ASSUME NEW p \in Files, TakeJob(p) PROVE AgreeInv'
  <2>1. pc' = [pc EXCEPT !["worker"] = pc'["worker"]] /\ pc'["worker"] \in {"copy", "list"}
        /\ pc["worker"] = "idle"
    BY <1>a, <1>3 DEF TakeJob, Goto
  <2>2. UNCHANGED <<indexVars, disk, loose, victim>> /\ current' = p /\ HasRow(p)
    BY <1>3 DEF TakeJob, spaceVars
  <2>. QED
    BY <1>2, <1>a, <2>1, <2>2
<1>4. ASSUME NEW request \in Requests, CallFree(request) PROVE AgreeInv'
  BY <1>2, <1>a, <1>4 DEF CallFree, Goto, spaceVars, workerVars
<1>5. ASSUME NEW e \in Evictors, List(e) \/ EndLoop(e) PROVE AgreeInv'
  BY <1>2, <1>a, <1>5 DEF List, EndLoop, Goto, spaceVars, workerVars
<1>6. ASSUME NEW e \in Evictors, NEW v \in victims[e], RemoveFails(e, v) PROVE AgreeInv'
  BY <1>2, <1>a, <1>6 DEF RemoveFails, Goto, spaceVars
<1>7. CASE Report \/ CopyFails \/ (\E there \in BOOLEAN : Mounts(there)) \/ UNCHANGED vars
  BY <1>2, <1>a, <1>7
     DEF Report, CopyFails, Mounts, EndCopy, Goto, vars, spaceVars, workerVars, indexVars
<1>8. ASSUME NEW e \in Evictors, NEW v \in victims[e], RemoveFile(e, v) PROVE AgreeInv'
  <2>1. /\ pc[e] = "loop" /\ pc' = [pc EXCEPT ![e] = "mark"]
        /\ victim' = [victim EXCEPT ![e] = v] /\ victim \in [Evictors -> Victim \cup {None}]
        /\ v.path \in Files
    BY <1>0, <1>8, ChosenIs DEF RemoveFile, Goto, ListTypes
  <2>2. /\ disk' \subseteq disk /\ disk \ {v.path} \subseteq disk'
        /\ loose' = IF v.path \in disk' \/ Crossed(e, v.path) THEN loose \cup {v.path} ELSE loose
        /\ UNCHANGED <<rows, jobs, current>>
    BY <1>8 DEF RemoveFile, Unlink, indexVars, workerVars
  <2>3. CachedPaths' = CachedPaths /\ \A q : HasRow(q)' <=> HasRow(q)
    BY <2>2 DEF CachedPaths, HasRow
  <2>4. \A p \in Files : p \in (loose \cup Middle("worker") \cup Middle("cli"))'
                         \/ (p \in CachedPaths' <=> p \in disk')
    BY <1>a, <1>b, <1>c, <2>1, <2>2, <2>3
  <2>5. Removed'
    BY <1>a, <2>1, <2>2 DEF Removed
  <2>6. Placed'
    <3>1. CASE pc["worker"] = "copied" /\ current \in disk /\ current \notin disk'
      <4>1. e = "cli" /\ current = v.path
        BY <2>1, <2>2, <3>1
      <4>. QED
        BY <2>1, <2>2, <3>1, <4>1 DEF Placed, Crossed, Other
    <3>2. CASE ~(pc["worker"] = "copied" /\ current \in disk /\ current \notin disk')
      BY <1>a, <2>1, <2>2, <3>2 DEF Placed
    <3>. QED
      BY <3>1, <3>2
  <2>7. Known'
    BY <1>a, <2>1, <2>2, <2>3 DEF Known, HasRow
  <2>. QED
    BY <2>4, <2>5, <2>6, <2>7 DEF AgreeInv, IndexAgrees, CachedPaths
<1>9. ASSUME NEW e \in Evictors, Mark(e) PROVE AgreeInv'
  <2>1. /\ pc[e] = "mark" /\ pc' = [pc EXCEPT ![e] = "loop"]
        /\ victim' = [victim EXCEPT ![e] = None] /\ victim \in [Evictors -> Victim \cup {None}]
        /\ victim[e].path \in Files /\ MarkRemoved(victim[e].path)
        /\ UNCHANGED <<disk, loose, current>>
    BY <1>0, <1>9, PlaceIs DEF Mark, Goto, ListTypes, spaceVars
  <2>2. /\ CachedPaths' = CachedPaths \ {victim[e].path}
        /\ \A q \in Files : HasRow(q) => HasRow(q)'
    BY <1>0, <2>1, RemovedForgets, RemovedRows
  <2>3. victim[e].path \in loose \/ victim[e].path \notin disk
    BY <1>a, <2>1 DEF Removed
  <2>4. \A p \in Files : p \in (loose \cup Middle("worker") \cup Middle("cli"))'
                         \/ (p \in CachedPaths' <=> p \in disk')
    BY <1>a, <1>b, <1>c, <2>1, <2>2, <2>3
  <2>5. Removed' /\ Placed'
    BY <1>a, <2>1 DEF Removed, Placed
  <2>6. Known'
    <3>1. pc["worker"] # "idle" => current \in Files /\ HasRow(current)
      BY <1>0, <1>a, PlaceIs DEF Known
    <3>2. pc["worker"] # "idle" => rows'[current] # None
      BY <2>2, <3>1 DEF HasRow
    <3>. QED
      BY <1>a, <2>1, <3>2 DEF Known, HasRow
  <2>. QED
    BY <2>4, <2>5, <2>6 DEF AgreeInv, IndexAgrees, CachedPaths
<1>10. CASE Copy
  <2>1. /\ pc["worker"] = "copy" /\ pc' = [pc EXCEPT !["worker"] = "copied"]
        /\ current \in Files /\ disk' = disk \cup {current}
        /\ loose' = IF current \in Middle("cli") THEN loose \cup {current} ELSE loose \ {current}
        /\ UNCHANGED <<rows, jobs, victim, current>>
    BY <1>0, <1>10, PlaceIs DEF Copy, Skipped, Replaced, Goto, indexVars
  <2>2. CachedPaths' = CachedPaths /\ \A q : HasRow(q)' <=> HasRow(q)
    BY <2>1 DEF CachedPaths, HasRow
  <2>3. \A p \in Files : p \in (loose \cup Middle("worker") \cup Middle("cli"))'
                         \/ (p \in CachedPaths' <=> p \in disk')
    BY <1>a, <1>b, <1>c, <2>1, <2>2
  <2>4. Removed'
    BY <1>a, <1>c, <2>1 DEF Removed
  <2>5. Placed' /\ Known'
    BY <1>a, <2>1, <2>2 DEF Placed, Known, HasRow
  <2>. QED
    BY <2>3, <2>4, <2>5 DEF AgreeInv, IndexAgrees, CachedPaths
<1>11. CASE MarkCopied
  <2>1. /\ pc["worker"] = "copied" /\ pc' = [pc EXCEPT !["worker"] = "marked"]
        /\ current \in Files /\ measured \in Nat
        /\ MarkCached(current, measured, measured)
        /\ UNCHANGED <<disk, loose, victim, current>>
    BY <1>0, <1>11, PlaceIs DEF MarkCopied, Goto, WorkerTypes, spaceVars, workerVars
  <2>2. HasRow(current)
    BY <1>a, <2>1 DEF Known
  <2>3. /\ CachedPaths' = CachedPaths \cup {current}
        /\ HasRow(current)'
    BY <1>0, <2>1, <2>2, CachedShows, CachedRows
  <2>4. current \in loose \cup disk
    BY <1>a, <2>1 DEF Placed
  <2>5. \A p \in Files : p \in (loose \cup Middle("worker") \cup Middle("cli"))'
                         \/ (p \in CachedPaths' <=> p \in disk')
    BY <1>a, <1>b, <1>c, <2>1, <2>3, <2>4
  <2>6. Removed' /\ Placed'
    BY <1>a, <2>1 DEF Removed, Placed
  <2>7. Known'
    BY <2>1, <2>3 DEF Known, HasRow
  <2>. QED
    BY <2>5, <2>6, <2>7 DEF AgreeInv, IndexAgrees, CachedPaths
<1>12. CASE DropJob
  <2>1. /\ pc["worker"] = "marked" /\ pc' = [pc EXCEPT !["worker"] = "idle"]
        /\ current \in Files /\ RemovePendingJob(current)
        /\ UNCHANGED <<disk, loose, victim>>
    BY <1>0, <1>12, PlaceIs DEF DropJob, Goto, spaceVars
  <2>2. CachedPaths' = CachedPaths
    BY <1>0, <2>1, RemovalSettles
  <2>. QED
    BY <1>0, <1>a, <2>1, <2>2, AgreeFrame
<1>13. ASSUME NEW p \in Files, CleanUp(p) PROVE AgreeInv'
  <2>1. /\ pc["worker"] = "idle" /\ DeleteRecord(p) /\ loose' = loose \cup ({p} \cap disk)
        /\ UNCHANGED <<disk, pc, victim, current>>
    BY <1>13 DEF CleanUp, spaceVars, workerVars
  <2>2. CachedPaths' = CachedPaths \ {p}
    BY <1>0, <2>1, DeletedForgets
  <2>3. \A q \in Files : q \in (loose \cup Middle("worker") \cup Middle("cli"))'
                         \/ (q \in CachedPaths' <=> q \in disk')
    BY <1>b, <1>c, <2>1, <2>2
  <2>4. Removed' /\ Placed' /\ Known'
    BY <1>a, <2>1 DEF Removed, Placed, Known
  <2>. QED
    BY <2>3, <2>4 DEF AgreeInv, IndexAgrees, CachedPaths
<1>14. ASSUME NEW e \in Evictors, Dies(e) PROVE AgreeInv'
  <2>1. /\ pc' = [pc EXCEPT ![e] = "idle"] /\ loose' = loose \cup Middle(e)
        /\ victim' = [victim EXCEPT ![e] = None] /\ victim \in [Evictors -> Victim \cup {None}]
        /\ UNCHANGED <<rows, jobs, disk>>
    BY <1>0, <1>14 DEF Dies, ListTypes, indexVars, spaceVars
  <2>2. pc'["worker"] # "idle" => current' = current
    BY <1>a, <1>14, <2>1 DEF Dies, workerVars
  <2>3. CachedPaths' = CachedPaths /\ \A q : HasRow(q)' <=> HasRow(q)
    BY <2>1 DEF CachedPaths, HasRow
  <2>4. \A p \in Files : p \in (loose \cup Middle("worker") \cup Middle("cli"))'
                         \/ (p \in CachedPaths' <=> p \in disk')
    BY <1>a, <1>b, <1>c, <1>d, <2>1, <2>2, <2>3
  <2>5. Removed' /\ Placed' /\ Known'
    BY <1>a, <2>1, <2>2, <2>3 DEF Removed, Placed, Known, HasRow
  <2>. QED
    BY <2>4, <2>5 DEF AgreeInv, IndexAgrees, CachedPaths
<1>15. ASSUME NEW p \in Files, Delete(p) PROVE AgreeInv'
  <2>1. /\ MarkRemoved(p) /\ loose' = loose \cup (({p} \cap disk) \ Middle("worker"))
        /\ UNCHANGED <<disk, pc, victim, current>>
    BY <1>15 DEF Delete, spaceVars, workerVars
  <2>2. /\ CachedPaths' = CachedPaths \ {p}
        /\ \A q \in Files : HasRow(q) => HasRow(q)'
    BY <1>0, <2>1, RemovedForgets, RemovedRows
  <2>3. Middle("worker")' = Middle("worker") /\ Middle("cli")' = Middle("cli")
    BY <1>c, <2>1
  <2>4. \A q \in Files : q \in (loose \cup Middle("worker") \cup Middle("cli"))'
                         \/ (q \in CachedPaths' <=> q \in disk')
    BY <1>b, <2>1, <2>2, <2>3
  <2>5. Removed' /\ Placed'
    BY <1>a, <2>1 DEF Removed, Placed
  <2>6. Known'
    <3>1. pc["worker"] # "idle" => current \in Files /\ HasRow(current)
      BY <1>0, <1>a, PlaceIs DEF Known
    <3>2. pc["worker"] # "idle" => rows'[current] # None
      BY <2>2, <3>1 DEF HasRow
    <3>. QED
      BY <2>1, <3>2 DEF Known, HasRow
  <2>. QED
    BY <2>4, <2>5, <2>6 DEF AgreeInv, IndexAgrees, CachedPaths
<1>16. CASE SourceGone
  <2>1. /\ pc["worker"] = "copy" /\ pc' = [pc EXCEPT !["worker"] = "gone"]
        /\ disk' \subseteq disk /\ disk \ {current} \subseteq disk'
        /\ loose' = IF current \in disk' THEN loose \cup {current} ELSE loose
        /\ UNCHANGED <<rows, jobs, victim, current>>
    BY <1>16 DEF SourceGone, Unlink, Goto, indexVars, workerVars
  <2>2. CachedPaths' = CachedPaths /\ \A q : HasRow(q)' <=> HasRow(q)
    BY <2>1 DEF CachedPaths, HasRow
  <2>3. \A p \in Files : p \in (loose \cup Middle("worker") \cup Middle("cli"))'
                         \/ (p \in CachedPaths' <=> p \in disk')
    BY <1>a, <1>b, <1>c, <2>1, <2>2
  <2>4. Removed' /\ Placed' /\ Known'
    BY <1>a, <2>1, <2>2 DEF Removed, Placed, Known, HasRow
  <2>. QED
    BY <2>3, <2>4 DEF AgreeInv, IndexAgrees, CachedPaths
<1>17. CASE MarkGone
  <2>1. /\ pc["worker"] = "gone" /\ pc' = [pc EXCEPT !["worker"] = "idle"]
        /\ current \in Files /\ MarkRemoved(current) /\ UNCHANGED <<disk, loose, victim>>
    BY <1>0, <1>17, PlaceIs DEF MarkGone, Goto, spaceVars
  <2>2. CachedPaths' = CachedPaths \ {current}
    BY <1>0, <2>1, RemovedForgets
  <2>3. current \in loose \/ current \notin disk
    BY <1>a, <2>1 DEF Removed
  <2>4. \A p \in Files : p \in (loose \cup Middle("worker") \cup Middle("cli"))'
                         \/ (p \in CachedPaths' <=> p \in disk')
    BY <1>a, <1>b, <1>c, <2>1, <2>2, <2>3
  <2>5. Removed' /\ Placed' /\ Known'
    BY <1>a, <2>1 DEF Removed, Placed, Known
  <2>. QED
    BY <2>4, <2>5 DEF AgreeInv, IndexAgrees, CachedPaths
<1>. QED
  BY <1>1, <1>3, <1>4, <1>5, <1>6, <1>7, <1>8, <1>9, <1>10, <1>11, <1>12, <1>13, <1>14,
     <1>15, <1>16, <1>17
     DEF Next, Work, Upset

-----------------------------------------------------------------------------
(* Room for a copy.                                                        *)

(* The free space the worker counts with is there, as long as it was asked *)
(* for and not estimated: only the worker itself fills the volume.         *)
Counted ==
  pc["worker"] \in {"list", "loop", "copy"} /\ ~guessed /\ free # None => free <= SpaceLeft
MinWanted == pc["worker"] # "idle" => MinFree <= required

(* A cached file the worker has neither removed nor failed to remove is    *)
(* still on its list, unless it stopped with enough.                       *)
ListedPaths == {v.path : v \in victims["worker"]}
Listed ==
  pc["worker"] \in {"loop", "mark", "copy"} /\ free # None =>
    \/ pc["worker"] = "copy" /\ free >= required
    \/ CachedPaths \ {current} \subseteq stuck \cup ListedPaths \cup Middle("worker")

RoomInv == Counted /\ MinWanted /\ Listed

LEMMA RoomIsMade == SpaceTypes /\ RoomInv => RoomMade
<1>. SUFFICES ASSUME SpaceTypes, RoomInv, pc["worker"] = "copy", free # None, ~guessed
              PROVE  (SpaceLeft >= required /\ SpaceLeft >= MinFree)
                     \/ CachedPaths \ {current} \subseteq stuck
  BY DEF RoomMade
<1>1. /\ free \in Int /\ required \in Nat /\ MinFree \in Nat /\ SpaceLeft \in Int
      /\ victims["worker"] = {}
  BY FreeBytesType, SpaceAssumption DEF SpaceTypes, WorkerTypes, ListTypes, Evictors
<1>2. free <= SpaceLeft /\ MinFree <= required
  BY DEF RoomInv, Counted, MinWanted
<1>3. ListedPaths = {} /\ Middle("worker") = {}
  BY <1>1 DEF ListedPaths, Middle
<1>4. free >= required \/ CachedPaths \ {current} \subseteq stuck
  BY <1>3 DEF RoomInv, Listed
<1>. QED
  BY <1>1, <1>2, <1>4

LEMMA InitRoom == Init => RoomInv
<1>. SUFFICES ASSUME Init PROVE RoomInv
  OBVIOUS
<1>1. pc = [e \in Evictors |-> "idle"]
  BY DEF Init
<1>. QED
  BY <1>1 DEF RoomInv, Counted, MinWanted, Listed, Evictors

(* A file less on the volume is never less space. *)
LEMMA SpaceGrows ==
  ASSUME VolumeTypes, NEW p \in Files, Unlink(p)
  PROVE  SpaceLeft \in Int /\ SpaceLeft' \in Int /\ SpaceLeft <= SpaceLeft'
<1>1. /\ disk \in FiniteSubsetsOf(Files) /\ disk \ {p} \in FiniteSubsetsOf(Files)
      /\ Capacity \in Nat /\ held \in [Files -> Nat]
  BY PartFinite, SpaceAssumption, FS_Subset DEF VolumeTypes, FiniteSubsetsOf
<1>2. Total(held, disk) \in Nat /\ Total(held, disk \ {p}) \in Nat
  BY <1>1, TotalNat
<1>3. Total(held, disk \ {p}) <= Total(held, disk)
  <2>1. CASE p \in disk
    <3>1. Total(held, disk) = held[p] + Total(held, disk \ {p}) /\ held[p] \in Nat
      BY <1>1, <2>1, TotalRemove
    <3>. QED
      BY <1>2, <3>1
  <2>2. CASE p \notin disk
    <3>1. disk \ {p} = disk
      BY <2>2
    <3>. QED
      BY <1>2, <3>1
  <2>. QED
    BY <2>1, <2>2
<1>4. CASE mounted
  <2>1. disk' = disk \ {p} /\ held' = [held EXCEPT ![p] = 0]
    BY <1>4 DEF Unlink
  <2>2. held' \in [Files -> Nat] /\ \A q \in disk \ {p} : held'[q] = held[q]
    BY <1>1, <2>1 DEF VolumeTypes
  <2>3. Total(held', disk \ {p}) = Total(held, disk \ {p})
    BY <1>1, <2>2, TotalSame
  <2>. QED
    BY <1>1, <1>2, <1>3, <2>1, <2>3, SpaceLeftIs
<1>5. CASE ~mounted
  <2>1. UNCHANGED <<disk, held>>
    BY <1>5 DEF Unlink
  <2>. QED
    BY <1>1, <1>2, <2>1, SpaceLeftIs
<1>. QED
  BY <1>4, <1>5

LEMMA NumbersStep == SpaceTypes /\ RoomInv /\ [Next]_vars => Counted' /\ MinWanted'
<1>. SUFFICES ASSUME SpaceTypes, RoomInv, [Next]_vars PROVE Counted' /\ MinWanted'
  OBVIOUS
<1>0. /\ VolumeTypes /\ ListTypes /\ WorkerTypes /\ Counted /\ MinWanted /\ IndexTypeOK
      /\ pc \in [Evictors -> Places] /\ MinFree \in Nat
  BY SpaceAssumption DEF SpaceTypes, RoomInv, ListTypes, IndexInv
<1>a. free \in Int \cup {None}
  BY <1>0 DEF WorkerTypes
<1>. USE DEF Counted, MinWanted, Evictors
(* Other steps keep what the worker counts with, and the volume. *)
<1>1. ASSUME UNCHANGED <<disk, held, required, free, guessed>>,
             pc'["worker"] # pc["worker"] => pc["worker"] # "idle" /\
               (pc["worker"] \in {"list", "loop"} \/ pc'["worker"] \notin {"list", "loop", "copy"})
      PROVE  Counted' /\ MinWanted'
  <2>1. SpaceLeft' = SpaceLeft
    BY <1>1, SpaceLeftIs
  <2>. QED
    BY <1>0, <1>1, <2>1
<1>2. ASSUME pc'["worker"] = "idle" PROVE Counted' /\ MinWanted'
  BY <1>2
<1>3. ASSUME NEW p \in Files, Access(p) \/ Delete(p) \/ CleanUp(p) PROVE Counted' /\ MinWanted'
  BY <1>1, <1>3 DEF Access, Delete, CleanUp, spaceVars, workerVars
<1>4. ASSUME NEW p \in Files, TakeJob(p) PROVE Counted' /\ MinWanted'
  <2>1. rows[p].size \in Nat
    BY <1>0, <1>4 DEF TakeJob, HasRow, IndexTypeOK, Row
  <2>2. MinFree <= RequiredFor(p) /\ RequiredFor(p) \in Nat
    BY <1>0, <2>1 DEF RequiredFor
  <2>3. required' = RequiredFor(p) /\ free' = FreeBytes /\ UNCHANGED <<disk, held>>
    BY <1>4 DEF TakeJob, spaceVars
  <2>4. SpaceLeft' = SpaceLeft /\ SpaceLeft \in Int
    BY <1>0, <2>3, SpaceLeftIs, FreeBytesType
  <2>5. free' # None => free' = SpaceLeft
    BY <2>3 DEF FreeBytes
  <2>. QED
    BY <2>2, <2>3, <2>4, <2>5
<1>5. ASSUME NEW request \in Requests, CallFree(request) PROVE Counted' /\ MinWanted'
  BY <1>0, <1>1, <1>5 DEF CallFree, Goto, spaceVars, workerVars
<1>6. ASSUME NEW e \in Evictors, List(e) \/ EndLoop(e) PROVE Counted' /\ MinWanted'
  BY <1>0, <1>1, <1>6 DEF List, EndLoop, Goto, spaceVars, workerVars
<1>7. ASSUME NEW e \in Evictors, NEW v \in victims[e], RemoveFile(e, v) PROVE Counted' /\ MinWanted'
  <2>1. /\ pc' = [pc EXCEPT ![e] = "mark"] /\ pc[e] = "loop"
        /\ Unlink(v.path) /\ v.path \in Files
        /\ UNCHANGED <<required, free, guessed>>
    BY <1>0, <1>7, ChosenIs DEF RemoveFile, Goto, workerVars
  <2>2. SpaceLeft \in Int /\ SpaceLeft' \in Int /\ SpaceLeft <= SpaceLeft'
    BY <1>0, <2>1, SpaceGrows
  <2>3. pc'["worker"] # pc["worker"] => pc'["worker"] = "mark" /\ pc["worker"] = "loop"
    BY <1>0, <2>1
  <2>4. free # None => free \in Int
    BY <1>a
  <2>. QED
    BY <1>0, <2>1, <2>2, <2>3, <2>4
<1>8. ASSUME NEW e \in Evictors, NEW v \in victims[e], RemoveFails(e, v) PROVE Counted' /\ MinWanted'
  BY <1>0, <1>1, <1>8 DEF RemoveFails, Goto, spaceVars
<1>9. ASSUME NEW e \in Evictors, Mark(e) PROVE Counted' /\ MinWanted'
  <2>1. CASE e = "worker"
    <3>1. /\ pc["worker"] = "mark" /\ free' = IF mounted THEN FreeBytes ELSE free + victim[e].size
          /\ UNCHANGED <<disk, held, required>>
      BY <1>9, <2>1 DEF Mark, Goto, spaceVars
    <3>2. guessed' <=> ~mounted
      BY <1>9, <2>1 DEF Mark
    <3>3. SpaceLeft' = SpaceLeft /\ SpaceLeft \in Int
      BY <1>0, <3>1, SpaceLeftIs, FreeBytesType
    <3>4. ~guessed' => free' = SpaceLeft
      BY <3>1, <3>2 DEF FreeBytes
    <3>. QED
      BY <1>0, <3>1, <3>3, <3>4
  <2>2. CASE e # "worker"
    BY <1>0, <1>1, <1>9, <2>2 DEF Mark, Goto, spaceVars
  <2>. QED
    BY <2>1, <2>2
<1>10. CASE Copy \/ SourceGone
  <2>1. pc["worker"] = "copy" /\ pc'["worker"] \in {"copied", "gone"} /\ UNCHANGED required
    BY <1>0, <1>10 DEF Copy, SourceGone, Goto, workerVars
  <2>. QED
    BY <1>0, <2>1
<1>11. CASE MarkCopied
  BY <1>0, <1>1, <1>11 DEF MarkCopied, Goto, spaceVars, workerVars
<1>12. CASE CopyFails \/ DropJob \/ MarkGone
  BY <1>0, <1>2, <1>12 DEF CopyFails, DropJob, MarkGone, Goto
<1>13. CASE Report \/ (\E there \in BOOLEAN : Mounts(there)) \/ UNCHANGED vars
  BY <1>0, <1>1, <1>13 DEF Report, Mounts, Goto, vars, spaceVars, workerVars
<1>14. ASSUME NEW e \in Evictors, Dies(e) PROVE Counted' /\ MinWanted'
  <2>1. CASE e = "worker"
    BY <1>0, <1>2, <1>14, <2>1 DEF Dies
  <2>2. CASE e # "worker"
    BY <1>0, <1>1, <1>14, <2>2 DEF Dies, spaceVars, workerVars
  <2>. QED
    BY <2>1, <2>2
<1>. QED
  BY <1>3, <1>4, <1>5, <1>6, <1>7, <1>8, <1>9, <1>10, <1>11, <1>12, <1>13, <1>14
     DEF Next, Work, Upset

LEMMA ListedStep == SpaceTypes /\ RoomInv /\ [Next]_vars => Listed'
<1>. SUFFICES ASSUME SpaceTypes, RoomInv, [Next]_vars PROVE Listed'
  OBVIOUS
<1>0. /\ IndexInv /\ ListTypes /\ WorkerTypes /\ CliTypes /\ Listed
      /\ pc \in [Evictors -> Places] /\ victims \in [Evictors -> SUBSET Victim]
      /\ victim \in [Evictors -> Victim \cup {None}]
  BY DEF SpaceTypes, RoomInv, ListTypes
<1>a. pc["worker"] \in {"loop", "mark", "copy"} /\ free # None =>
        \/ pc["worker"] = "copy" /\ free >= required
        \/ CachedPaths \ {current} \subseteq stuck \cup ListedPaths \cup Middle("worker")
  BY <1>0 DEF Listed
<1>. USE DEF Evictors
(* Steps of others may forget cached files, and add none to those listed. *)
<1>1. ASSUME UNCHANGED <<required, free, stuck, current>>, CachedPaths' \subseteq CachedPaths,
             pc'["worker"] = pc["worker"], victims'["worker"] = victims["worker"],
             victim'["worker"] = victim["worker"]
      PROVE  Listed'
  <2>1. ListedPaths' = ListedPaths /\ Middle("worker")' = Middle("worker")
    BY <1>1 DEF ListedPaths, Middle
  <2>. QED
    BY <1>a, <1>1, <2>1 DEF Listed
<1>2. ASSUME pc'["worker"] \notin {"loop", "mark", "copy"} PROVE Listed'
  BY <1>2 DEF Listed
<1>3. ASSUME UNCHANGED indexVars PROVE CachedPaths' = CachedPaths
  BY <1>3, StutterKeeps
<1>4. ASSUME NEW p \in Files, Access(p) PROVE Listed'
  <2>1. PICK hint \in Hints[p] : RecordAccess(p, "ReadOpen", now', hint, 0)
    BY <1>4 DEF Access
  <2>2. hint \in Nat /\ now' \in Nat
    BY <1>0, <1>4, SpaceAssumption DEF Access, CliTypes
  <2>3. CachedPaths' = CachedPaths
    BY <1>0, <2>1, <2>2, AccessAsks
  <2>. QED
    BY <1>1, <1>4, <2>3 DEF Access, workerVars
<1>5. ASSUME NEW p \in Files, CleanUp(p) PROVE Listed'
  BY <1>2, <1>5 DEF CleanUp
<1>20. ASSUME NEW p \in Files, Delete(p) PROVE Listed'
  <2>1. CachedPaths' \subseteq CachedPaths
    BY <1>0, <1>20, RemovedForgets DEF Delete
  <2>. QED
    BY <1>1, <1>20, <2>1 DEF Delete, workerVars
<1>6. ASSUME NEW p \in Files, TakeJob(p) PROVE Listed'
  <2>1. /\ pc'["worker"] = (IF FreeBytes = None \/ FreeBytes >= RequiredFor(p) THEN "copy" ELSE "list")
        /\ required' = RequiredFor(p) /\ free' = FreeBytes
    BY <1>0, <1>6 DEF TakeJob, Goto
  <2>. QED
    BY <2>1 DEF Listed
<1>7. ASSUME NEW request \in Requests, CallFree(request) PROVE Listed'
  BY <1>0, <1>1, <1>3, <1>7 DEF CallFree, Goto, workerVars
<1>8. CASE List("worker")
  <2>1. /\ UNCHANGED <<indexVars, current, stuck>> /\ pc'["worker"] = "loop"
        /\ victims'["worker"] =
             {[path |-> p, seen |-> rows[p].seen, size |-> rows[p].cachedSize] :
                p \in CachedPaths \ {current}}
    BY <1>0, <1>8 DEF List, Goto, workerVars
  <2>2. CachedPaths \ {current} \subseteq ListedPaths'
    <3>1. ASSUME NEW p \in CachedPaths \ {current} PROVE p \in ListedPaths'
      <4>. DEFINE v == [path |-> p, seen |-> rows[p].seen, size |-> rows[p].cachedSize]
      <4>1. v \in victims'["worker"] /\ v.path = p
        BY <2>1
      <4>. HIDE DEF v
      <4>. QED
        BY <4>1 DEF ListedPaths
    <3>. QED
      BY <3>1
  <2>3. CachedPaths' = CachedPaths
    BY <1>3, <2>1
  <2>. QED
    BY <2>1, <2>2, <2>3 DEF Listed
<1>9. ASSUME NEW v \in victims["worker"], RemoveFile("worker", v) PROVE Listed'
  <2>1. /\ UNCHANGED <<indexVars, current, required, free, stuck>>
        /\ pc["worker"] = "loop" /\ pc'["worker"] = "mark" /\ victim'["worker"] = v
        /\ victims'["worker"] = victims["worker"] \ {v}
    BY <1>0, <1>9 DEF RemoveFile, Chosen, Goto, workerVars
  <2>2. ListedPaths \subseteq ListedPaths' \cup Middle("worker")'
    BY <2>1 DEF ListedPaths, Middle
  <2>3. CachedPaths' = CachedPaths /\ Middle("worker") = {}
    BY <1>3, <2>1 DEF Middle
  <2>. QED
    BY <1>a, <2>1, <2>2, <2>3 DEF Listed
<1>10. ASSUME NEW v \in victims["worker"], RemoveFails("worker", v) PROVE Listed'
  <2>1. /\ UNCHANGED <<indexVars, current, required, free>>
        /\ pc["worker"] = "loop" /\ pc'["worker"] = "loop" /\ stuck' = stuck \cup {v.path}
        /\ victims'["worker"] = victims["worker"] \ {v}
    BY <1>0, <1>10 DEF RemoveFails, Chosen, Goto
  <2>2. ListedPaths \subseteq ListedPaths' \cup {v.path}
    BY <2>1 DEF ListedPaths
  <2>3. CachedPaths' = CachedPaths /\ Middle("worker") = {}
    BY <1>3, <2>1 DEF Middle
  <2>. QED
    BY <1>a, <2>1, <2>2, <2>3 DEF Listed
<1>11. CASE Mark("worker")
  <2>1. /\ pc["worker"] = "mark" /\ pc'["worker"] = "loop" /\ MarkRemoved(victim["worker"].path)
        /\ victim["worker"].path \in Files /\ UNCHANGED <<victims, current, stuck>>
        /\ free # None
    BY <1>0, <1>11, PlaceIs DEF Mark, Goto, WorkerTypes
  <2>2. CachedPaths' = CachedPaths \ {victim["worker"].path}
    BY <1>0, <2>1, RemovedForgets
  <2>3. ListedPaths' = ListedPaths /\ Middle("worker") = {victim["worker"].path}
    BY <2>1 DEF ListedPaths, Middle
  <2>. QED
    BY <1>a, <2>1, <2>2, <2>3 DEF Listed
<1>12. CASE EndLoop("worker")
  <2>1. /\ UNCHANGED <<indexVars, current, required, free, stuck>>
        /\ pc["worker"] = "loop" /\ pc'["worker"] = "copy"
        /\ free >= required \/ victims["worker"] = {}
    BY <1>0, <1>12 DEF EndLoop, Enough, Goto, workerVars
  <2>2. CachedPaths' = CachedPaths /\ Middle("worker") = {}
    BY <1>3, <2>1 DEF Middle
  <2>3. victims["worker"] = {} => ListedPaths = {}
    BY DEF ListedPaths
  <2>. QED
    BY <1>a, <2>1, <2>2, <2>3 DEF Listed
<1>13. CASE Mark("cli")
  <2>1. /\ pc["cli"] = "mark" /\ MarkRemoved(victim["cli"].path) /\ victim["cli"].path \in Files
        /\ UNCHANGED <<victims, current, stuck, required, free>>
        /\ pc'["worker"] = pc["worker"] /\ victim'["worker"] = victim["worker"]
    BY <1>0, <1>13, PlaceIs DEF Mark, Goto
  <2>2. CachedPaths' = CachedPaths \ {victim["cli"].path}
    BY <1>0, <2>1, RemovedForgets
  <2>. QED
    BY <1>1, <2>1, <2>2
<1>14. CASE List("cli") \/ EndLoop("cli") \/ Report
  BY <1>0, <1>1, <1>3, <1>14 DEF List, EndLoop, Report, Goto, workerVars
<1>15. ASSUME NEW v \in victims["cli"], RemoveFile("cli", v) \/ RemoveFails("cli", v) PROVE Listed'
  BY <1>0, <1>1, <1>3, <1>15 DEF RemoveFile, RemoveFails, Chosen, Goto, workerVars
<1>16. CASE Copy \/ CopyFails \/ MarkCopied \/ DropJob \/ SourceGone \/ MarkGone
  BY <1>0, <1>2, <1>16 DEF Copy, CopyFails, MarkCopied, DropJob, SourceGone, MarkGone, Goto
<1>17. CASE (\E there \in BOOLEAN : Mounts(there)) \/ UNCHANGED vars
  BY <1>1, <1>3, <1>17 DEF Mounts, vars, workerVars
<1>18. CASE Dies("worker")
  BY <1>0, <1>2, <1>18 DEF Dies
<1>19. CASE Dies("cli")
  BY <1>0, <1>1, <1>3, <1>19 DEF Dies, workerVars
<1>. QED
  BY <1>4, <1>5, <1>6, <1>7, <1>8, <1>9, <1>10, <1>11, <1>12, <1>13, <1>14, <1>15, <1>16,
     <1>17, <1>18, <1>19, <1>20 DEF Next, Work, Upset

LEMMA RoomStep == SpaceTypes /\ RoomInv /\ [Next]_vars => RoomInv'
BY NumbersStep, ListedStep DEF RoomInv

-----------------------------------------------------------------------------
(* What --free reports.                                                    *)

(* The index records the size a copy really has, unless its source changed *)
(* size between being measured and being copied; between copying a file    *)
(* and recording it, the worker has that size in hand.                     *)
SizesRight ==
  \A p \in CachedPaths \ (grown \cup loose \cup Middle("worker")) :
    p \in disk => rows[p].cachedSize = held[p]
InHand ==
  pc["worker"] = "copied" => current \in grown \/ current \notin disk \/ measured = held[current]

SizesInv == SizesRight /\ InHand

LEMMA InitSizes == Init => SizesInv
<1>. SUFFICES ASSUME Init PROVE SizesInv
  OBVIOUS
<1>1. CachedPaths = {} /\ pc["worker"] = "idle"
  BY DEF Init, IndexInit, CachedPaths, HasRow, Evictors
<1>. QED
  BY <1>1 DEF SizesInv, SizesRight, InHand

(* A step that records no copy and changes no copy but removes some. *)
LEMMA SizesFrame ==
  ASSUME SizesInv, CachedPaths' \subseteq CachedPaths,
         \A q \in CachedPaths' : rows'[q].cachedSize = rows[q].cachedSize,
         \A q \in disk' : q \in disk /\ held'[q] = held[q] /\ (q \in grown => q \in grown'),
         \A q \in CachedPaths' :
           q \in loose \cup Middle("worker") => q \in loose' \/ q \in Middle("worker")',
         pc'["worker"] = "copied" => pc["worker"] = "copied" /\ UNCHANGED <<measured, current>>
  PROVE  SizesInv'
<1>1. SizesRight'
  <2>. SUFFICES ASSUME NEW p \in CachedPaths' \ (grown \cup loose \cup Middle("worker"))', p \in disk'
                PROVE  rows'[p].cachedSize = held'[p]
    BY DEF SizesRight
  <2>1. p \in CachedPaths \ (grown \cup loose \cup Middle("worker")) /\ p \in disk
    OBVIOUS
  <2>. QED
    BY <2>1 DEF SizesInv, SizesRight
<1>2. InHand'
  BY DEF SizesInv, InHand
<1>. QED
  BY <1>1, <1>2 DEF SizesInv

(* What a removal does to the other files: nothing. *)
LEMMA UnlinkKeeps ==
  ASSUME VolumeTypes, NEW p, Unlink(p)
  PROVE  \A q \in disk' : q \in disk /\ held'[q] = held[q] /\ (q \in grown => q \in grown')
BY DEF VolumeTypes, Unlink

LEMMA SizesStep == SpaceTypes /\ SizesInv /\ [Next]_vars => SizesInv'
<1>. SUFFICES ASSUME SpaceTypes, SizesInv, [Next]_vars PROVE SizesInv'
  OBVIOUS
<1>0. IndexInv /\ VolumeTypes /\ ListTypes /\ WorkerTypes /\ CliTypes
  BY DEF SpaceTypes
<1>a. \A p \in CachedPaths : p \in Files /\ HasRow(p)
  BY DEF CachedPaths
<1>b. pc \in [Evictors -> Places]
  BY <1>0 DEF ListTypes
<1>. USE DEF Evictors
(* A step that leaves the volume alone. *)
<1>1. ASSUME UNCHANGED <<disk, held, grown>>, CachedPaths' \subseteq CachedPaths,
             \A q \in CachedPaths' : rows'[q].cachedSize = rows[q].cachedSize,
             \A q \in CachedPaths' :
               q \in loose \cup Middle("worker") => q \in loose' \/ q \in Middle("worker")',
             pc'["worker"] = "copied" => pc["worker"] = "copied" /\ UNCHANGED <<measured, current>>
      PROVE  SizesInv'
  <2>1. \A q \in disk' : q \in disk /\ held'[q] = held[q] /\ (q \in grown => q \in grown')
    BY <1>1
  <2>. QED
    BY <1>1, <2>1, SizesFrame
<1>2. ASSUME NEW p \in Files, Access(p) PROVE SizesInv'
  <2>1. PICK hint \in Hints[p] : RecordAccess(p, "ReadOpen", now', hint, 0)
    BY <1>2 DEF Access
  <2>2. hint \in Nat /\ now' \in Nat
    BY <1>0, <1>2, SpaceAssumption DEF Access, CliTypes
  <2>3. CachedPaths' = CachedPaths
    BY <1>0, <2>1, <2>2, AccessAsks
  <2>4. \A q \in Files : HasRow(q) => rows'[q].cachedSize = rows[q].cachedSize
    BY <1>0, <2>1, <2>2, AccessRows
  <2>5. UNCHANGED <<disk, held, grown, loose, pc, victim, measured, current>>
    BY <1>2 DEF Access, spaceVars, workerVars
  <2>6. Middle("worker")' = Middle("worker")
    BY <2>5 DEF Middle
  <2>. QED
    BY <1>1, <1>a, <2>3, <2>4, <2>5, <2>6
<1>3. ASSUME NEW p \in Files, MarkRemoved(p)
      PROVE  /\ CachedPaths' = CachedPaths \ {p}
             /\ \A q \in CachedPaths' : rows'[q].cachedSize = rows[q].cachedSize
  <2>1. CachedPaths' = CachedPaths \ {p}
    BY <1>0, <1>3, RemovedForgets
  <2>2. \A q \in Files : HasRow(q) => rows'[q].cachedSize = rows[q].cachedSize
    BY <1>0, <1>3, RemovedRows
  <2>. QED
    BY <1>a, <2>1, <2>2
<1>4. ASSUME NEW p \in Files, Delete(p) PROVE SizesInv'
  <2>1. UNCHANGED <<disk, held, grown, pc, victim, measured, current>> /\ loose \subseteq loose'
        /\ MarkRemoved(p)
    BY <1>4 DEF Delete, spaceVars, workerVars
  <2>2. Middle("worker")' = Middle("worker")
    BY <2>1 DEF Middle
  <2>. QED
    BY <1>1, <1>3, <2>1, <2>2
<1>5. ASSUME NEW e \in Evictors, Mark(e) PROVE SizesInv'
  <2>1. /\ victim[e].path \in Files /\ MarkRemoved(victim[e].path)
        /\ pc[e] = "mark" /\ pc' = [pc EXCEPT ![e] = "loop"]
        /\ victim' = [victim EXCEPT ![e] = None]
        /\ UNCHANGED <<disk, held, grown, loose, measured, current>>
    BY <1>0, <1>5, PlaceIs DEF Mark, Goto, spaceVars
  <2>2. \A q : q \in Middle("worker") => q = victim[e].path \/ q \in Middle("worker")'
    <3>1. CASE e = "worker"
      BY <2>1, <3>1 DEF Middle
    <3>2. CASE e # "worker"
      <4>1. pc'["worker"] = pc["worker"] /\ victim'["worker"] = victim["worker"]
        BY <1>0, <1>b, <2>1, <3>2 DEF ListTypes
      <4>. QED
        BY <2>1, <4>1 DEF Middle
    <3>. QED
      BY <3>1, <3>2
  <2>3. pc'["worker"] = "copied" => pc["worker"] = "copied"
    BY <1>b, <2>1
  <2>. QED
    BY <1>1, <1>3, <2>1, <2>2, <2>3
<1>6. CASE MarkGone
  <2>1. /\ current \in Files /\ MarkRemoved(current)
        /\ pc["worker"] = "gone" /\ pc'["worker"] = "idle" /\ UNCHANGED <<disk, held, grown, loose>>
    BY <1>0, <1>b, <1>6, PlaceIs DEF MarkGone, Goto, spaceVars
  <2>2. Middle("worker") = {current}
    BY <2>1 DEF Middle
  <2>. QED
    BY <1>1, <1>3, <2>1, <2>2
<1>7. CASE MarkCopied
  <2>1. /\ current \in Files /\ measured \in Nat
        /\ MarkCached(current, measured, measured)
        /\ pc["worker"] = "copied" /\ pc'["worker"] = "marked"
        /\ UNCHANGED <<disk, held, grown, loose>>
    BY <1>0, <1>b, <1>7, PlaceIs DEF MarkCopied, Goto, WorkerTypes, spaceVars
  <2>2. CachedPaths' = IF HasRow(current) THEN CachedPaths \cup {current} ELSE CachedPaths
    BY <1>0, <2>1, CachedShows
  <2>3. \A q \in Files : HasRow(q) =>
          rows'[q].cachedSize = IF q = current THEN measured ELSE rows[q].cachedSize
    BY <1>0, <2>1, CachedRows
  <2>4. Middle("worker") = {current}
    BY <2>1 DEF Middle
  <2>5. current \in grown \/ current \notin disk \/ measured = held[current]
    BY <2>1 DEF SizesInv, InHand
  <2>6. InHand'
    BY <2>1 DEF InHand
  <2>7. SizesRight'
    <3>. SUFFICES ASSUME NEW p \in CachedPaths' \ (grown \cup loose), p \in disk
                  PROVE  rows'[p].cachedSize = held[p]
      BY <2>1 DEF SizesRight
    <3>1. HasRow(p) /\ p \in Files
      BY <1>a, <2>1, <2>2
    <3>2. CASE p = current
      BY <2>3, <2>5, <3>1, <3>2
    <3>3. CASE p # current
      <4>1. p \in CachedPaths \ (grown \cup loose \cup Middle("worker"))
        BY <2>2, <2>4, <3>3
      <4>2. rows[p].cachedSize = held[p]
        BY <4>1 DEF SizesInv, SizesRight
      <4>. QED
        BY <2>3, <3>1, <3>3, <4>2
    <3>. QED
      BY <3>2, <3>3
  <2>. QED
    BY <2>6, <2>7 DEF SizesInv
<1>8. ASSUME NEW p \in Files, CleanUp(p) PROVE SizesInv'
  <2>1. CachedPaths' = CachedPaths \ {p}
    BY <1>0, <1>8, DeletedForgets DEF CleanUp
  <2>2. \A q \in Files : q # p => rows'[q] = rows[q]
    BY <1>0, <1>8 DEF CleanUp, DeleteRecord, IndexInv, IndexTypeOK
  <2>3. /\ UNCHANGED <<disk, held, grown, pc, victim, measured, current>> /\ loose \subseteq loose'
    BY <1>8 DEF CleanUp, spaceVars, workerVars
  <2>4. Middle("worker")' = Middle("worker")
    BY <2>3 DEF Middle
  <2>5. \A q \in CachedPaths' : rows'[q].cachedSize = rows[q].cachedSize
    BY <1>a, <2>1, <2>2
  <2>. QED
    BY <1>1, <2>1, <2>3, <2>4, <2>5
<1>9. CASE Copy
  <2>1. /\ pc["worker"] = "copy" /\ pc'["worker"] = "copied" /\ current \in Files
        /\ UNCHANGED <<indexVars, victim, current>> /\ loose \subseteq loose' \cup {current}
    BY <1>0, <1>b, <1>9, PlaceIs DEF Copy, Goto
  <2>2. /\ \A q : q # current => /\ q \in disk' <=> q \in disk
                                 /\ q \in grown' <=> q \in grown
        /\ \A q \in Files : q # current => held'[q] = held[q]
        /\ current \in grown' \/ measured' = held'[current]
    BY <1>0, <1>9, <2>1 DEF Copy, Skipped, Replaced, VolumeTypes
  <2>3. CachedPaths' = CachedPaths /\ UNCHANGED rows
    BY <2>1, StutterKeeps DEF indexVars
  <2>4. Middle("worker") = {} /\ Middle("worker")' = {current}
    BY <2>1 DEF Middle
  <2>5. InHand'
    BY <2>1, <2>2 DEF InHand
  <2>6. SizesRight'
    <3>. SUFFICES ASSUME NEW p \in CachedPaths' \ (grown \cup loose \cup Middle("worker"))', p \in disk'
                  PROVE  rows'[p].cachedSize = held'[p]
      BY DEF SizesRight
    <3>1. p # current /\ p \in CachedPaths /\ p \in Files
      BY <1>a, <2>3, <2>4
    <3>2. p \in CachedPaths \ (grown \cup loose \cup Middle("worker")) /\ p \in disk
      BY <2>1, <2>2, <2>4, <3>1
    <3>. QED
      BY <2>2, <2>3, <3>1, <3>2 DEF SizesInv, SizesRight
  <2>. QED
    BY <2>5, <2>6 DEF SizesInv
<1>10. CASE SourceGone
  <2>1. /\ Unlink(current) /\ pc["worker"] = "copy" /\ pc'["worker"] = "gone"
        /\ UNCHANGED indexVars /\ loose \subseteq loose'
    BY <1>b, <1>10 DEF SourceGone, Goto
  <2>2. CachedPaths' = CachedPaths /\ UNCHANGED rows
    BY <2>1, StutterKeeps DEF indexVars
  <2>3. Middle("worker") = {}
    BY <2>1 DEF Middle
  <2>. QED
    BY <1>0, <2>1, <2>2, <2>3, UnlinkKeeps, SizesFrame
<1>11. ASSUME NEW e \in Evictors, NEW v \in victims[e], RemoveFile(e, v) PROVE SizesInv'
  <2>1. /\ Unlink(v.path) /\ pc[e] = "loop" /\ pc' = [pc EXCEPT ![e] = "mark"]
        /\ victim' = [victim EXCEPT ![e] = v]
        /\ UNCHANGED <<indexVars, measured, current>> /\ loose \subseteq loose'
    BY <1>11 DEF RemoveFile, Goto, workerVars
  <2>2. CachedPaths' = CachedPaths /\ UNCHANGED rows
    BY <2>1, StutterKeeps DEF indexVars
  <2>3. \A q : q \in Middle("worker") => q \in Middle("worker")'
    <3>1. CASE e = "worker"
      BY <2>1, <3>1 DEF Middle
    <3>2. CASE e # "worker"
      <4>1. pc'["worker"] = pc["worker"] /\ victim'["worker"] = victim["worker"]
        BY <1>0, <1>b, <2>1, <3>2 DEF ListTypes
      <4>. QED
        BY <2>1, <4>1 DEF Middle
    <3>. QED
      BY <3>1, <3>2
  <2>4. pc'["worker"] = "copied" => pc["worker"] = "copied"
    BY <1>b, <2>1
  <2>. QED
    BY <1>0, <2>1, <2>2, <2>3, <2>4, UnlinkKeeps, SizesFrame
(* A step that leaves volume and records alone. *)
<1>12. ASSUME UNCHANGED <<disk, held, grown, rows>>,
              \A q \in loose \cup Middle("worker") : q \in loose' \/ q \in Middle("worker")',
              pc'["worker"] = "copied" => pc["worker"] = "copied" /\ UNCHANGED <<measured, current>>
       PROVE  SizesInv'
  <2>1. CachedPaths' = CachedPaths
    BY <1>12 DEF CachedPaths, HasRow
  <2>. QED
    BY <1>1, <1>12, <2>1
<1>13. ASSUME NEW p \in Files, TakeJob(p) PROVE SizesInv'
  <2>1. pc["worker"] = "idle" /\ pc'["worker"] \in {"copy", "list"}
        /\ UNCHANGED <<disk, held, grown, rows, loose>>
    BY <1>b, <1>13 DEF TakeJob, Goto, spaceVars, indexVars
  <2>2. Middle("worker") = {}
    BY <2>1 DEF Middle
  <2>. QED
    BY <1>12, <2>1, <2>2
<1>14. CASE CopyFails \/ DropJob
  <2>1. pc["worker"] \in {"copy", "marked"} /\ pc'["worker"] = "idle"
        /\ UNCHANGED <<disk, held, grown, rows, loose>>
    BY <1>b, <1>14 DEF CopyFails, DropJob, RemovePendingJob, Goto, spaceVars, indexVars
  <2>2. Middle("worker") = {}
    BY <2>1 DEF Middle
  <2>. QED
    BY <1>12, <2>1, <2>2
<1>15. ASSUME NEW e \in Evictors,
              List(e) \/ EndLoop(e) \/ \E v \in victims[e] : RemoveFails(e, v)
       PROVE  SizesInv'
  <2>1. /\ pc[e] \in {"list", "loop"}
        /\ \E place \in {"loop", "copy", "done"} : pc' = [pc EXCEPT ![e] = place]
        /\ UNCHANGED <<disk, held, grown, rows, loose, victim, measured, current>>
    BY <1>15 DEF List, EndLoop, RemoveFails, Chosen, Goto, spaceVars, workerVars, indexVars
  <2>2. pc'["worker"] = pc["worker"] \/ (pc["worker"] \in {"list", "loop"} /\ pc'["worker"] # "copied")
    BY <1>b, <2>1
  <2>3. \A q \in Middle("worker") : q \in Middle("worker")'
    BY <2>1, <2>2 DEF Middle
  <2>4. pc'["worker"] = "copied" => pc["worker"] = "copied"
    BY <2>2
  <2>. QED
    BY <1>12, <2>1, <2>3, <2>4
<1>16. ASSUME UNCHANGED <<disk, held, grown, rows, loose, victim, measured, current>>,
              pc'["worker"] = pc["worker"]
       PROVE  SizesInv'
  <2>1. Middle("worker")' = Middle("worker")
    BY <1>16 DEF Middle
  <2>. QED
    BY <1>12, <1>16, <2>1
<1>17. ASSUME NEW request \in Requests, CallFree(request) PROVE SizesInv'
  BY <1>16, <1>b, <1>17 DEF CallFree, Goto, spaceVars, workerVars, indexVars
<1>18. CASE Report \/ (\E there \in BOOLEAN : Mounts(there)) \/ UNCHANGED vars
  BY <1>16, <1>b, <1>18 DEF Report, Mounts, Goto, vars, spaceVars, workerVars, indexVars
<1>19. ASSUME NEW e \in Evictors, Dies(e) PROVE SizesInv'
  <2>1. /\ pc' = [pc EXCEPT ![e] = "idle"] /\ loose' = loose \cup Middle(e)
        /\ victim' = [victim EXCEPT ![e] = None]
        /\ UNCHANGED <<disk, held, grown, rows>>
        /\ e = "worker" \/ UNCHANGED <<measured, current>>
    BY <1>19 DEF Dies, spaceVars, workerVars, indexVars
  <2>2. CASE e = "worker"
    BY <1>12, <1>b, <2>1, <2>2
  <2>3. CASE e # "worker"
    <3>1. pc'["worker"] = pc["worker"] /\ victim'["worker"] = victim["worker"]
      BY <1>0, <1>b, <2>1, <2>3 DEF ListTypes
    <3>2. Middle("worker")' = Middle("worker")
      BY <2>1, <2>3, <3>1 DEF Middle
    <3>. QED
      BY <1>12, <2>1, <2>3, <3>1, <3>2
  <2>. QED
    BY <2>2, <2>3
<1>. QED
  BY <1>2, <1>4, <1>5, <1>6, <1>7, <1>8, <1>9, <1>10, <1>11, <1>13, <1>14, <1>15, <1>17,
     <1>18, <1>19 DEF Next, Work, Upset

(* Alone, --free holds a list that is still the cache: each file on it is  *)
(* cached, once, with the size it really has or as one that is known to be *)
(* recorded wrong, and no cached file is left out.  So what it has added   *)
(* up is what it has removed, unless it has removed one of those.          *)
Alone ==
  alone => pc["cli"] # "idle" /\ pc["worker"] = "idle" /\ mounted /\ loose = {}
ListFresh ==
  alone => \A v \in victims["cli"] : v.path \in CachedPaths
                                      /\ (v.path \in grown \/ v.size = held[v.path])
ListDistinct ==
  alone => /\ \A v, w \in victims["cli"] : v.path = w.path => v = w
           /\ pc["cli"] = "mark" => \A v \in victims["cli"] : v.path # victim["cli"].path
ListWhole ==
  alone /\ pc["cli"] \in {"loop", "mark"} =>
    CachedPaths \subseteq {v.path : v \in victims["cli"]} \cup Middle("cli")
Summed ==
  alone /\ exact => really = freed + (IF pc["cli"] = "mark" THEN victim["cli"].size ELSE 0)
Finished == alone /\ pc["cli"] = "done" => freed >= goal \/ CachedPaths = {}

FreeInv == Alone /\ ListFresh /\ ListDistinct /\ ListWhole /\ Summed /\ Finished

LEMMA FreeIsExact == SpaceTypes /\ FreeInv => FreeExact
<1>. SUFFICES ASSUME SpaceTypes, FreeInv, pc["cli"] = "done", alone
              PROVE  (exact => freed = really) /\ (freed >= goal \/ CachedPaths = {})
  BY DEF FreeExact
<1>1. freed \in Nat
  BY DEF SpaceTypes, CliTypes
<1>2. exact => really = freed + 0
  BY DEF FreeInv, Summed
<1>3. freed >= goal \/ CachedPaths = {}
  BY DEF FreeInv, Finished
<1>. QED
  BY <1>1, <1>2, <1>3

LEMMA InitFree == Init => FreeInv
<1>. SUFFICES ASSUME Init PROVE FreeInv
  OBVIOUS
<1>1. ~alone
  BY DEF Init
<1>. QED
  BY <1>1 DEF FreeInv, Alone, ListFresh, ListDistinct, ListWhole, Summed, Finished

LEMMA FreeStep ==
  SpaceTypes /\ AgreeInv /\ SizesInv /\ FreeInv /\ [Next]_vars => FreeInv'
<1>. SUFFICES ASSUME SpaceTypes, AgreeInv, SizesInv, FreeInv, [Next]_vars PROVE FreeInv'
  OBVIOUS
<1>0. /\ IndexInv /\ ListTypes /\ WorkerTypes /\ CliTypes /\ FreeInv
      /\ pc \in [Evictors -> Places] /\ victims \in [Evictors -> SUBSET Victim]
      /\ victim \in [Evictors -> Victim \cup {None}] /\ alone \in BOOLEAN
  BY DEF SpaceTypes, ListTypes, CliTypes
<1>b. held \in [Files -> Nat]
  BY DEF SpaceTypes, VolumeTypes
<1>a. alone => /\ pc["cli"] # "idle" /\ pc["worker"] = "idle" /\ mounted /\ loose = {}
  BY <1>0 DEF FreeInv, Alone
<1>. USE DEF Evictors
<1>1. ASSUME ~alone' PROVE FreeInv'
  BY <1>1 DEF FreeInv, Alone, ListFresh, ListDistinct, ListWhole, Summed, Finished
(* The worker does nothing while --free is alone. *)
<1>2. ASSUME alone' => alone, pc["worker"] # "idle" PROVE FreeInv'
  BY <1>1, <1>2, <1>a
<1>3. ASSUME NEW p \in Files, Access(p) \/ Delete(p) \/ TakeJob(p) \/ CleanUp(p) PROVE FreeInv'
  <2>1. ~alone'
    BY <1>3 DEF Access, Delete, TakeJob, CleanUp
  <2>. QED
    BY <1>1, <2>1
<1>4. CASE (\E there \in BOOLEAN : Mounts(there)) \/ Report
  <2>1. ~alone'
    BY <1>4 DEF Mounts, Report
  <2>. QED
    BY <1>1, <2>1
<1>5. CASE List("worker") \/ Mark("worker") \/ EndLoop("worker") \/ Copy \/ CopyFails
           \/ MarkCopied \/ DropJob \/ SourceGone \/ MarkGone
  BY <1>2, <1>5
     DEF List, Mark, EndLoop, Copy, CopyFails, MarkCopied, DropJob, SourceGone, MarkGone, Goto
<1>6. ASSUME NEW v \in victims["worker"], RemoveFile("worker", v) \/ RemoveFails("worker", v)
      PROVE  FreeInv'
  BY <1>0, <1>2, <1>6 DEF RemoveFile, RemoveFails, Chosen
<1>7. ASSUME NEW e \in Evictors, Dies(e) PROVE FreeInv'
  <2>1. CASE e = "worker"
    BY <1>2, <1>7, <2>1 DEF Dies
  <2>2. CASE e # "worker"
    <3>1. ~alone'
      BY <1>7, <2>2 DEF Dies
    <3>. QED
      BY <1>1, <3>1
  <2>. QED
    BY <2>1, <2>2
<1>8. ASSUME NEW v \in victims["cli"], RemoveFails("cli", v) PROVE FreeInv'
  <2>1. ~alone'
    BY <1>8 DEF RemoveFails
  <2>. QED
    BY <1>1, <2>1
<1>9. ASSUME NEW request \in Requests, CallFree(request) PROVE FreeInv'
  <2>1. /\ pc["cli"] = "idle" /\ pc' = [pc EXCEPT !["cli"] = "list"] /\ freed' = 0 /\ really' = 0
        /\ UNCHANGED <<victims, victim, mounted, loose>>
    BY <1>9 DEF CallFree, Goto, spaceVars
  <2>2. alone' => pc["worker"] = "idle" /\ mounted /\ loose = {}
    BY <1>9 DEF CallFree
  <2>3. victims["cli"] = {}
    BY <1>0, <2>1 DEF ListTypes
  <2>. QED
    BY <1>0, <2>1, <2>2, <2>3
       DEF FreeInv, Alone, ListFresh, ListDistinct, ListWhole, Summed, Finished
<1>10. CASE List("cli")
  <2>1. /\ UNCHANGED <<indexVars, alone, mounted, loose, held, grown, freed, really, exact, victim>>
        /\ pc["cli"] = "list" /\ pc' = [pc EXCEPT !["cli"] = "loop"]
        /\ victims'["cli"] =
             {[path |-> p, seen |-> rows[p].seen, size |-> rows[p].cachedSize] : p \in CachedPaths}
    BY <1>0, <1>10 DEF List, Goto, spaceVars, cliVars
  <2>. DEFINE Entry(p) == [path |-> p, seen |-> rows[p].seen, size |-> rows[p].cachedSize]
  <2>2. CachedPaths' = CachedPaths
    BY <2>1, StutterKeeps
  <2>3. /\ \A v \in victims'["cli"] : \E p \in CachedPaths : v = Entry(p)
        /\ \A p \in CachedPaths : Entry(p) \in victims'["cli"]
        /\ \A p : Entry(p).path = p /\ Entry(p).size = rows[p].cachedSize
    BY <2>1
  <2>. HIDE DEF Entry
  <2>4. alone => \A p \in CachedPaths : p \in grown \/ rows[p].cachedSize = held[p]
    <3>. SUFFICES ASSUME alone, NEW p \in CachedPaths, p \notin grown
                  PROVE  rows[p].cachedSize = held[p]
      OBVIOUS
    <3>1. Middle("worker") = {} /\ Middle("cli") = {} /\ loose = {}
      BY <1>a, <2>1 DEF Middle
    <3>2. p \in Files
      BY DEF CachedPaths
    <3>3. p \in disk
      BY <3>1, <3>2, AgreesIs DEF AgreeInv
    <3>. QED
      BY <3>1, <3>3 DEF SizesInv, SizesRight
  <2>5. ListFresh'
    BY <2>1, <2>2, <2>3, <2>4 DEF ListFresh
  <2>6. ListDistinct'
    BY <1>0, <2>1, <2>3 DEF ListDistinct
  <2>7. ListWhole'
    <3>1. ASSUME NEW p \in CachedPaths PROVE p \in {v.path : v \in victims'["cli"]}
      BY <2>3
    <3>. QED
      BY <2>2, <3>1 DEF ListWhole
  <2>8. Alone' /\ Summed' /\ Finished'
    BY <1>0, <1>a, <2>1 DEF FreeInv, Alone, Summed, Finished
  <2>. QED
    BY <2>5, <2>6, <2>7, <2>8 DEF FreeInv
<1>11. ASSUME NEW v \in victims["cli"], RemoveFile("cli", v) PROVE FreeInv'
  <2>1. /\ UNCHANGED <<indexVars, mounted, freed>>
        /\ pc["cli"] = "loop" /\ pc' = [pc EXCEPT !["cli"] = "mark"]
        /\ victim' = [victim EXCEPT !["cli"] = v]
        /\ victims'["cli"] = victims["cli"] \ {v}
        /\ Unlink(v.path) /\ (exact' <=> exact /\ v.path \notin grown)
        /\ really' = IF v.path \in disk \ disk' THEN really + held[v.path] ELSE really
        /\ loose' = IF v.path \in disk' \/ Crossed("cli", v.path) THEN loose \cup {v.path} ELSE loose
    BY <1>0, <1>11 DEF RemoveFile, Unlink, Chosen, Goto
  <2>2. alone' => alone
    BY <1>0, <1>11 DEF RemoveFile
  <2>. SUFFICES ASSUME alone PROVE FreeInv'
    BY <1>1, <2>2
  <2>3. /\ v.path \in CachedPaths /\ (v.path \in grown \/ v.size = held[v.path])
        /\ v.path \in Files /\ v.size \in Nat
        /\ \A w \in victims["cli"] : w.path = v.path => w = v
    BY <1>0, <1>11, ChosenIs DEF FreeInv, ListFresh, ListDistinct, RemoveFile
  <2>4. v.path \in disk
    <3>1. Middle("worker") = {} /\ Middle("cli") = {} /\ loose = {}
      BY <1>a, <2>1 DEF Middle
    <3>. QED
      BY <2>3, <3>1, AgreesIs DEF AgreeInv
  <2>5. loose' = {} /\ (exact' => really' = really + v.size)
    <3>1. disk' = disk \ {v.path}
      BY <1>a, <2>1 DEF Unlink
    <3>. QED
      BY <1>a, <2>1, <2>3, <2>4, <3>1 DEF Crossed, Other
  <2>6. CachedPaths' = CachedPaths
    BY <2>1, StutterKeeps
  <2>7. (exact' => exact /\ really = freed + 0) /\ really \in Nat /\ freed \in Nat
    BY <1>0, <2>1 DEF FreeInv, Summed, CliTypes
  <2>8. Alone'
    BY <1>0, <1>a, <2>1, <2>5 DEF Alone
  <2>12. ListFresh'
    <3>1. ASSUME NEW w \in victims'["cli"]
          PROVE  w.path \in CachedPaths' /\ (w.path \in grown' \/ w.size = held'[w.path])
      <4>1. w \in victims["cli"] /\ w.path # v.path
        BY <2>1, <2>3, <3>1
      <4>2. w.path \in CachedPaths /\ (w.path \in grown \/ w.size = held[w.path])
        BY <1>0, <4>1 DEF FreeInv, ListFresh
      <4>3. w.path \in Files
        BY <4>2 DEF CachedPaths
      <4>4. (w.path \in grown => w.path \in grown') /\ held'[w.path] = held[w.path]
        BY <1>b, <2>1, <4>1, <4>3 DEF Unlink
      <4>. QED
        BY <2>6, <4>2, <4>4
    <3>. QED
      BY <3>1 DEF ListFresh
  <2>9. ListDistinct'
    BY <1>0, <2>1, <2>3 DEF FreeInv, ListDistinct
  <2>10. ListWhole'
    <3>1. CachedPaths \subseteq {w.path : w \in victims["cli"]} \cup Middle("cli")
      BY <1>0, <2>1 DEF FreeInv, ListWhole
    <3>2. Middle("cli") = {} /\ Middle("cli")' = {v.path}
      BY <1>0, <2>1 DEF Middle
    <3>3. {w.path : w \in victims["cli"]} \subseteq {w.path : w \in victims'["cli"]} \cup {v.path}
      BY <2>1
    <3>. QED
      BY <2>6, <3>1, <3>2, <3>3 DEF ListWhole
  <2>11. Summed' /\ Finished'
    BY <1>0, <2>1, <2>3, <2>5, <2>7 DEF Summed, Finished
  <2>. QED
    BY <2>8, <2>9, <2>10, <2>11, <2>12 DEF FreeInv
<1>12. CASE Mark("cli")
  <2>1. /\ UNCHANGED <<alone, mounted, loose, held, grown, really, exact, victims>>
        /\ pc["cli"] = "mark" /\ pc' = [pc EXCEPT !["cli"] = "loop"]
        /\ MarkRemoved(victim["cli"].path) /\ freed' = freed + victim["cli"].size
    BY <1>12 DEF Mark, Goto, spaceVars
  <2>2. victim["cli"].path \in Files /\ victim["cli"].size \in Nat
    BY <1>0, <2>1, PlaceIs
  <2>3. CachedPaths' = CachedPaths \ {victim["cli"].path}
    BY <1>0, <2>1, <2>2, RemovedForgets
  <2>. SUFFICES ASSUME alone PROVE FreeInv'
    BY <1>1, <2>1
  <2>4. Alone'
    BY <1>0, <1>a, <2>1 DEF Alone
  <2>5. ListFresh' /\ ListDistinct'
    BY <1>0, <2>1, <2>3 DEF FreeInv, ListFresh, ListDistinct
  <2>6. ListWhole'
    <3>1. CachedPaths \subseteq {w.path : w \in victims["cli"]} \cup Middle("cli")
      BY <1>0, <2>1 DEF FreeInv, ListWhole
    <3>2. Middle("cli") = {victim["cli"].path}
      BY <2>1 DEF Middle
    <3>. QED
      BY <2>1, <2>3, <3>1, <3>2 DEF ListWhole
  <2>7. (exact => really = freed + victim["cli"].size) /\ freed \in Nat /\ pc'["cli"] = "loop"
    BY <1>0, <2>1 DEF FreeInv, Summed, CliTypes
  <2>8. Summed' /\ Finished'
    BY <2>1, <2>2, <2>7 DEF Summed, Finished
  <2>. QED
    BY <2>4, <2>5, <2>6, <2>8 DEF FreeInv
<1>13. CASE EndLoop("cli")
  <2>1. /\ UNCHANGED <<indexVars, alone, mounted, loose, held, grown, freed, goal, really, exact, victim>>
        /\ pc["cli"] = "loop" /\ pc' = [pc EXCEPT !["cli"] = "done"]
        /\ victims'["cli"] = {} /\ (freed >= goal \/ victims["cli"] = {})
    BY <1>0, <1>13 DEF EndLoop, Enough, Goto, spaceVars, cliVars
  <2>2. CachedPaths' = CachedPaths
    BY <2>1, StutterKeeps
  <2>3. alone /\ victims["cli"] = {} => CachedPaths = {}
    BY <1>0, <2>1 DEF FreeInv, ListWhole, Middle
  <2>. QED
    BY <1>0, <1>a, <2>1, <2>2, <2>3
       DEF FreeInv, Alone, ListFresh, ListDistinct, ListWhole, Summed, Finished
<1>14. CASE UNCHANGED vars
  <2>1. /\ UNCHANGED <<pc, victims, victim, alone, mounted, loose, held, grown, freed, goal, really, exact>>
        /\ UNCHANGED indexVars
    BY <1>14 DEF vars, spaceVars, cliVars
  <2>2. CachedPaths' = CachedPaths /\ Middle("cli")' = Middle("cli")
    BY <1>0, <2>1, StutterKeeps DEF Middle, ListTypes
  <2>. QED
    BY <1>0, <2>1, <2>2
       DEF FreeInv, Alone, ListFresh, ListDistinct, ListWhole, Summed, Finished
<1>. QED
  BY <1>3, <1>4, <1>5, <1>6, <1>7, <1>8, <1>9, <1>10, <1>11, <1>12, <1>13, <1>14
     DEF Next, Work, Upset

-----------------------------------------------------------------------------

(* The variables keep their types: in particular, what a process counts as *)
(* free or freed is always a number, and the worker never evicts against a *)
(* free space it does not know.                                            *)
THEOREM TypeCorrect == Spec => []TypeOK
<1>1. Spec => []SpaceTypes
  BY InitTypes, TypesStep, PTL DEF Spec
<1>. QED
  BY <1>1, TypesAreTypes, PTL

(* Index and volume agree on every file but those the history names: left  *)
(* so by a race, a crash, an unmount, the cleanup or a delete event.       *)
THEOREM VolumeAgrees == Spec => []IndexAgrees
<1>1. AgreeInv => IndexAgrees
  BY DEF AgreeInv
<1>. QED
  BY <1>1, InitTypes, InitAgree, TypesStep, AgreeStep, PTL DEF Spec

(* A copy starts with min_free_bytes, and what the index has for the size  *)
(* of its file, free, or with every other cached file unremovable.         *)
THEOREM RoomForCopy == Spec => []RoomMade
BY InitTypes, InitRoom, TypesStep, RoomStep, RoomIsMade, PTL DEF Spec

(* Alone, --free removes what it reports, unless a size was recorded wrong, *)
(* and counts as much as it was asked for.                                 *)
THEOREM FreesWhatItSays == Spec => []FreeExact
<1>1. Spec => [](SpaceTypes /\ AgreeInv /\ SizesInv /\ FreeInv)
  BY InitTypes, InitAgree, InitSizes, InitFree, TypesStep, AgreeStep, SizesStep, FreeStep, PTL
     DEF Spec
<1>. QED
  BY <1>1, FreeIsExact, PTL

==============================================================================
