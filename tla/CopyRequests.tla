----------------------------- MODULE CopyRequests -----------------------------
(***************************************************************************)
(* What PendingCopyScheduler promises of the copies that accesses ask for, *)
(* without its heap, batches, threads and clock: a request is only settled *)
(* by a copy of what was asked for, or forgotten with the copy itself when *)
(* that is gone or its source is said to be.                               *)
(*                                                                         *)
(* CopyScheduler implements it; the one excuse is a request that came      *)
(* while its file was being copied.                                        *)
(***************************************************************************)
EXTENDS Integers

CONSTANTS
  Files,    \* relative paths that may be accessed
  None      \* no cache file

VARIABLES
  wanted,   \* files with a copy pending
  cached,   \* files the index calls present
  held,     \* version of the content in each cache file, or None
  asked,    \* version at the last access that asked for a copy
  late,     \* files whose last request came while they were copied
  heard     \* accesses heard of

vars == <<wanted, cached, held, asked, late, heard>>

Init ==
  /\ wanted = {} /\ cached = {} /\ late = {}
  /\ held = [p \in Files |-> None] /\ asked = [p \in Files |-> 0] /\ heard = 0

(* The cache file of p holds what was asked for. *)
Holds(p) == held[p] # None /\ (p \in late \/ held[p] >= asked[p])

-----------------------------------------------------------------------------

(* An access asks for a copy ... *)
Ask(p) ==
  /\ heard' = heard + 1
  /\ wanted' = wanted \cup {p}
  /\ asked' = [asked EXCEPT ![p] = asked'[p]]
  /\ asked'[p] \in Nat /\ asked'[p] >= asked[p]
  /\ late' \in {late \cup {p}, late \ {p}}
  /\ UNCHANGED <<cached, held>>

(* ... or tells that the file is deleted, and with it goes the request ... *)
HearDeleted(p) ==
  /\ heard' = heard + 1
  /\ wanted' = wanted \ {p} /\ cached' = cached \ {p}
  /\ UNCHANGED <<held, asked, late>>

(* ... or is of no consequence. *)
HearOther == heard' = heard + 1 /\ UNCHANGED <<wanted, cached, held, asked, late>>

(* A copy begins, which also serves what was asked for late. *)
Begin(p) ==
  /\ p \in wanted \/ p \notin cached
  /\ late' = late \ {p}
  /\ UNCHANGED <<wanted, cached, held, asked, heard>>

(* It puts its content in place ... *)
Store(p) ==
  /\ held' = [held EXCEPT ![p] = held'[p]]
  /\ held'[p] \in Nat /\ Holds(p)'
  /\ UNCHANGED <<wanted, cached, asked, late, heard>>

(* ... is shown, ... *)
Show(p) ==
  /\ Holds(p)
  /\ cached' = cached \cup {p}
  /\ UNCHANGED <<wanted, held, asked, late, heard>>

(* ... and settles the request. *)
Settle(p) ==
  /\ Holds(p) /\ (p \in cached \/ p \in late)
  /\ wanted' = wanted \ {p}
  /\ UNCHANGED <<cached, held, asked, late, heard>>

(* A copy that failed is tried again, even if the file was forgotten. *)
TryAgain(p) ==
  /\ wanted' = wanted \cup {p}
  /\ UNCHANGED <<cached, held, asked, late, heard>>

(* The cache file is removed: evicted, or its source is gone. *)
Remove(p) ==
  /\ held' = [held EXCEPT ![p] = None]
  /\ UNCHANGED <<wanted, cached, asked, late, heard>>

(* Then the request is forgotten, together with the copy. *)
Forget(p) ==
  /\ held[p] = None
  /\ wanted' = wanted \ {p} /\ cached' = cached \ {p}
  /\ UNCHANGED <<held, asked, late, heard>>

Next ==
  \/ HearOther
  \/ \E p \in Files :
       \/ Ask(p) \/ HearDeleted(p) \/ Begin(p) \/ Store(p) \/ Show(p) \/ Settle(p)
       \/ TryAgain(p) \/ Remove(p) \/ Forget(p)

Spec == Init /\ [][Next]_vars

-----------------------------------------------------------------------------

TypeOK ==
  /\ wanted \subseteq Files /\ cached \subseteq Files /\ late \subseteq Files
  /\ held \in [Files -> Nat \cup {None}] /\ asked \in [Files -> Nat] /\ heard \in Nat

(* A file that is shown as cached, with no request for it left, holds what *)
(* was asked for, or nothing at all while it is being removed.             *)
SettledFresh == \A p \in cached \ wanted : held[p] # None => Holds(p)

=============================================================================
