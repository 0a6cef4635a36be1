---------------------------- MODULE AtomicReplace ----------------------------
(***************************************************************************)
(* What a copy into the cache promises (copy_engine.h, win_file_copy.h):   *)
(* the cache file changes in one step, from what it was to the complete    *)
(* result of reading the source through once.  Nobody stops writers, so    *)
(* "the source" is, for each chunk, something that chunk held between the  *)
(* opening of the file and the end of the copy.                            *)
(***************************************************************************)
EXTENDS Integers, Sequences

CONSTANTS
  Chunks,     \* contents of one chunk
  MaxChunks,  \* bound: chunks of a file
  None        \* no file

Content == UNION {[1..n -> Chunks] : n \in 0..MaxChunks}

VARIABLES
  source,     \* content of the source file, or None
  cache,      \* content of the cache file, or None
  busy,       \* a copy reads the source
  seen        \* what each chunk of the source held while it did

vars == <<source, cache, busy, seen>>

Nothing == [i \in 1..MaxChunks |-> {}]

(* The contents seen so far, with those of file f added. *)
Adding(f) ==
  [i \in 1..MaxChunks |-> seen[i] \cup (IF f # None /\ i <= Len(f) THEN {f[i]} ELSE {})]

(* Everything a reader that came across the seen chunks may have read. *)
ReadThrough(c) == \A i \in 1..Len(c) : c[i] \in seen[i]

Init ==
  /\ source \in Content \cup {None} /\ cache \in Content \cup {None}
  /\ busy = FALSE /\ seen = Nothing

Edit(f) ==
  /\ source' = f
  /\ seen' = IF busy THEN Adding(f) ELSE seen
  /\ UNCHANGED <<cache, busy>>

Begin ==
  /\ ~busy /\ source # None
  /\ busy' = TRUE
  /\ seen' = [i \in 1..MaxChunks |-> IF i <= Len(source) THEN {source[i]} ELSE {}]
  /\ UNCHANGED <<source, cache>>

Publish(c) ==
  /\ busy /\ ReadThrough(c)
  /\ cache' = c /\ busy' = FALSE /\ seen' = Nothing
  /\ UNCHANGED source

Abandon ==
  /\ busy
  /\ busy' = FALSE /\ seen' = Nothing
  /\ UNCHANGED <<source, cache>>

Remove ==
  /\ cache' = None
  /\ UNCHANGED <<source, busy, seen>>

Next ==
  \/ Begin \/ Abandon \/ Remove
  \/ \E f \in Content \cup {None} : Edit(f)
  \/ \E c \in Content : Publish(c)

Spec == Init /\ [][Next]_vars
=============================================================================
