------------------------------ MODULE EventFilter ------------------------------
(***************************************************************************)
(* What happens to an event between the driver and the scheduler: the      *)
(* reader maps the observed path onto the source                           *)
(* (win_filter_activity_source.cpp), and the service's callback drops it   *)
(* if the path is empty, matches an ignored pattern or is a directory, or  *)
(* if the process matches one (win_service_host.cpp).  The wildcard matcher of      *)
(* src/core/config.cpp runs step by step, with its one point of return.    *)
(***************************************************************************)
EXTENDS PathMapper

CONSTANTS
  Inputs       \* settings and events, each an Input

Path == Seq(Char)
Name == Seq(Char \ {"*"})    \* file names hold no star

(* The settings source_unc, ignored_path_patterns and                      *)
(* ignored_process_patterns; the path the driver reports, the image path   *)
(* of the process, empty if it has exited by now, and whether the source   *)
(* has a directory of that name.                                           *)
Input == [source : Path, text : Path, programs : Path,
          observed : Name, requestor : Name, directory : BOOLEAN]

ASSUME InputAssumption == Inputs \subseteq Input

VARIABLES
  input,       \* settings and event
  pc,          \* "map", "filter", "match", "tail", "accepted" or "dropped"
  relative,    \* the mapped relative path
  phase,       \* whose patterns are tried: those of the "path" or the "process"
  patterns,    \* the patterns still to try, the first one at work
  value,       \* the value the pattern is tried on: the subject or its file name
  pat, val, star, starMatch   \* the matcher's indices; star = 0: none as yet

matcher == <<patterns, value, pat, val, star, starMatch>>
vars == <<input, pc, relative, phase, matcher>>

Init ==
  /\ input \in Inputs
  /\ pc = "map" /\ relative = <<>> /\ phase = "path"
  /\ patterns = <<>> /\ value = <<>>
  /\ pat = 1 /\ val = 1 /\ star = 0 /\ starMatch = 1

-----------------------------------------------------------------------------
(* Patterns.                                                               *)

Blank == " "
Trim(s) ==
  LET first == SelectInSeq(s, LAMBDA c : c # Blank)
  IN  IF first = 0 THEN <<>> ELSE SubSeq(s, first, SelectLastInSeq(s, LAMBDA c : c # Blank))

(* Fault: only a comma separates patterns. *)
FaultySplitPatterns(s) == Parts(s, {","})

SplitPatterns(s) ==
  LET list == Mapped(Trim, Parts(s, {",", ";"}))
  IN  InOrder(LAMBDA n : list[n], {n \in DOMAIN list : list[n] # <<>>})

JoinPatterns(list) == Join(list, ";")

FileName(path) == SubSeq(path, SelectLastInSeq(path, IsSep) + 1, Len(path))

-----------------------------------------------------------------------------

(* Fault: the indices stay where the last attempt left them. *)
FaultyBegin(v) ==
  /\ value' = LowerCopy(v)
  /\ pat' = 1 /\ star' = 0 /\ UNCHANGED <<val, starMatch>>

Begin(v) ==
  /\ value' = LowerCopy(v)
  /\ pat' = 1 /\ val' = 1 /\ star' = 0 /\ starMatch' = 1

Drop == pc' = "dropped" /\ UNCHANGED <<input, relative, phase, matcher>>

Identified == MapObserved(input.source, input.observed)

(* Not under the source: the driver names no root of its own. *)
MapFails == pc = "map" /\ Identified = None /\ Drop

MapPath ==
  /\ pc = "map" /\ Identified # None
  /\ relative' = Identified.relative
  /\ pc' = "filter"
  /\ UNCHANGED <<input, phase, matcher>>

DropEmpty == pc = "filter" /\ relative = <<>> /\ Drop

Subject == IF phase = "path" THEN relative ELSE input.requestor

TryPath ==
  /\ pc = "filter" /\ relative # <<>>
  /\ pc' = "match" /\ patterns' = Mapped(LowerCopy, SplitPatterns(input.text))
  /\ Begin(relative)
  /\ UNCHANGED <<input, relative, phase>>

(* No pattern matched the path; a process without a name matches none.     *)
TryProcess ==
  /\ pc = "match" /\ patterns = <<>> /\ phase = "path"
  /\ patterns' = IF input.requestor = <<>> THEN <<>>
                 ELSE Mapped(LowerCopy, SplitPatterns(input.programs))
  /\ Begin(input.requestor)
  /\ phase' = "process"
  /\ UNCHANGED <<input, pc, relative>>

(* Neither did one match the process. *)
Decide ==
  /\ pc = "match" /\ patterns = <<>> /\ phase = "process"
  /\ pc' = IF input.directory THEN "dropped" ELSE "accepted"
  /\ UNCHANGED <<input, relative, phase, matcher>>

-----------------------------------------------------------------------------
(* wildcard_match_ignore_case, on the first pattern and value.             *)

Pattern == Head(patterns)
Matching == pc = "match" /\ patterns # <<>>
InPattern == pat <= Len(Pattern)
InValue == val <= Len(value)
Same == InPattern /\ Pattern[pat] \in {"?", value[val]}
Star == InPattern /\ Pattern[pat] = "*"
Stays == UNCHANGED <<input, relative, phase, patterns, value>>

Advance ==
  /\ Matching /\ InValue /\ Same
  /\ pat' = pat + 1 /\ val' = val + 1
  /\ UNCHANGED <<pc, star, starMatch>> /\ Stays

SeeStar ==
  /\ Matching /\ InValue /\ ~Same /\ Star
  /\ star' = pat /\ starMatch' = val /\ pat' = pat + 1
  /\ UNCHANGED <<pc, val>> /\ Stays

(* Fault: the value is taken up where it is, not where the star was. *)
FaultyBacktrack ==
  /\ Matching /\ InValue /\ ~Same /\ ~Star /\ star # 0
  /\ pat' = star + 1 /\ starMatch' = starMatch + 1 /\ val' = val + 1
  /\ UNCHANGED <<pc, star>> /\ Stays

(* Fault: the star does not take one character more. *)
FaultyResume ==
  /\ Matching /\ InValue /\ ~Same /\ ~Star /\ star # 0
  /\ pat' = star + 1 /\ val' = starMatch
  /\ UNCHANGED <<pc, star, starMatch>> /\ Stays

(* The last star takes one character more, and matching resumes after it.  *)
Backtrack ==
  /\ Matching /\ InValue /\ ~Same /\ ~Star /\ star # 0
  /\ pat' = star + 1 /\ starMatch' = starMatch + 1 /\ val' = starMatch + 1
  /\ UNCHANGED <<pc, star>> /\ Stays

(* The next attempt: the same pattern on the file name, if it is not on it *)
(* already, and then the next pattern on the whole subject.                *)
OnSubject == value = LowerCopy(Subject)
TryNext ==
  /\ IF OnSubject /\ FileName(Subject) # Subject
     THEN UNCHANGED patterns /\ Begin(FileName(Subject))
     ELSE patterns' = Tail(patterns) /\ Begin(Subject)
  /\ pc' = "match"
  /\ UNCHANGED <<input, relative, phase>>

Mismatch ==
  /\ Matching /\ InValue /\ ~Same /\ ~Star /\ star = 0
  /\ TryNext

EndOfValue ==
  /\ Matching /\ ~InValue
  /\ pc' = "tail"
  /\ UNCHANGED <<pat, val, star, starMatch>> /\ Stays

(* Stars left over match nothing. *)
SkipStar ==
  /\ pc = "tail" /\ Star
  /\ pat' = pat + 1
  /\ UNCHANGED <<pc, val, star, starMatch>> /\ Stays

Match == pc = "tail" /\ ~Star /\ ~InPattern /\ Drop

TailDiffers == pc = "tail" /\ ~Star /\ InPattern /\ TryNext

Done == pc \in {"accepted", "dropped"}
Finished == Done /\ UNCHANGED vars

Next ==
  \/ MapFails \/ MapPath \/ DropEmpty \/ TryPath \/ TryProcess \/ Decide
  \/ Advance \/ SeeStar \/ Backtrack \/ Mismatch \/ EndOfValue
  \/ SkipStar \/ Match \/ TailDiffers \/ Finished

Spec == Init /\ [][Next]_vars

-----------------------------------------------------------------------------
(* Properties.                                                             *)

TypeOK ==
  /\ pc \in {"map", "filter", "match", "tail", "accepted", "dropped"}
  /\ phase \in {"path", "process"}
  /\ relative \in Name /\ patterns \in Seq(Path) /\ value \in Name
  /\ pat \in Nat \ {0} /\ val \in 1..(Len(value) + 1)
  /\ patterns # <<>> => pat <= Len(Pattern) + 1
  /\ star \in Nat /\ starMatch \in 1..(Len(value) + 1)

(* What a wildcard pattern means: its characters share out the value among *)
(* them, the i-th from at[i] up to where the next begins.  A star takes    *)
(* any stretch, every other character one, which "?" leaves open.          *)
Takes(p, v, at, i) ==
  IF p[i] = "*" THEN at[i] <= at[i + 1]
  ELSE at[i + 1] = at[i] + 1 /\ p[i] \in {"?", v[at[i]]}

Means(p, v) ==
  \E at \in [1..(Len(p) + 1) -> 1..(Len(v) + 1)] :
    /\ at[1] = 1 /\ at[Len(p) + 1] = Len(v) + 1
    /\ \A i \in 1..Len(p) : Takes(p, v, at, i)

Ignores(p, path) ==
  \E v \in {path, FileName(path)} : Means(LowerCopy(p), LowerCopy(v))

(* README.md: "Relative paths (and their file names alone) matching any    *)
(* pattern are never cached", and so with image paths; the lists are       *)
(* comma- or semicolon-separated and the patterns case-insensitive.  Of    *)
(* the others every file of the source is: the loop with its one point of  *)
(* return decides what the patterns mean.                                  *)
Ends(text) == {0, Len(text) + 1} \cup {i \in DOMAIN text : text[i] \in {",", ";"}}
Items(text) ==
  {Trim(SubSeq(text, e[1] + 1, e[2] - 1)) :
     e \in {ij \in Ends(text) \X Ends(text) :
              ij[1] < ij[2] /\ ~\E k \in Ends(text) : ij[1] < k /\ k < ij[2]}}
Excluded(text, path) ==
  path # <<>> /\ \E p \in Items(text) \ {<<>>} : Ignores(p, path)
FilterRight ==
  Done /\ relative # <<>> =>
    (pc = "accepted" <=> ~(\/ input.directory
                           \/ Excluded(input.text, relative)
                           \/ Excluded(input.programs, input.requestor)))

(* However the driver spells it, a file of the share is known by one root  *)
(* and one relative path, and joined to the source's they name it again.   *)
(* A path of a device may name one session before the server.  The source  *)
(* is \\server\share, with any separators and any number at its end.       *)
Spelled(names) == <<Sep, Sep>> \o Join(names, Sep)
Remote(names) ==
  /\ Len(names) > 2 /\ EqualIgnoreCase(names[1], <<"Device">>)
  /\ \E r \in Redirectors : EqualIgnoreCase(names[2], r)
Names(path) ==
  LET names == Components(path)
  IN  IF IsPrefix(<<Sep, Sep>>, NormalizeSeparators(path)) THEN names
      ELSE IF ~Remote(names) THEN <<>>
      ELSE From(names, IF Head(names[3]) = ";" THEN 4 ELSE 3)
IsShare(path) ==
  Len(Components(path)) = 2 /\ JoinRootRelative(path, <<>>) = Spelled(Components(path))
IsOf(path) ==
  /\ Len(Names(path)) >= 2
  /\ \A i \in 1..2 : EqualIgnoreCase(Names(path)[i], Components(input.source)[i])
NamesFile ==
  pc # "map" /\ IsShare(input.source) =>
    /\ IsOf(input.observed) \/ pc = "dropped"
    /\ IsOf(input.observed) /\ Len(Names(input.observed)) > 2 =>
         EqualIgnoreCase(JoinRootRelative(input.source, relative), Spelled(Names(input.observed)))

(* A pattern list survives being saved and loaded again. *)
PatternsKept ==
  Done => LET list == SplitPatterns(input.text) IN SplitPatterns(JoinPatterns(list)) = list

(* The matcher never turns in a circle: within an attempt the last star    *)
(* takes more and more of the value, and between two such moves pattern    *)
(* and value are only consumed.  With TypeOK's bounds on the indices, and  *)
(* no deadlock short of Finished, every event is decided.                  *)
MovesOn ==
  [][pc' = pc /\ UNCHANGED <<phase, patterns, value>> =>
       \/ starMatch' > starMatch
       \/ starMatch' = starMatch /\ pat' + val' > pat + val]_vars

=============================================================================
