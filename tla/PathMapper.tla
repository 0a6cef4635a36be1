------------------------------ MODULE PathMapper ------------------------------
(***************************************************************************)
(* Paths as src/core/path_mapper.cpp takes them apart: the UNC path of the *)
(* source, the UNC and device paths the driver reports, and the identity   *)
(* (share and relative path) they map to.                                  *)
(*                                                                         *)
(* A path is a sequence of characters; a character is whatever the code    *)
(* can tell apart, so a long name that is only compared is one character.  *)
(***************************************************************************)
EXTENDS Integers, FiniteSetsExt, SequencesExt

CONSTANTS
  Char,       \* characters
  Upper,      \* upper-case characters
  Lowered,    \* and what towlower makes of them
  None        \* no identity

Sep == "\\"
Seps == {Sep, "/"}

(* Lower-casing makes no separator, no star and nothing it would change.   *)
ASSUME CharAssumption ==
  /\ Seps \subseteq Char \ Upper
  /\ Lowered \in [Upper -> Char \ (Upper \cup Seps \cup {"*"})]

ASSUME NoneAssumption == None \notin [root : Seq(Char), relative : Seq(Char)]

IsSep(c) == c \in Seps

-----------------------------------------------------------------------------

Mapped(f(_), s) == [i \in DOMAIN s |-> f(s[i])]

LowerCopy(s) == Mapped(LAMBDA c : IF c \in Upper THEN Lowered[c] ELSE c, s)
EqualIgnoreCase(s, t) == LowerCopy(s) = LowerCopy(t)

NormalizeSeparators(s) == Mapped(LAMBDA c : IF IsSep(c) THEN Sep ELSE c, s)

(* The n-th of a finite set of indices, and the values of f at all of them *)
(* in their order.                                                         *)
Nth(S, n) == CHOOSE i \in S : Cardinality({j \in S : j < i}) = n - 1
InOrder(f(_), S) == [n \in 1..Cardinality(S) |-> f(Nth(S, n))]

(* The parts of s between characters of cut, without the empty ones. *)
Parts(s, cut) ==
  LET starts == {i \in DOMAIN s : s[i] \notin cut /\ (i = 1 \/ s[i - 1] \in cut)}
      Part(i) == LET cuts == {j \in i..Len(s) : s[j] \in cut}
                 IN  SubSeq(s, i, IF cuts = {} THEN Len(s) ELSE Min(cuts) - 1)
  IN  InOrder(Part, starts)

(* split_path_components *)
Components(s) == Parts(s, Seps)

(* The parts one after the other, with sep in between. *)
Join(parts, sep) ==
  FlattenSeq([i \in DOMAIN parts |-> IF i = 1 THEN parts[i] ELSE <<sep>> \o parts[i]])

TrimLeading(s) ==
  LET start == SelectInSeq(s, LAMBDA c : ~IsSep(c))
  IN  IF start = 0 THEN <<>> ELSE SubSeq(s, start, Len(s))

JoinRootRelative(root, relative) ==
  LET end == SelectLastInSeq(root, LAMBDA c : ~IsSep(c))
      top == NormalizeSeparators(SubSeq(root, 1, end))
      rest == NormalizeSeparators(TrimLeading(relative))
  IN  IF rest = <<>> THEN top ELSE top \o <<Sep>> \o rest

-----------------------------------------------------------------------------

(* The share is lower-cased, the relative path is not. *)
Identity(server, share, names) ==
  [root |-> LowerCopy(<<Sep, Sep>> \o server \o <<Sep>> \o share),
   relative |-> Join(names, Sep)]

From(names, i) == SubSeq(names, i, Len(names))

ParseUnc(path) ==
  LET names == Components(path)
  IN  IF IsPrefix(<<Sep, Sep>>, NormalizeSeparators(path)) /\ Len(names) >= 2
      THEN Identity(names[1], names[2], From(names, 3))
      ELSE None

(* Fault: the session component of a device path is taken for the server. *)
FaultyServerIndex(names) == 3

(* A device path may name a session (";N:...") before the server. *)
ServerIndex(names) == IF Head(names[3]) = ";" THEN 4 ELSE 3

Redirectors == {<<"LanManRedirector">>, <<"Mup">>}

ParseDevice(path) ==
  LET names == Components(path)
  IN  IF /\ Len(names) >= 4
         /\ EqualIgnoreCase(names[1], <<"Device">>)
         /\ \E r \in Redirectors : EqualIgnoreCase(names[2], r)
         /\ Len(names) >= ServerIndex(names) + 1
      THEN LET i == ServerIndex(names)
           IN  Identity(names[i], names[i + 1], From(names, i + 2))
      ELSE None

MapObserved(source, observed) ==
  LET share == ParseUnc(source)
      unc == ParseUnc(observed)
      seen == IF unc = None THEN ParseDevice(observed) ELSE unc
  IN  IF share = None \/ seen = None THEN None
      ELSE IF EqualIgnoreCase(seen.root, share.root) THEN seen ELSE None

=============================================================================
