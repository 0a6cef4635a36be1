-------------------------- MODULE CopyEngineProofs --------------------------
(***************************************************************************)
(* Proofs about CopyEngine: type correctness, what a returned copy means,  *)
(* and that the engine implements AtomicReplace.                           *)
(***************************************************************************)
EXTENDS CopyEngine, SequenceTheorems, TLAPS

(* A content is a sequence of at most MaxChunks chunks. *)
LEMMA ContentIsSeq ==
  ASSUME NEW c
  PROVE  c \in Content <=> c \in Seq(Chunks) /\ Len(c) <= MaxChunks
<1>1. ASSUME c \in Content PROVE c \in Seq(Chunks) /\ Len(c) <= MaxChunks
  <2>1. PICK n \in 0..MaxChunks : c \in [1..n -> Chunks]
    BY <1>1 DEF Content
  <2>2. c \in Seq(Chunks) /\ Len(c) = n
    BY <2>1, EngineAssumption
  <2>3. QED
    BY <2>2, EngineAssumption
<1>2. ASSUME c \in Seq(Chunks), Len(c) <= MaxChunks PROVE c \in Content
  <2>1. Len(c) \in 0..MaxChunks /\ c \in [1..Len(c) -> Chunks]
    BY <1>2, LenProperties, EngineAssumption
  <2>2. QED
    BY <2>1 DEF Content
<1>3. QED
  BY <1>1, <1>2

(* The file without chunks. *)
LEMMA EmptyContent == <<>> \in Content /\ Len(<<>>) = 0
<1>1. <<>> \in Seq(Chunks) /\ Len(<<>>) = 0
  BY EmptySeq
<1>2. 0 <= MaxChunks
  BY EngineAssumption
<1>3. QED
  BY <1>1, <1>2, ContentIsSeq

(* The next chunk of a longer file may be appended to a content. *)
LEMMA AppendChunk ==
  ASSUME NEW c \in Content, NEW f \in Content, Len(c) < Len(f)
  PROVE  LET e == f[Len(c) + 1]
             d == Append(c, e)
         IN /\ d \in Content /\ Len(d) = Len(c) + 1 /\ d # <<>> /\ d[Len(d)] = e
            /\ \A i \in 1..Len(c) : d[i] = c[i]
            /\ e \in Chunks
<1> DEFINE e == f[Len(c) + 1]
           d == Append(c, e)
<1>1. c \in Seq(Chunks) /\ f \in Seq(Chunks) /\ Len(f) <= MaxChunks
  BY ContentIsSeq
<1>2. e \in Chunks
  BY <1>1, LenProperties, ElementOfSeq
<1>3. d \in Seq(Chunks) /\ Len(d) = Len(c) + 1 /\ d[Len(d)] = e
  BY <1>1, <1>2
<1>4. \A i \in 1..Len(c) : d[i] = c[i]
  BY <1>1, <1>2
<1>5. d # <<>>
  BY <1>1, <1>3, LenProperties, EmptySeq
<1>6. d \in Content
  <2>1. Len(c) \in Nat /\ Len(f) \in Nat /\ MaxChunks \in Nat
    BY <1>1, LenProperties, EngineAssumption
  <2>2. Len(d) <= MaxChunks
    BY <1>1, <1>3, <2>1
  <2>3. QED
    BY <1>3, <2>2, ContentIsSeq
<1>7. QED
  BY <1>2, <1>3, <1>4, <1>5, <1>6

-----------------------------------------------------------------------------

(* What may have been read so far is within what was seen, and while nobody *)
(* touched the source it is a prefix of it: what TypeOK lacks to be         *)
(* inductive for the outcome of a copy.                                    *)
Within(c) == \A i \in 1..Len(c) : c[i] \in seen[i]

SeenInv ==
  /\ pc \in {"create", "loop", "write"} => Within(Held)
  /\ pc \in {"loop", "write", "publish"} => Within(hashed)

Prefix(c, f) == Len(c) <= Len(f) /\ \A i \in 1..Len(c) : c[i] = f[i]

QuietInv ==
  quiet =>
    /\ pc \in {"compare", "hashOpen", "hash", "open", "create", "loop", "write", "publish"} =>
         source # None /\ result.sourceSize = Len(source)
    /\ pc \in {"hashOpen", "hash", "publish"} => result.cachedSize = result.sourceSize
    /\ handle # None => handle = Live
    /\ pc \in {"hash", "loop", "write"} => Prefix(hashed, source)
    /\ pc = "publish" => hashed = source

OutcomeInv == DigestOfCache /\ UndisturbedCopy /\ NoPartialFile

-----------------------------------------------------------------------------
(* Type correctness.                                                       *)

(* The records and histories the engine starts from are typed. *)
LEMMA Blank ==
  /\ NoResult \in [action : Actions, sourceSize : 0..MaxChunks,
                   cachedSize : 0..MaxChunks, hash : Content \cup {None}]
  /\ Nothing \in [1..MaxChunks -> SUBSET Chunks]
<1>1. 0 \in 0..MaxChunks
  BY EngineAssumption
<1>2. QED
  BY <1>1 DEF NoResult, Nothing, Actions

(* The initial states are typed. *)
LEMMA InitTypes == Init => TypeOK
BY EmptyContent, Blank, EngineAssumption DEF Init, TypeOK, Opened

(* An open handle always has some content behind it. *)
LEMMA HeldIsContent == TypeOK /\ handle # None => Held \in Content
BY DEF TypeOK, Held

(* Returning, from any point and with any outcome, keeps the types. *)
LEMMA ReturnTypes ==
  ASSUME TypeOK, NEW action \in Actions, Return(action),
         cache' \in Content \cup {None}, temp' \in Content \cup {None}
  PROVE  TypeOK'
BY EmptyContent, EngineAssumption DEF TypeOK, Return, World, Nothing, Opened

(* The part of a step that reads one more chunk. *)
LEMMA ReadTypes ==
  ASSUME TypeOK, pc \in {"hash", "loop"}, More
  PROVE  LET h == Append(hashed, Held[Len(hashed) + 1])
         IN h \in Content /\ h # <<>> /\ h = Append(hashed, h[Len(h)])
<1>1. Held \in Content /\ hashed \in Content
  BY HeldIsContent DEF TypeOK
<1>2. QED
  BY <1>1, AppendChunk DEF More

(* Adding contents to what was seen keeps its type. *)
LEMMA AddingTypes ==
  ASSUME TypeOK, NEW f \in Content \cup {None}
  PROVE  Adding(f) \in [1..MaxChunks -> SUBSET Chunks]
<1>1. ASSUME f # None, NEW i \in 1..MaxChunks, i <= Len(f) PROVE f[i] \in Chunks
  BY <1>1, ContentIsSeq, LenProperties, ElementOfSeq, EngineAssumption
<1>2. QED
  BY <1>1 DEF Adding, TypeOK

(* Sizes of files are sizes of files. *)
LEMMA SizeTypes ==
  ASSUME NEW f \in Content PROVE Len(f) \in 0..MaxChunks
BY ContentIsSeq, LenProperties, EngineAssumption

(* Every step keeps the types. *)
LEMMA StepTypes == TypeOK /\ [Next]_vars => TypeOK'
<1> SUFFICES ASSUME TypeOK, [Next]_vars PROVE TypeOK'
  OBVIOUS
<1> USE EngineAssumption
<1>1. CASE Call
  BY <1>1, Blank DEF TypeOK, Call, Opened
<1>2. CASE TakeResult
  BY <1>2 DEF TypeOK, TakeResult, Opened
<1>3. CASE RemoveCached
  BY <1>3 DEF TypeOK, RemoveCached, Opened
<1>4. CASE Inspect
  BY <1>4, SizeTypes DEF TypeOK, Inspect, World, Opened
<1>5. CASE InspectMissing \/ OpenMissing \/ FailEarly \/ HashThrows \/ PublishFails
  BY <1>5, ReturnTypes DEF TypeOK, InspectMissing, OpenMissing, FailEarly, HashThrows,
     PublishFails, Actions
<1>6. CASE Cancel \/ BreakOff
  BY <1>6, ReturnTypes DEF TypeOK, Cancel, BreakOff, Actions
<1>7. CASE Publish
  BY <1>7, ReturnTypes DEF TypeOK, Publish, Actions
<1>8. CASE SkipSameSize \/ CompareDigests \/ Differs
  BY <1>8, SizeTypes DEF TypeOK, SkipSameSize, CompareDigests, Differs, SameSize, Sized,
     World, Opened, Actions
<1>9. CASE HashOpen
  BY <1>9 DEF TypeOK, HashOpen, World, Opened
<1>10. CASE HashChunk
  BY <1>10, ReadTypes DEF TypeOK, HashChunk, World, Opened
<1>11. CASE DigestsMatch
  BY <1>11, EmptyContent DEF TypeOK, DigestsMatch, World, Opened, Actions
<1>12. CASE DigestsDiffer
  BY <1>12, EmptyContent DEF TypeOK, DigestsDiffer, World, Opened
<1>13. CASE OpenSource
  <2>1. [i \in 1..MaxChunks |-> IF i <= Len(source) THEN {source[i]} ELSE {}]
          \in [1..MaxChunks -> SUBSET Chunks]
    <3>1. source \in Content
      BY <1>13 DEF TypeOK, OpenSource
    <3>2. ASSUME NEW i \in 1..MaxChunks, i <= Len(source) PROVE source[i] \in Chunks
      BY <3>1, <3>2, ContentIsSeq, LenProperties, ElementOfSeq
    <3>3. QED
      BY <3>2
  <2>2. QED
    BY <1>13, <2>1 DEF TypeOK, OpenSource, World, Opened
<1>14. CASE CreateTemp
  BY <1>14, EmptyContent DEF TypeOK, CreateTemp, World, Opened
<1>15. CASE ReadChunk
  BY <1>15, ReadTypes DEF TypeOK, ReadChunk, World, Opened
<1>16. CASE WriteChunk
  BY <1>16 DEF TypeOK, WriteChunk, World, Opened
<1>17. CASE EndOfFile
  BY <1>17 DEF TypeOK, EndOfFile, World, Opened
<1>18. ASSUME NEW f \in Content \cup {None}, Touch(f) PROVE seen' \in [1..MaxChunks -> SUBSET Chunks]
  BY <1>18, AddingTypes DEF TypeOK, Touch
<1>19. ASSUME NEW f \in Content, SourceWrite(f) PROVE TypeOK'
  BY <1>19, <1>18 DEF TypeOK, SourceWrite, Touch, Opened
<1>20. ASSUME NEW f \in Content \cup {None}, SourceReplace(f) PROVE TypeOK'
  <2>1. /\ handle' \in Content \cup {None} /\ (handle' = None <=> handle = None)
        /\ handle' # Live
    BY <1>20 DEF TypeOK, SourceReplace
  <2>2. Touch(f) /\ seen' \in [1..MaxChunks -> SUBSET Chunks]
    BY <1>20, <1>18 DEF SourceReplace
  <2>3. /\ source' \in Content \cup {None} /\ quiet' \in BOOLEAN
        /\ UNCHANGED <<cache, temp, compare, pc, hashed, result, cancelled>>
        /\ ~Opened => seen' = seen
    BY <1>20, <2>2 DEF Touch
  <2>4. QED
    BY <2>1, <2>2, <2>3 DEF TypeOK, Opened
<1>21. CASE RequestStop
  BY <1>21 DEF TypeOK, RequestStop, Opened
<1>22. CASE ExternalRemove
  BY <1>22 DEF TypeOK, ExternalRemove, Opened
<1>23. CASE Lost
  BY <1>23, EmptyContent, Blank DEF TypeOK, Lost, Opened
<1>24. CASE UNCHANGED vars
  BY <1>24 DEF TypeOK, vars, Opened
<1>25. QED
  BY <1>1, <1>2, <1>3, <1>4, <1>5, <1>6, <1>7, <1>8, <1>9, <1>10, <1>11, <1>12, <1>13, <1>14,
     <1>15, <1>16, <1>17, <1>19, <1>20, <1>21, <1>22, <1>23, <1>24
     DEF Next, EngineStep, WorldStep

(* In every state the locals of copy_and_hash are what the point it has     *)
(* reached says, and the temporary file holds the chunks hashed.           *)
THEOREM TypeCorrect == Spec => []TypeOK
BY InitTypes, StepTypes, PTL DEF Spec

-----------------------------------------------------------------------------
(* What a copy has read was seen, and the abstract specification.          *)

(* Adding a content to what was seen keeps it all and covers the content.  *)
LEMMA AddingCovers ==
  ASSUME TypeOK, NEW f \in Content \cup {None}
  PROVE  /\ \A i \in 1..MaxChunks : seen[i] \subseteq Adding(f)[i]
         /\ f # None => \A i \in 1..Len(f) : f[i] \in Adding(f)[i]
<1>1. f # None => Len(f) \in 0..MaxChunks
  BY SizeTypes
<1>2. QED
  BY <1>1, EngineAssumption DEF Adding

(* Every step keeps within what was seen. *)
LEMMA StepSeen == TypeOK /\ SeenInv /\ [Next]_vars => SeenInv'
<1> SUFFICES ASSUME TypeOK, SeenInv, [Next]_vars PROVE SeenInv'
  OBVIOUS
<1>0. TypeOK'
  BY StepTypes
<1>1. CASE OpenSource
  <2>1. source \in Content /\ Len(source) \in 0..MaxChunks
    BY <1>1, SizeTypes DEF TypeOK, OpenSource
  <2>2. Held' = source /\ pc' = "create"
    BY <1>1 DEF OpenSource, World, Held
  <2>3. QED
    BY <1>1, <2>1, <2>2, EngineAssumption DEF SeenInv, Within, OpenSource
<1>2. CASE CreateTemp
  BY <1>2, EmptyContent DEF SeenInv, Within, CreateTemp, World, TypeOK, Held
<1>3. CASE ReadChunk
  <2>1. hashed \in Content /\ Held \in Content /\ Len(hashed) < Len(Held)
    BY <1>3, HeldIsContent DEF TypeOK, ReadChunk, More
  <2>2. Within(Held) /\ Within(hashed) /\ pc' = "write" /\ Held' = Held /\ seen' = seen
    BY <1>3 DEF SeenInv, ReadChunk, World, Held
  <2>3. Len(hashed) \in Nat /\ Len(Held) \in Nat
    BY <2>1, SizeTypes, EngineAssumption
  <2>4. Held[Len(hashed) + 1] \in seen[Len(hashed) + 1]
    BY <2>1, <2>2, <2>3 DEF Within
  <2>5. Len(hashed') = Len(hashed) + 1 /\ hashed'[Len(hashed) + 1] = Held[Len(hashed) + 1]
    BY <1>3, <2>1, AppendChunk DEF ReadChunk
  <2>6. \A i \in 1..Len(hashed) : hashed'[i] = hashed[i]
    BY <1>3, <2>1, AppendChunk DEF ReadChunk
  <2>7. Within(hashed)'
    BY <2>2, <2>3, <2>4, <2>5, <2>6 DEF Within
  <2>8. Within(Held)'
    BY <2>2 DEF Within
  <2>9. QED
    BY <2>2, <2>7, <2>8 DEF SeenInv
<1>4. CASE WriteChunk
  BY <1>4 DEF SeenInv, Within, WriteChunk, World, Held
<1>5. CASE EndOfFile
  BY <1>5 DEF SeenInv, Within, EndOfFile, World
<1>6. ASSUME NEW f \in Content \cup {None}, SourceWrite(f) \/ SourceReplace(f) PROVE SeenInv'
  <2>1. CASE ~Opened
    BY <1>6, <2>1 DEF SeenInv, Opened, SourceWrite, SourceReplace, Touch
  <2>2. CASE Opened
    <3>1. pc' = pc /\ hashed' = hashed /\ seen' = Adding(f) /\ source' = f
      BY <1>6, <2>2 DEF SourceWrite, SourceReplace, Touch
    <3>2. \A c \in Content : Within(c) => \A i \in 1..Len(c) : c[i] \in Adding(f)[i]
      BY AddingCovers, SizeTypes, EngineAssumption DEF Within
    <3>3. pc \in {"create", "loop", "write"} => Held' = Held \/ (Held' = f /\ f # None)
      BY <1>6, <1>0, <3>1 DEF SourceWrite, SourceReplace, Touch, Held, TypeOK
    <3>4. pc \in {"create", "loop", "write"} => Held \in Content
      BY HeldIsContent DEF TypeOK
    <3>5. pc \in {"create", "loop", "write"} => Within(Held)'
      BY <3>1, <3>2, <3>3, <3>4, AddingCovers DEF SeenInv, Within
    <3>6. pc \in {"loop", "write", "publish"} => Within(hashed)'
      BY <3>1, <3>2 DEF SeenInv, Within, TypeOK
    <3>7. QED
      BY <3>1, <3>5, <3>6 DEF SeenInv
  <2>3. QED
    BY <2>1, <2>2
<1>7. CASE RequestStop \/ ExternalRemove \/ UNCHANGED vars
  BY <1>7 DEF SeenInv, Within, RequestStop, ExternalRemove, vars, Held
<1>8. CASE Call \/ TakeResult \/ RemoveCached \/ Inspect \/ SkipSameSize \/ CompareDigests
           \/ Differs \/ HashOpen \/ HashChunk \/ DigestsMatch \/ DigestsDiffer \/ Lost
  BY <1>8 DEF SeenInv, Call, TakeResult, RemoveCached, Inspect, SkipSameSize, CompareDigests,
     Differs, HashOpen, HashChunk, DigestsMatch, DigestsDiffer, Lost
<1>9. CASE InspectMissing \/ HashThrows \/ OpenMissing \/ Cancel \/ BreakOff \/ Publish
           \/ PublishFails \/ FailEarly
  BY <1>9 DEF SeenInv, InspectMissing, HashThrows, OpenMissing, Cancel, BreakOff, Publish,
     PublishFails, FailEarly, Return
<1>10. QED
  BY <1>1, <1>2, <1>3, <1>4, <1>5, <1>6, <1>7, <1>8, <1>9 DEF Next, EngineStep, WorldStep

(* The engine's steps are steps of AtomicReplace or change nothing of it.  *)
LEMMA StepRefines ==
  TypeOK /\ SeenInv /\ [Next]_vars => [Abstract!Next]_(Abstract!vars)
<1> SUFFICES ASSUME TypeOK, SeenInv, [Next]_vars PROVE [Abstract!Next]_(Abstract!vars)
  OBVIOUS
<1> USE DEF Abstract!vars, Abstract!Next
<1>1. CASE OpenSource
  BY <1>1 DEF OpenSource, World, Opened, Abstract!Begin
<1>2. CASE Publish
  <2>1. temp \in Content /\ Abstract!ReadThrough(temp)
    BY <1>2 DEF Publish, TypeOK, SeenInv, Within, Abstract!ReadThrough
  <2>2. Abstract!Publish(temp)
    BY <1>2, <2>1 DEF Publish, Return, World, Opened, Abstract!Publish, Abstract!Nothing, Nothing
  <2>3. QED
    BY <2>1, <2>2 DEF Abstract!Content, Content
<1>3. CASE Cancel \/ BreakOff \/ PublishFails
  BY <1>3 DEF Cancel, BreakOff, PublishFails, Return, World, Opened, Abstract!Abandon,
     Abstract!Nothing, Nothing
<1>4. CASE FailEarly \/ Lost
  <2>1. seen' = Nothing /\ UNCHANGED <<source, cache>> /\ Opened' = FALSE
    BY <1>4 DEF FailEarly, Lost, Return, World, Opened
  <2>2. CASE Opened
    BY <2>1, <2>2 DEF Abstract!Abandon, Abstract!Nothing, Nothing
  <2>3. CASE ~Opened
    BY <2>1, <2>3 DEF TypeOK, Opened
  <2>4. QED
    BY <2>2, <2>3
<1>5. CASE InspectMissing \/ HashThrows \/ OpenMissing
  BY <1>5 DEF InspectMissing, HashThrows, OpenMissing, Return, World, Opened, TypeOK
<1>6. CASE RemoveCached \/ ExternalRemove
  BY <1>6 DEF RemoveCached, ExternalRemove, Opened, Abstract!Remove
<1>7. ASSUME NEW f \in Content \cup {None}, SourceWrite(f) \/ SourceReplace(f)
      PROVE  [Abstract!Next]_(Abstract!vars)
  <2>1. Abstract!Edit(f)
    BY <1>7 DEF SourceWrite, SourceReplace, Touch, Adding, Opened, Abstract!Edit, Abstract!Adding
  <2>2. QED
    BY <1>7, <2>1 DEF Abstract!Content, Content
<1>8. CASE Call \/ TakeResult \/ Inspect \/ SkipSameSize \/ CompareDigests \/ Differs
           \/ HashOpen \/ HashChunk \/ DigestsMatch \/ DigestsDiffer \/ CreateTemp
           \/ ReadChunk \/ WriteChunk \/ EndOfFile \/ RequestStop \/ UNCHANGED vars
  BY <1>8 DEF Call, TakeResult, Inspect, SkipSameSize, CompareDigests, Differs, HashOpen,
     HashChunk, DigestsMatch, DigestsDiffer, CreateTemp, ReadChunk, WriteChunk, EndOfFile,
     RequestStop, World, Opened, vars
<1>9. QED
  BY <1>1, <1>2, <1>3, <1>4, <1>5, <1>6, <1>7, <1>8 DEF Next, EngineStep, WorldStep

(* The cache file is only ever replaced as a whole, by chunks the source    *)
(* held while the copy had it open: the engine implements AtomicReplace.   *)
THEOREM Refines == Spec => ReplacesAtomically
<1>1. Init => SeenInv
  BY DEF Init, SeenInv
<1>2. Init => Abstract!Init
  BY DEF Init, Abstract!Init, Abstract!Content, Content, Abstract!Nothing, Nothing, Opened
<1>3. Spec => [](TypeOK /\ SeenInv)
  BY <1>1, InitTypes, StepTypes, StepSeen, PTL DEF Spec
<1>4. QED
  BY <1>2, <1>3, StepRefines, PTL DEF Spec, ReplacesAtomically, Abstract!Spec

-----------------------------------------------------------------------------
(* What a returned copy means.                                             *)

(* Reading on extends the prefix of an untouched source. *)
LEMMA PrefixGrows ==
  ASSUME NEW c \in Content, NEW f \in Content, Len(c) < Len(f), Prefix(c, f)
  PROVE  Prefix(Append(c, f[Len(c) + 1]), f)
<1> DEFINE d == Append(c, f[Len(c) + 1])
<1>1. Len(d) = Len(c) + 1 /\ d[Len(d)] = f[Len(c) + 1] /\ \A i \in 1..Len(c) : d[i] = c[i]
  BY AppendChunk
<1>2. Len(c) \in Nat /\ Len(f) \in Nat
  BY SizeTypes, EngineAssumption
<1>3. QED
  BY <1>1, <1>2 DEF Prefix

(* A prefix as long as the file is the file. *)
LEMMA WholePrefix ==
  ASSUME NEW c \in Content, NEW f \in Content, Prefix(c, f), ~(Len(c) < Len(f))
  PROVE  c = f
<1>1. c \in Seq(Chunks) /\ f \in Seq(Chunks)
  BY ContentIsSeq
<1>2. Len(c) = Len(f)
  BY <1>1, LenProperties DEF Prefix
<1>3. QED
  BY <1>1, <1>2, SeqEqual DEF Prefix

(* Every step keeps what is known of an untouched source. *)
LEMMA StepQuiet == TypeOK /\ QuietInv /\ [Next]_vars => QuietInv'
<1> SUFFICES ASSUME TypeOK, QuietInv, [Next]_vars PROVE QuietInv'
  OBVIOUS
<1>1. CASE HashChunk \/ ReadChunk
  <2>1. CASE quiet
    <3>1. pc \in {"hash", "loop"} /\ handle = Live /\ Held = source /\ source # None
      BY <1>1, <2>1 DEF QuietInv, TypeOK, HashChunk, ReadChunk, Held
    <3>2. source \in Content /\ hashed \in Content /\ Prefix(hashed, source) /\ Len(hashed) < Len(source)
      BY <1>1, <2>1, <3>1 DEF QuietInv, TypeOK, HashChunk, ReadChunk, More
    <3>3. Prefix(hashed', source)
      BY <1>1, <3>1, <3>2, PrefixGrows DEF HashChunk, ReadChunk
    <3>4. QED
      BY <1>1, <2>1, <3>1, <3>3 DEF QuietInv, HashChunk, ReadChunk, World
  <2>2. CASE ~quiet
    BY <1>1, <2>2 DEF QuietInv, HashChunk, ReadChunk, World
  <2>3. QED
    BY <2>1, <2>2
<1>2. CASE EndOfFile
  <2>1. quiet => hashed = source
    <3>1. quiet => Held = source /\ source # None /\ Prefix(hashed, source)
      BY <1>2 DEF QuietInv, TypeOK, EndOfFile, Held
    <3>2. QED
      BY <1>2, <3>1, WholePrefix DEF TypeOK, EndOfFile, More
  <2>2. QED
    BY <1>2, <2>1 DEF QuietInv, EndOfFile, World
<1>3. CASE Inspect \/ InspectMissing \/ Call \/ TakeResult \/ RemoveCached
  BY <1>3 DEF QuietInv, TypeOK, Inspect, InspectMissing, Call, TakeResult, RemoveCached, Return, World
<1>4. CASE SkipSameSize \/ CompareDigests \/ Differs
  BY <1>4 DEF QuietInv, TypeOK, SkipSameSize, CompareDigests, Differs, SameSize, Sized, World
<1>5. CASE HashOpen \/ CreateTemp
  <2>1. hashed = <<>> /\ hashed' = <<>>
    BY <1>5 DEF TypeOK, HashOpen, CreateTemp
  <2>2. quiet /\ source # None => Prefix(<<>>, source)
    BY EmptyContent, SizeTypes, EngineAssumption DEF Prefix, TypeOK
  <2>3. QED
    BY <1>5, <2>1, <2>2 DEF QuietInv, HashOpen, CreateTemp, World
<1>6. CASE DigestsMatch \/ DigestsDiffer \/ OpenSource
  BY <1>6 DEF QuietInv, TypeOK, DigestsMatch, DigestsDiffer, OpenSource, World
<1>7. CASE WriteChunk
  BY <1>7 DEF QuietInv, WriteChunk, World
<1>8. CASE OpenMissing \/ HashThrows \/ FailEarly \/ Cancel \/ BreakOff \/ Publish \/ PublishFails
  BY <1>8 DEF QuietInv, OpenMissing, HashThrows, FailEarly, Cancel, BreakOff, Publish,
     PublishFails, Return, World
<1>9. ASSUME NEW f \in Content \cup {None}, SourceWrite(f) \/ SourceReplace(f) PROVE QuietInv'
  BY <1>9 DEF QuietInv, SourceWrite, SourceReplace, Touch
<1>10. CASE RequestStop \/ ExternalRemove \/ Lost \/ UNCHANGED vars
  BY <1>10 DEF QuietInv, RequestStop, ExternalRemove, Lost, vars
<1>11. QED
  BY <1>1, <1>2, <1>3, <1>4, <1>5, <1>6, <1>7, <1>8, <1>9, <1>10 DEF Next, EngineStep, WorldStep

(* Every step keeps what a returned copy means. *)
LEMMA StepOutcome == TypeOK /\ QuietInv /\ OutcomeInv /\ [Next]_vars => OutcomeInv'
<1> SUFFICES ASSUME TypeOK, QuietInv, OutcomeInv, [Next]_vars PROVE OutcomeInv'
  OBVIOUS
<1> USE DEF OutcomeInv, DigestOfCache, UndisturbedCopy, NoPartialFile, Outcome
<1>1. CASE Publish
  BY <1>1 DEF TypeOK, QuietInv, Publish, Return, World
<1>2. CASE DigestsMatch
  <2>1. quiet => hashed = source
    <3>1. quiet => Held = source /\ source # None /\ Prefix(hashed, source)
      BY <1>2 DEF QuietInv, TypeOK, DigestsMatch, Held
    <3>2. QED
      BY <1>2, <3>1, WholePrefix DEF TypeOK, DigestsMatch, More
  <2>2. QED
    BY <1>2, <2>1 DEF QuietInv, TypeOK, DigestsMatch, World
<1>3. CASE Cancel \/ PublishFails \/ FailEarly \/ BreakOff \/ OpenMissing \/ HashThrows
           \/ InspectMissing
  BY <1>3 DEF Cancel, PublishFails, FailEarly, BreakOff, OpenMissing, HashThrows,
     InspectMissing, Return, World, TypeOK
<1>4. CASE SkipSameSize
  BY <1>4 DEF SkipSameSize, Sized, TypeOK, World
<1>5. CASE Call \/ TakeResult \/ Inspect \/ CompareDigests \/ Differs \/ HashOpen \/ HashChunk
           \/ DigestsDiffer \/ OpenSource \/ CreateTemp \/ ReadChunk \/ WriteChunk \/ EndOfFile \/ Lost
  BY <1>5 DEF Call, TakeResult, Inspect, CompareDigests, Differs, HashOpen, HashChunk,
     DigestsDiffer, OpenSource, CreateTemp, ReadChunk, WriteChunk, EndOfFile, Lost, World
<1>6. CASE RemoveCached \/ ExternalRemove \/ RequestStop \/ UNCHANGED vars
  BY <1>6 DEF RemoveCached, ExternalRemove, RequestStop, vars
<1>7. ASSUME NEW f \in Content \cup {None}, SourceWrite(f) \/ SourceReplace(f) PROVE OutcomeInv'
  BY <1>7 DEF SourceWrite, SourceReplace, Touch
<1>8. QED
  BY <1>1, <1>2, <1>3, <1>4, <1>5, <1>6, <1>7 DEF Next, EngineStep, WorldStep

(* What a returned copy means holds in every state. *)
LEMMA OutcomesMean == Spec => []OutcomeInv
<1>1. Init => QuietInv /\ OutcomeInv
  BY DEF Init, QuietInv, OutcomeInv, DigestOfCache, UndisturbedCopy, NoPartialFile, Outcome
<1>2. QED
  BY <1>1, InitTypes, StepTypes, StepQuiet, StepOutcome, PTL DEF Spec

(* The digest a copy returns is the digest of the cache file. *)
THEOREM DigestsTrue == Spec => []DigestOfCache
<1>1. OutcomeInv => DigestOfCache
  BY DEF OutcomeInv
<1>2. QED
  BY <1>1, OutcomesMean, PTL

(* A copy of a source nobody touched meanwhile is the source. *)
THEOREM CopiesTrue == Spec => []UndisturbedCopy
<1>1. OutcomeInv => UndisturbedCopy
  BY DEF OutcomeInv
<1>2. QED
  BY <1>1, OutcomesMean, PTL

(* Neither a finished nor an aborted copy leaves a temporary file. *)
THEOREM NothingLeftBehind == Spec => []NoPartialFile
<1>1. OutcomeInv => NoPartialFile
  BY DEF OutcomeInv
<1>2. QED
  BY <1>1, OutcomesMean, PTL

=============================================================================
