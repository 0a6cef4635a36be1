--------------------------- MODULE EventFilterProofs ---------------------------
(***************************************************************************)
(* The events that reach the scheduler, for every list of patterns and     *)
(* every path: first what the operators on strings return and how lists of *)
(* patterns and the names of a file are taken apart and joined again, then *)
(* what a pattern means and what the matcher knows of it between two       *)
(* steps, then the order in which lists, patterns and values are tried.    *)
(***************************************************************************)
EXTENDS EventFilter, FiniteSetTheorems, SequenceTheorems, NaturalsInduction, TLAPS

-----------------------------------------------------------------------------
(* Indices.                                                                *)

(* Of a set of numbers one is the least. *)
LEMMA Least ==
  ASSUME NEW S \in SUBSET Nat, S # {}
  PROVE  \E n \in S : \A m \in S : n <= m
<1>1. PICK n \in S : \A m \in S : <<m, n>> \notin OpToRel(<, Nat)
  BY NatLessThanWellFounded, WFMin
<1>2. \A m \in S : ~(m < n)
  BY <1>1 DEF OpToRel
<1>. QED
  BY <1>2

(* Of the indices of a sequence one is the last. *)
LEMMA Greatest ==
  ASSUME NEW b \in Nat, NEW S \in SUBSET (0..b), S # {}
  PROVE  \E n \in S : \A m \in S : n >= m
<1>. DEFINE T == {k \in Nat : b - k \in S}
<1>1. PICK k \in T : \A m \in T : k <= m
  <2>1. PICK n \in S : TRUE
    OBVIOUS
  <2>2. n \in 0..b /\ b - (b - n) = n
    OBVIOUS
  <2>3. b - n \in T
    BY <2>1, <2>2
  <2>4. T \in SUBSET Nat /\ T # {}
    BY <2>3
  <2>. HIDE DEF T
  <2>. QED
    BY <2>4, Least
<1>2. ASSUME NEW m \in S PROVE b - k >= m
  <2>1. m \in 0..b /\ b - (b - m) = m
    OBVIOUS
  <2>2. b - m \in T
    BY <2>1
  <2>. QED
    BY <2>1, <2>2, <1>1
<1>. QED
  BY <1>1, <1>2

-----------------------------------------------------------------------------
(* Indices in their order.                                                 *)

(* The indices of S below i. *)
Below(S, i) == {j \in S : j < i}

LEMMA IndicesFinite ==
  ASSUME NEW b \in Nat, NEW S \in SUBSET (0..b)
  PROVE  IsFiniteSet(S) /\ Cardinality(S) \in Nat
<1>1. IsFiniteSet(0..b)
  BY FS_Interval
<1>. QED
  BY <1>1, FS_Subset, FS_CardinalityType

LEMMA BelowFinite ==
  ASSUME NEW b \in Nat, NEW S \in SUBSET (0..b), NEW i \in Int
  PROVE  /\ IsFiniteSet(S) /\ Cardinality(S) \in Nat
         /\ IsFiniteSet(Below(S, i)) /\ Cardinality(Below(S, i)) \in Nat
BY IndicesFinite, FS_Subset, FS_CardinalityType DEF Below

(* An index comes after those below it, and two have different ranks. *)
LEMMA RankOf ==
  ASSUME NEW b \in Nat, NEW S \in SUBSET (0..b), NEW i \in S
  PROVE  /\ Cardinality(Below(S, i)) + 1 \in 1..Cardinality(S)
         /\ \A k \in S : i < k => Cardinality(Below(S, i)) < Cardinality(Below(S, k))
<1>1. \A k \in Int : /\ IsFiniteSet(S) /\ Cardinality(S) \in Nat
                     /\ IsFiniteSet(Below(S, k)) /\ Cardinality(Below(S, k)) \in Nat
  BY BelowFinite
<1>2. i \in Int /\ \A j \in S : j \in Int
  OBVIOUS
<1>3. Below(S, i) \in SUBSET S /\ i \in S /\ i \notin Below(S, i)
  BY <1>2 DEF Below
<1>4. Cardinality(Below(S, i)) < Cardinality(S)
  BY <1>1, <1>2, <1>3, FS_Subset
<1>5. ASSUME NEW k \in S, i < k PROVE Cardinality(Below(S, i)) < Cardinality(Below(S, k))
  <2>0. \A j \in S : j < i => j < k
    BY <1>2, <1>5
  <2>1. Below(S, i) \in SUBSET Below(S, k) /\ i \in Below(S, k)
    BY <2>0, <1>5 DEF Below
  <2>. QED
    BY <2>1, <1>1, <1>2, <1>3, FS_Subset
<1>. QED
  BY <1>1, <1>2, <1>4, <1>5

(* Every number up to their number is the rank of one of them. *)
LEMMA RankedExists ==
  ASSUME NEW b \in Nat, NEW S \in SUBSET (0..b), NEW n \in 1..Cardinality(S)
  PROVE  \E i \in S : Cardinality(Below(S, i)) = n - 1
<1>. DEFINE R == {m \in 0..(b + 1) : Cardinality(Below(S, m)) >= n}
<1>1. \A k \in Int : /\ IsFiniteSet(S) /\ Cardinality(S) \in Nat
                     /\ IsFiniteSet(Below(S, k)) /\ Cardinality(Below(S, k)) \in Nat
  BY BelowFinite
<1>0. \A j \in S : j \in Nat /\ j <= b
  OBVIOUS
<1>2. b + 1 \in R
  <2>0. \A j \in S : j < b + 1
    BY <1>0
  <2>1. Below(S, b + 1) = S
    BY <2>0, Zenon DEF Below
  <2>. QED
    BY <2>1, <1>1
<1>3. PICK m \in R : \A k \in R : m <= k
  <2>1. R \in SUBSET Nat /\ R # {}
    BY <1>2
  <2>. HIDE DEF R
  <2>. QED
    BY <2>1, Least
<1>4. m # 0
  <2>0. \A j \in S : ~(j < 0)
    BY <1>0
  <2>1. Below(S, 0) = {}
    BY <2>0, Zenon DEF Below
  <2>. QED
    BY <2>1, <1>1, <1>3, FS_EmptySet
<1>5. m - 1 \in 0..(b + 1) /\ m - 1 \notin R
  BY <1>3, <1>4
<1>6. Cardinality(Below(S, m - 1)) < n /\ Cardinality(Below(S, m)) >= n
  BY <1>1, <1>3, <1>5
<1>7. CASE m - 1 \in S
  <2>0. ~(m - 1 < m - 1) /\ m - 1 < m /\ \A j \in S : j < m <=> j < m - 1 \/ j = m - 1
    BY <1>0, <1>5
  <2>1. Below(S, m) = Below(S, m - 1) \cup {m - 1} /\ m - 1 \notin Below(S, m - 1)
    BY <2>0, <1>7, Zenon DEF Below
  <2>2. m - 1 \in Int
    BY <1>5
  <2>3. Cardinality(Below(S, m)) = Cardinality(Below(S, m - 1)) + 1
    BY <2>1, <2>2, <1>1, FS_AddElement
  <2>. QED
    BY <2>2, <2>3, <1>1, <1>6, <1>7
<1>8. CASE m - 1 \notin S
  <2>0. \A j \in S : j < m <=> j < m - 1
    BY <1>0, <1>5, <1>8
  <2>1. Below(S, m) = Below(S, m - 1)
    BY <2>0, Zenon DEF Below
  <2>. QED
    BY <2>1, <1>1, <1>5, <1>6
<1>. QED
  BY <1>7, <1>8

LEMMA NthIn ==
  ASSUME NEW b \in Nat, NEW S \in SUBSET (0..b), NEW n \in 1..Cardinality(S)
  PROVE  Nth(S, n) \in S
BY RankedExists DEF Nth, Below

(* The rank tells which it is. *)
LEMMA NthIs ==
  ASSUME NEW b \in Nat, NEW S \in SUBSET (0..b), NEW i \in S, NEW n \in Nat,
         Cardinality(Below(S, i)) = n - 1
  PROVE  Nth(S, n) = i
<1>1. \A k \in S : k \in Int /\ Cardinality(Below(S, k)) \in Nat
  <2>1. \A k \in Int : Cardinality(Below(S, k)) \in Nat
    BY BelowFinite
  <2>2. \A k \in S : k \in Int
    OBVIOUS
  <2>. QED
    BY <2>1, <2>2
<1>2. \A j, k \in S : j < k => Cardinality(Below(S, j)) < Cardinality(Below(S, k))
  BY RankOf
<1>3. ASSUME NEW k \in S, Cardinality(Below(S, k)) = n - 1 PROVE k = i
  BY <1>1, <1>2, <1>3
<1>. QED
  BY <1>3 DEF Nth, Below

(* So in their order each of them comes, at its rank. *)
LEMMA NthRank ==
  ASSUME NEW b \in Nat, NEW S \in SUBSET (0..b), NEW i \in S
  PROVE  \E n \in 1..Cardinality(S) : Nth(S, n) = i
<1>. DEFINE n == Cardinality(Below(S, i)) + 1
<1>1. n \in 1..Cardinality(S)
  BY RankOf
<1>2. Cardinality(Below(S, i)) \in Nat
  <2>1. i \in Int
    OBVIOUS
  <2>. QED
    BY <2>1, BelowFinite
<1>3. n \in Nat /\ Cardinality(Below(S, i)) = n - 1
  BY <1>2
<1>. HIDE DEF n
<1>. QED
  BY <1>1, <1>3, NthIs

(* One that is greater than the others comes last. *)
LEMMA NthMore ==
  ASSUME NEW b \in Nat, NEW S \in SUBSET (0..b), NEW a \in Nat, b < a
  PROVE  /\ Cardinality(S \cup {a}) = Cardinality(S) + 1
         /\ \A n \in 1..Cardinality(S) : Nth(S \cup {a}, n) = Nth(S, n)
         /\ Nth(S \cup {a}, Cardinality(S) + 1) = a
<1>. DEFINE T == S \cup {a}
<1>1. a \in Int /\ IsFiniteSet(S) /\ Cardinality(S) \in Nat /\ T \in SUBSET (0..a)
  BY BelowFinite
<1>2. a \notin S /\ (\A i \in S : i < a) /\ ~(a < a)
  OBVIOUS
<1>3. Cardinality(T) = Cardinality(S) + 1
  BY <1>1, <1>2, FS_AddElement
<1>4. ASSUME NEW n \in 1..Cardinality(S) PROVE Nth(T, n) = Nth(S, n)
  <2>1. PICK i \in S : Cardinality(Below(S, i)) = n - 1
    BY RankedExists
  <2>2. n \in Nat /\ ~(a < i)
    BY <1>1
  <2>3. Below(T, i) = Below(S, i)
    BY <2>2, Zenon DEF Below
  <2>4. i \in T
    OBVIOUS
  <2>. HIDE DEF T
  <2>5. Nth(T, n) = i
    BY <1>1, <2>1, <2>2, <2>3, <2>4, NthIs
  <2>6. Nth(S, n) = i
    BY <2>1, <2>2, NthIs
  <2>. QED
    BY <2>5, <2>6
<1>5. Nth(T, Cardinality(S) + 1) = a
  <2>1. Below(T, a) = S
    BY <1>2, Zenon DEF Below
  <2>2. a \in T /\ Cardinality(S) + 1 \in Nat /\ Cardinality(S) = (Cardinality(S) + 1) - 1
    BY <1>1
  <2>. HIDE DEF T
  <2>. QED
    BY <1>1, <2>1, <2>2, NthIs
<1>. QED
  BY <1>3, <1>4, <1>5

-----------------------------------------------------------------------------
(* Sequences of characters, and of such sequences, out of any set C.       *)

(* Where the parts of s begin, and the part that begins at i. *)
Starts(s, cut) == {i \in DOMAIN s : s[i] \notin cut /\ (i = 1 \/ s[i - 1] \in cut)}
Cuts(s, cut, i) == {j \in i..Len(s) : s[j] \in cut}
PartEnd(s, cut, i) == IF Cuts(s, cut, i) = {} THEN Len(s) ELSE Min(Cuts(s, cut, i)) - 1
PartAt(s, cut, i) == SubSeq(s, i, PartEnd(s, cut, i))

LEMMA PartsAre ==
  ASSUME NEW s, NEW cut
  PROVE  Parts(s, cut) =
           [n \in 1..Cardinality(Starts(s, cut)) |-> PartAt(s, cut, Nth(Starts(s, cut), n))]
BY DEF Parts, InOrder, Starts, Cuts, PartEnd, PartAt

(* A part is what is between its start and the next character of cut. *)
LEMMA PartEnds ==
  ASSUME NEW C, NEW s \in Seq(C), NEW cut, NEW i \in Starts(s, cut)
  PROVE  /\ i \in 1..Len(s) /\ PartEnd(s, cut, i) \in i..Len(s)
         /\ \A j \in i..PartEnd(s, cut, i) : s[j] \notin cut
         /\ PartEnd(s, cut, i) = Len(s) \/ s[PartEnd(s, cut, i) + 1] \in cut
<1>1. i \in 1..Len(s) /\ s[i] \notin cut /\ Len(s) \in Nat
  BY DEF Starts
<1>2. CASE Cuts(s, cut, i) = {}
  BY <1>1, <1>2 DEF Cuts, PartEnd
<1>3. CASE Cuts(s, cut, i) # {}
  <2>1. Cuts(s, cut, i) \in SUBSET Nat
    BY <1>1 DEF Cuts
  <2>2. \E n \in Cuts(s, cut, i) : \A m \in Cuts(s, cut, i) : n <= m
    BY <1>3, <2>1, Least
  <2>3. /\ Min(Cuts(s, cut, i)) \in Cuts(s, cut, i)
        /\ \A m \in Cuts(s, cut, i) : Min(Cuts(s, cut, i)) <= m
    BY <2>2 DEF Min
  <2>. DEFINE m == Min(Cuts(s, cut, i))
  <2>4. m \in i..Len(s) /\ s[m] \in cut /\ \A j \in i..Len(s) : s[j] \in cut => m <= j
    BY <2>3 DEF Cuts
  <2>5. PartEnd(s, cut, i) = m - 1 /\ m # i
    BY <1>1, <1>3, <2>4 DEF PartEnd
  <2>. QED
    <3>. HIDE DEF m
    <3>. QED
      BY <1>1, <2>4, <2>5
<1>. QED
  BY <1>2, <1>3

LEMMA PartsType ==
  ASSUME NEW C, NEW s \in Seq(C), NEW cut
  PROVE  Parts(s, cut) \in Seq(Seq(C))
<1>. DEFINE S == Starts(s, cut)
<1>1. Len(s) \in Nat /\ S \in SUBSET (0..Len(s))
  BY DEF Starts
<1>2. Cardinality(S) \in Nat
  <2>. HIDE DEF S
  <2>. QED
    BY <1>1, IndicesFinite
<1>3. ASSUME NEW n \in 1..Cardinality(S) PROVE PartAt(s, cut, Nth(S, n)) \in Seq(C)
  <2>1. Nth(S, n) \in S
    <3>. HIDE DEF S
    <3>. QED
      BY <1>1, NthIn
  <2>2. /\ Nth(S, n) \in 1..Len(s)
        /\ PartEnd(s, cut, Nth(S, n)) \in Nth(S, n)..Len(s)
    BY <2>1, PartEnds
  <2>3. \A j \in Nth(S, n)..PartEnd(s, cut, Nth(S, n)) : s[j] \in C
    BY <1>1, <2>2
  <2>. QED
    BY <2>2, <2>3, SubSeqProperties DEF PartAt
<1>4. [n \in 1..Cardinality(S) |-> PartAt(s, cut, Nth(S, n))] \in Seq(Seq(C))
  BY <1>2, <1>3, IsASeq
<1>. QED
  BY <1>4, PartsAre

(* Parts are not empty and hold nothing of cut. *)
LEMMA PartsPlain ==
  ASSUME NEW C, NEW s \in Seq(C), NEW cut, NEW n \in DOMAIN Parts(s, cut)
  PROVE  /\ Parts(s, cut)[n] \in Seq(C \ cut)
         /\ Len(Parts(s, cut)[n]) \in Nat \ {0}
<1>. DEFINE S == Starts(s, cut)
<1>1. Len(s) \in Nat /\ S \in SUBSET (0..Len(s))
  BY DEF Starts
<1>2. n \in 1..Cardinality(S) /\ Parts(s, cut)[n] = PartAt(s, cut, Nth(S, n))
  BY PartsAre
<1>. HIDE DEF S
<1>3. PICK i \in S : i = Nth(S, n)
  BY <1>1, <1>2, NthIn
<1>. DEFINE e == PartEnd(s, cut, i)
<1>4. /\ i \in 1..Len(s) /\ e \in i..Len(s)
      /\ \A j \in i..e : s[j] \notin cut
  BY PartEnds DEF S
<1>5. Parts(s, cut)[n] = SubSeq(s, i, e)
  BY <1>2, <1>3 DEF PartAt
<1>. HIDE DEF e
<1>6. i \in Int /\ e \in Int /\ i <= e /\ \A j \in i..e : s[j] \in C \ cut
  BY <1>1, <1>4
<1>7. SubSeq(s, i, e) \in Seq(C \ cut) /\ Len(SubSeq(s, i, e)) = IF i <= e THEN e - i + 1 ELSE 0
  BY ONLY <1>6, SubSeqProperties
<1>8. e - i + 1 \in Nat \ {0}
  BY <1>6
<1>. QED
  BY <1>5, <1>6, <1>7, <1>8

LEMMA PartEndIs ==
  ASSUME NEW C, NEW s \in Seq(C), NEW cut, NEW i \in Starts(s, cut), NEW e \in i..Len(s),
         \A j \in i..e : s[j] \notin cut, e = Len(s) \/ s[e + 1] \in cut
  PROVE  PartEnd(s, cut, i) = e
<1>. DEFINE d == PartEnd(s, cut, i)
<1>1. /\ i \in 1..Len(s) /\ d \in i..Len(s) /\ Len(s) \in Nat
      /\ \A j \in i..d : s[j] \notin cut
      /\ d = Len(s) \/ s[d + 1] \in cut
  BY PartEnds
<1>. HIDE DEF d
<1>2. ~(d < e)
  <2>. SUFFICES ASSUME d < e PROVE FALSE
    OBVIOUS
  <2>1. d + 1 \in i..e /\ d # Len(s)
    BY <1>1
  <2>. QED
    BY <1>1, <2>1
<1>3. ~(e < d)
  <2>. SUFFICES ASSUME e < d PROVE FALSE
    OBVIOUS
  <2>1. e + 1 \in i..d /\ e # Len(s)
    BY <1>1
  <2>. QED
    BY <1>1, <2>1
<1>4. d = e
  BY <1>1, <1>2, <1>3
<1>. QED
  BY <1>4 DEF d

LEMMA SamePart ==
  ASSUME NEW C, NEW s \in Seq(C), NEW t \in Seq(C), NEW i \in Nat \ {0}, NEW e \in Nat, NEW d \in Nat,
         i <= e, e <= Len(s), i + d >= 1, e + d <= Len(t), i + d \in Nat,
         \A j \in i..e : s[j] = t[j + d]
  PROVE  SubSeq(s, i, e) = SubSeq(t, i + d, e + d)
<1>1. \A j \in i..e : s[j] \in C
  OBVIOUS
<1>2. \A j \in (i + d)..(e + d) : t[j] \in C
  OBVIOUS
<1>3. /\ SubSeq(s, i, e) \in Seq(C) /\ Len(SubSeq(s, i, e)) = e - i + 1
      /\ \A j \in 1..(e - i + 1) : SubSeq(s, i, e)[j] = s[i + j - 1]
  <2>1. i \in Int /\ e \in Int
    OBVIOUS
  <2>2. /\ SubSeq(s, i, e) \in Seq(C) /\ Len(SubSeq(s, i, e)) = IF i <= e THEN e - i + 1 ELSE 0
        /\ \A j \in 1..(e - i + 1) : SubSeq(s, i, e)[j] = s[i + j - 1]
    BY ONLY <1>1, <2>1, SubSeqProperties
  <2>. QED
    BY <2>2
<1>4. /\ SubSeq(t, i + d, e + d) \in Seq(C) /\ Len(SubSeq(t, i + d, e + d)) = e - i + 1
      /\ \A j \in 1..(e - i + 1) : SubSeq(t, i + d, e + d)[j] = t[i + d + j - 1]
  <2>1. i + d \in Int /\ e + d \in Int /\ i + d <= e + d /\ (e + d) - (i + d) + 1 = e - i + 1
    OBVIOUS
  <2>. DEFINE a == i + d
              z == e + d
  <2>2. a \in Int /\ z \in Int /\ \A j \in a..z : t[j] \in C
    BY <1>2, <2>1
  <2>3. a <= z /\ z - a + 1 = e - i + 1
    BY <2>1
  <2>. HIDE DEF a, z
  <2>4. /\ SubSeq(t, a, z) \in Seq(C) /\ Len(SubSeq(t, a, z)) = IF a <= z THEN z - a + 1 ELSE 0
        /\ \A j \in 1..(z - a + 1) : SubSeq(t, a, z)[j] = t[a + j - 1]
    BY ONLY <2>2, SubSeqProperties
  <2>5. /\ SubSeq(t, a, z) \in Seq(C) /\ Len(SubSeq(t, a, z)) = e - i + 1
        /\ \A j \in 1..(e - i + 1) : SubSeq(t, a, z)[j] = t[a + j - 1]
    BY <2>3, <2>4
  <2>. QED
    BY <2>5 DEF a, z
<1>5. \A j \in 1..(e - i + 1) : i + j - 1 \in i..e /\ (i + j - 1) + d = i + d + j - 1
  OBVIOUS
<1>6. \A j \in 1..(e - i + 1) : SubSeq(s, i, e)[j] = SubSeq(t, i + d, e + d)[j]
  BY <1>3, <1>4, <1>5
<1>. QED
  BY <1>3, <1>4, <1>6, SeqEqual

(* Where nothing is cut there is one part. *)
LEMMA PartsOne ==
  ASSUME NEW C, NEW w \in Seq(C), w # <<>>, NEW cut, \A i \in 1..Len(w) : w[i] \notin cut
  PROVE  Parts(w, cut) = <<w>>
<1>1. Len(w) \in Nat /\ Len(w) # 0
  BY EmptySeq
<1>2. 1 \in 1..Len(w) /\ \A i \in 1..Len(w) : i # 1 => i - 1 \in 1..Len(w)
  BY <1>1
<1>3. Starts(w, cut) = {1}
  BY <1>2 DEF Starts
<1>4. PartEnd(w, cut, 1) = Len(w)
  BY <1>1, <1>2, <1>3, PartEndIs
<1>5. PartAt(w, cut, 1) = w
  BY <1>4, SubSeqFull DEF PartAt
<1>6. Cardinality(Starts(w, cut)) = 1
  BY <1>3, FS_Singleton
<1>7. \A n \in 1..1 : Nth(Starts(w, cut), n) = 1
  <2>1. Starts(w, cut) \in SUBSET (0..1) /\ 1 \in Nat
    BY <1>3
  <2>2. \A n \in 1..1 : Nth(Starts(w, cut), n) \in Starts(w, cut)
    BY <1>6, <2>1, NthIn
  <2>. QED
    BY <1>3, <2>2
<1>8. Parts(w, cut) = [n \in 1..1 |-> w]
  BY <1>5, <1>6, <1>7, PartsAre
<1>. QED
  BY <1>8

(* Behind a cut there is one part more. *)
LEMMA PartsMore ==
  ASSUME NEW C, NEW t \in Seq(C), NEW w \in Seq(C), w # <<>>, NEW cut, NEW c \in C, c \in cut,
         \A i \in 1..Len(w) : w[i] \notin cut
  PROVE  Parts(t \o (<<c>> \o w), cut) = Append(Parts(t, cut), w)
<1>. DEFINE s == t \o (<<c>> \o w)
            m == Len(t)
            n == Len(w)
<1>1. m \in Nat /\ n \in Nat \ {0}
  BY EmptySeq
<1>2. /\ s \in Seq(C) /\ Len(s) = m + 1 + n
      /\ \A i \in 1..m : s[i] = t[i]
      /\ s[m + 1] = c
      /\ \A i \in 1..n : s[m + 1 + i] = w[i]
  <2>1. <<c>> \in Seq(C) /\ Len(<<c>>) = 1 /\ <<c>>[1] = c
    OBVIOUS
  <2>2. /\ <<c>> \o w \in Seq(C) /\ Len(<<c>> \o w) = 1 + n
        /\ \A i \in 1..(1 + n) : (<<c>> \o w)[i] = IF i <= 1 THEN <<c>>[i] ELSE w[i - 1]
    BY <2>1, ConcatProperties
  <2>. DEFINE x == <<c>> \o w
  <2>3. x[1] = c /\ \A i \in 1..n : x[1 + i] = w[i]
    <3>1. \A i \in 1..n : 1 + i \in 1..(1 + n) /\ ~(1 + i <= 1) /\ (1 + i) - 1 = i
      BY <1>1
    <3>2. 1 \in 1..(1 + n)
      BY <1>1
    <3>. QED
      BY <2>1, <2>2, <3>1, <3>2
  <2>4. x \in Seq(C) /\ Len(x) = 1 + n
    BY <2>2
  <2>. HIDE DEF x
  <2>5. /\ t \o x \in Seq(C) /\ Len(t \o x) = m + (1 + n)
        /\ \A i \in 1..(m + (1 + n)) : (t \o x)[i] = IF i <= m THEN t[i] ELSE x[i - m]
    <3>1. /\ t \o x \in Seq(C) /\ Len(t \o x) = Len(t) + Len(x)
          /\ \A i \in 1..(Len(t) + Len(x)) : (t \o x)[i] = IF i <= Len(t) THEN t[i] ELSE x[i - Len(t)]
      BY <2>4, ConcatProperties
    <3>2. Len(t) + Len(x) = m + (1 + n)
      BY <2>4
    <3>. QED
      BY <3>1, <3>2 DEF m
  <2>6. \A i \in 1..m : (t \o x)[i] = t[i]
    BY <1>1, <2>5
  <2>7. (t \o x)[m + 1] = c
    BY <1>1, <2>3, <2>5
  <2>8. ASSUME NEW i \in 1..n PROVE (t \o x)[m + 1 + i] = w[i]
    <3>1. m + 1 + i \in 1..(m + (1 + n)) /\ ~(m + 1 + i <= m) /\ (m + 1 + i) - m = 1 + i
      BY <1>1
    <3>. QED
      BY <2>3, <2>5, <3>1
  <2>9. m + (1 + n) = m + 1 + n
    BY <1>1
  <2>. QED
    BY <2>5, <2>6, <2>7, <2>8, <2>9 DEF x
<1>. HIDE DEF s, m, n
<1>3. Starts(s, cut) = Starts(t, cut) \cup {m + 2}
  <2>1. ASSUME NEW i \in 1..m PROVE i \in Starts(s, cut) <=> i \in Starts(t, cut)
    <3>1. i \in 1..(m + 1 + n) /\ (i # 1 => i - 1 \in 1..m)
      BY <1>1
    <3>. QED
      BY <1>2, <3>1 DEF Starts, m
  <2>2. m + 1 \notin Starts(s, cut)
    BY <1>2 DEF Starts
  <2>3. m + 2 \in Starts(s, cut)
    <3>1. m + 2 \in 1..(m + 1 + n) /\ m + 2 = m + 1 + 1 /\ 1 \in 1..n /\ (m + 2) - 1 = m + 1
      BY <1>1
    <3>2. s[m + 2] \notin cut
      BY <1>2, <3>1 DEF n
    <3>. QED
      BY <1>2, <3>1, <3>2 DEF Starts
  <2>4. ASSUME NEW i \in Int, i > m + 2 PROVE i \notin Starts(s, cut)
    <3>. SUFFICES ASSUME i \in Starts(s, cut) PROVE FALSE
      OBVIOUS
    <3>1. i \in 1..(m + 1 + n) /\ s[i - 1] \in cut
      BY <1>1, <1>2, <2>4 DEF Starts
    <3>2. i - 1 - (m + 1) \in 1..n /\ m + 1 + (i - 1 - (m + 1)) = i - 1
      BY <1>1, <2>4, <3>1
    <3>3. s[i - 1] = w[i - 1 - (m + 1)]
      BY <1>2, <3>2
    <3>. QED
      BY <3>1, <3>2, <3>3 DEF n
  <2>5. \A i : i \in Starts(s, cut) => i \in 1..(m + 1 + n)
    BY <1>2 DEF Starts
  <2>6. \A i : i \in Starts(t, cut) => i \in 1..m
    BY DEF Starts, m
  <2>7. \A i \in 1..(m + 1 + n) : i \in 1..m \/ i = m + 1 \/ i = m + 2 \/ (i \in Int /\ i > m + 2)
    BY <1>1
  <2>. QED
    BY <2>1, <2>2, <2>3, <2>4, <2>5, <2>6, <2>7
<1>4. ASSUME NEW i \in Starts(t, cut) PROVE PartAt(s, cut, i) = PartAt(t, cut, i)
  <2>. DEFINE e == PartEnd(t, cut, i)
  <2>1. /\ i \in 1..m /\ e \in i..m
        /\ \A j \in i..e : t[j] \notin cut
        /\ e = m \/ t[e + 1] \in cut
    BY PartEnds DEF m
  <2>. HIDE DEF e
  <2>2. e \in i..Len(s) /\ \A j \in i..e : j \in 1..m
    BY <1>1, <1>2, <2>1
  <2>3. e # m => e + 1 \in 1..m
    BY <1>1, <2>1
  <2>4. /\ \A j \in i..e : s[j] \notin cut
        /\ e = Len(s) \/ s[e + 1] \in cut
    BY <1>2, <2>1, <2>2, <2>3
  <2>5. PartEnd(s, cut, i) = e
    BY <1>2, <1>3, <2>2, <2>4, PartEndIs
  <2>6. SubSeq(s, i, e) = SubSeq(t, i, e)
    <3>1. i \in Nat \ {0} /\ e \in Nat /\ 0 \in Nat /\ i <= e /\ e <= Len(s) /\ i + 0 = i /\ e + 0 = e
          /\ e <= Len(t) /\ \A j \in i..e : j + 0 = j
      BY <1>1, <2>1, <2>2 DEF m
    <3>2. \A j \in i..e : s[j] = t[j + 0]
      BY <1>2, <2>2, <3>1
    <3>3. SubSeq(s, i, e) = SubSeq(t, i + 0, e + 0)
      BY <1>2, <3>1, <3>2, SamePart
    <3>. QED
      BY <3>1, <3>3
  <2>. QED
    BY <2>5, <2>6 DEF PartAt, e
<1>5. PartAt(s, cut, m + 2) = w
  <2>1. m + 2 \in Starts(s, cut) /\ Len(s) \in (m + 2)..Len(s)
    BY <1>1, <1>2, <1>3
  <2>2. ASSUME NEW j \in (m + 2)..Len(s) PROVE s[j] \notin cut
    <3>1. j - (m + 1) \in 1..n /\ m + 1 + (j - (m + 1)) = j
      BY <1>1, <1>2
    <3>2. s[j] = w[j - (m + 1)]
      BY <1>2, <3>1
    <3>. QED
      BY <3>1, <3>2 DEF n
  <2>3. PartEnd(s, cut, m + 2) = Len(s)
    BY <1>2, <2>1, <2>2, PartEndIs
  <2>. DEFINE d == m + 1
  <2>4. SubSeq(w, 1, n) = SubSeq(s, 1 + d, n + d)
    <3>1. /\ 1 \in Nat \ {0} /\ n \in Nat /\ d \in Nat /\ 1 <= n /\ n <= Len(w)
          /\ 1 + d >= 1 /\ n + d <= Len(s) /\ 1 + d \in Nat
          /\ \A j \in 1..n : j + d = m + 1 + j
      BY <1>1, <1>2 DEF n
    <3>2. \A j \in 1..n : w[j] = s[j + d]
      BY <1>2, <3>1
    <3>. HIDE DEF d
    <3>. QED
      BY <1>2, <3>1, <3>2, SamePart
  <2>5. 1 + d = m + 2 /\ n + d = Len(s)
    BY <1>1, <1>2
  <2>6. SubSeq(w, 1, n) = w
    BY SubSeqFull DEF n
  <2>. QED
    BY <2>3, <2>4, <2>5, <2>6 DEF PartAt
<1>. DEFINE S == Starts(t, cut)
<1>6. S \in SUBSET (0..(m + 1)) /\ m + 1 \in Nat /\ m + 2 \in Nat /\ m + 1 < m + 2
  BY <1>1 DEF Starts, m
<1>7. /\ Cardinality(S \cup {m + 2}) = Cardinality(S) + 1
      /\ \A k \in 1..Cardinality(S) : Nth(S \cup {m + 2}, k) = Nth(S, k)
      /\ Nth(S \cup {m + 2}, Cardinality(S) + 1) = m + 2
      /\ \A k \in 1..Cardinality(S) : Nth(S, k) \in S
      /\ Cardinality(S) \in Nat
  <2>. DEFINE a == m + 2
              b == m + 1
  <2>1. b \in Nat /\ S \in SUBSET (0..b) /\ a \in Nat /\ b < a
    BY <1>6
  <2>. HIDE DEF S, a, b
  <2>2. /\ Cardinality(S \cup {a}) = Cardinality(S) + 1
        /\ \A k \in 1..Cardinality(S) : Nth(S \cup {a}, k) = Nth(S, k)
        /\ Nth(S \cup {a}, Cardinality(S) + 1) = a
    BY <2>1, NthMore
  <2>3. \A k \in 1..Cardinality(S) : Nth(S, k) \in S
    BY <2>1, NthIn
  <2>4. Cardinality(S) \in Nat
    BY <2>1, IndicesFinite
  <2>. QED
    BY <2>2, <2>3, <2>4 DEF a
<1>8. /\ Parts(t, cut) = [k \in 1..Cardinality(S) |-> PartAt(t, cut, Nth(S, k))]
      /\ Parts(s, cut) = [k \in 1..(Cardinality(S) + 1) |-> PartAt(s, cut, Nth(S \cup {m + 2}, k))]
  BY <1>3, <1>7, PartsAre
<1>9. Parts(t, cut) \in Seq(Seq(C)) /\ Parts(s, cut) \in Seq(Seq(C))
  BY <1>2, PartsType
<1>10. /\ Len(Parts(t, cut)) = Cardinality(S) /\ Len(Parts(s, cut)) = Cardinality(S) + 1
  BY <1>7, <1>8
<1>11. /\ Append(Parts(t, cut), w) \in Seq(Seq(C))
       /\ Len(Append(Parts(t, cut), w)) = Cardinality(S) + 1
       /\ \A k \in 1..Cardinality(S) : Append(Parts(t, cut), w)[k] = Parts(t, cut)[k]
       /\ Append(Parts(t, cut), w)[Cardinality(S) + 1] = w
  BY <1>9, <1>10, AppendProperties
<1>12. ASSUME NEW k \in 1..(Cardinality(S) + 1) PROVE Parts(s, cut)[k] = Append(Parts(t, cut), w)[k]
  <2>1. k \in 1..Cardinality(S) \/ k = Cardinality(S) + 1
    BY <1>7
  <2>2. Parts(s, cut)[k] = PartAt(s, cut, Nth(S \cup {m + 2}, k))
    BY <1>8
  <2>3. CASE k \in 1..Cardinality(S)
    BY <1>4, <1>7, <1>8, <1>11, <2>2, <2>3
  <2>4. CASE k = Cardinality(S) + 1
    BY <1>5, <1>7, <1>11, <2>2, <2>4
  <2>. QED
    BY <2>1, <2>3, <2>4
<1>13. Parts(s, cut) = Append(Parts(t, cut), w)
  BY <1>9, <1>10, <1>11, <1>12, SeqEqual
<1>. QED
  BY <1>13 DEF s

LEMMA LowerCopyIs ==
  ASSUME NEW C, NEW s \in Seq(C)
  PROVE  LowerCopy(s) = [i \in 1..Len(s) |-> IF s[i] \in Upper THEN Lowered[s[i]] ELSE s[i]]
BY DEF LowerCopy, Mapped

(* Lower-casing changes characters one by one, and makes none a star. *)
LEMMA LowerCopyType ==
  ASSUME NEW s
  PROVE  /\ s \in Path => LowerCopy(s) \in Path /\ Len(LowerCopy(s)) = Len(s)
         /\ s \in Name => LowerCopy(s) \in Name /\ Len(LowerCopy(s)) = Len(s)
<1>1. ASSUME NEW C, s \in Seq(C), \A c \in C \cap Upper : Lowered[c] \in C
      PROVE  LowerCopy(s) \in Seq(C) /\ Len(LowerCopy(s)) = Len(s)
  <2>1. Len(s) \in Nat /\ \A i \in 1..Len(s) : s[i] \in C
    BY <1>1
  <2>. DEFINE e(i) == IF s[i] \in Upper THEN Lowered[s[i]] ELSE s[i]
  <2>2. \A i \in 1..Len(s) : e(i) \in C
    BY <1>1, <2>1
  <2>3. LowerCopy(s) = [i \in 1..Len(s) |-> e(i)]
    BY <1>1, LowerCopyIs
  <2>. HIDE DEF e
  <2>4. LowerCopy(s) \in Seq(C)
    BY <2>1, <2>2, <2>3, IsASeq
  <2>. QED
    BY <2>1, <2>3, <2>4
<1>2. \A c \in Upper : Lowered[c] \in Char \ {"*"}
  BY CharAssumption
<1>. QED
  BY <1>1, <1>2 DEF Path, Name

(* FlattenSeq puts the elements one after the other, from the first on. *)
Flattens(q, F, n) == F = [i \in 1..n |-> IF i = 1 THEN q[i] ELSE F[i - 1] \o q[i]]

LEMMA FlattenExists ==
  ASSUME NEW q, NEW n \in Nat
  PROVE  \E F : Flattens(q, F, n)
<1>. DEFINE B == {m \in Nat : ~\E F : Flattens(q, F, m)}
<1>. SUFFICES ASSUME B # {} PROVE FALSE
  OBVIOUS
<1>1. PICK m \in B : \A k \in B : m <= k
  <2>1. B \in SUBSET Nat
    OBVIOUS
  <2>. HIDE DEF B
  <2>. QED
    BY <2>1, Least
<1>2. CASE m = 0
  <2>1. Flattens(q, [i \in 1..0 |-> q[i]], 0)
    BY DEF Flattens
  <2>. QED
    BY <1>1, <1>2, <2>1
<1>3. CASE m # 0
  <2>1. m - 1 \in Nat /\ m - 1 \notin B
    BY <1>1, <1>3
  <2>2. PICK F : Flattens(q, F, m - 1)
    BY <2>1
  <2>. DEFINE G == [i \in 1..m |-> IF i = 1 THEN q[i] ELSE F[i - 1] \o q[i]]
  <2>3. \A i \in 1..(m - 1) : F[i] = IF i = 1 THEN q[i] ELSE F[i - 1] \o q[i]
    BY <2>2 DEF Flattens
  <2>4. \A i \in 1..(m - 1) : G[i] = F[i]
    BY <1>1, <2>3
  <2>5. \A i \in 1..m : i # 1 => i - 1 \in 1..(m - 1)
    BY <1>1
  <2>6. G = [i \in 1..m |-> IF i = 1 THEN q[i] ELSE G[i - 1] \o q[i]]
    BY <2>4, <2>5
  <2>7. Flattens(q, G, m)
    <3>. HIDE DEF G
    <3>. QED
      BY <2>6 DEF Flattens
  <2>. QED
    BY <1>1, <2>7
<1>. QED
  BY <1>2, <1>3

(* FlattenSeq is the last of those sequences. *)
LEMMA FlattenSeqIs ==
  ASSUME NEW S, NEW q \in Seq(S), Len(q) # 0
  PROVE  \E F : Flattens(q, F, Len(q)) /\ FlattenSeq(q) = F[Len(q)]
<1>. DEFINE F == CHOOSE G : Flattens(q, G, Len(q))
<1>1. Len(q) \in Nat
  OBVIOUS
<1>2. Flattens(q, F, Len(q))
  BY <1>1, FlattenExists
<1>3. FlattenSeq(q) = F[Len(q)]
  BY DEF FlattenSeq, Flattens
<1>. HIDE DEF F
<1>. QED
  BY <1>2, <1>3

LEMMA FlattensType ==
  ASSUME NEW C, NEW q \in Seq(Seq(C)), NEW F, Flattens(q, F, Len(q)), NEW n \in 1..Len(q)
  PROVE  F[n] \in Seq(C)
<1>. DEFINE B == {m \in 1..Len(q) : F[m] \notin Seq(C)}
<1>. SUFFICES ASSUME B # {} PROVE FALSE
  OBVIOUS
<1>1. PICK m \in B : \A k \in B : m <= k
  <2>1. B \in SUBSET Nat
    OBVIOUS
  <2>. HIDE DEF B
  <2>. QED
    BY <2>1, Least
<1>2. F[m] = IF m = 1 THEN q[m] ELSE F[m - 1] \o q[m]
  BY <1>1 DEF Flattens
<1>3. m = 1 \/ F[m - 1] \in Seq(C)
  BY <1>1
<1>4. q[m] \in Seq(C)
  BY <1>1
<1>5. m # 1 => F[m - 1] \o q[m] \in Seq(C)
  BY <1>3, <1>4, ConcatProperties
<1>6. F[m] \in Seq(C)
  BY <1>2, <1>4, <1>5
<1>. QED
  BY <1>1, <1>6

LEMMA FlattenSeqType ==
  ASSUME NEW C, NEW q \in Seq(Seq(C))
  PROVE  FlattenSeq(q) \in Seq(C)
<1>1. CASE Len(q) = 0
  <2>1. q = <<>>
    BY <1>1, EmptySeq
  <2>. QED
    BY <1>1, <2>1, EmptySeq DEF FlattenSeq
<1>2. CASE Len(q) # 0
  <2>1. Len(q) \in 1..Len(q)
    BY <1>2
  <2>2. PICK F : Flattens(q, F, Len(q)) /\ FlattenSeq(q) = F[Len(q)]
    BY <1>2, FlattenSeqIs
  <2>. QED
    BY <2>1, <2>2, FlattensType
<1>. QED
  BY <1>1, <1>2

LEMMA JoinType ==
  ASSUME NEW C, NEW parts \in Seq(Seq(C)), NEW sep \in C
  PROVE  Join(parts, sep) \in Seq(C)
<1>. DEFINE e(i) == IF i = 1 THEN parts[i] ELSE <<sep>> \o parts[i]
<1>1. \A i \in 1..Len(parts) : e(i) \in Seq(C)
  <2>1. \A i \in 1..Len(parts) : parts[i] \in Seq(C)
    OBVIOUS
  <2>2. <<sep>> \in Seq(C)
    OBVIOUS
  <2>. QED
    BY <2>1, <2>2, ConcatProperties
<1>2. Join(parts, sep) = FlattenSeq([i \in 1..Len(parts) |-> e(i)])
  <2>1. DOMAIN parts = 1..Len(parts)
    OBVIOUS
  <2>. QED
    BY <2>1 DEF Join
<1>. HIDE DEF e
<1>3. [i \in 1..Len(parts) |-> e(i)] \in Seq(Seq(C))
  BY <1>1, IsASeq
<1>. QED
  BY <1>2, <1>3, FlattenSeqType

-----------------------------------------------------------------------------
(* Paths and patterns.                                                     *)

LEMMA MapObservedType ==
  ASSUME NEW source, NEW observed \in Name, MapObserved(source, observed) # None
  PROVE  MapObserved(source, observed).relative \in Name
<1>1. \A names \in Seq(Name), i \in Nat \ {0} : Join(From(names, i), Sep) \in Name
  <2>. SUFFICES ASSUME NEW names \in Seq(Name), NEW i \in Nat \ {0}
                PROVE  Join(From(names, i), Sep) \in Name
    OBVIOUS
  <2>1. Len(names) \in Nat /\ \A j \in i..Len(names) : names[j] \in Name
    OBVIOUS
  <2>2. From(names, i) \in Seq(Name)
    BY <2>1, SubSeqProperties DEF From
  <2>3. Sep \in Char \ {"*"}
    BY CharAssumption DEF Sep, Seps
  <2>. QED
    BY <2>2, <2>3, JoinType DEF Name
<1>2. Components(observed) \in Seq(Name)
  BY PartsType DEF Components, Name
<1>3. ParseUnc(observed) # None => ParseUnc(observed).relative \in Name
  BY <1>1, <1>2 DEF ParseUnc, Identity
<1>4. ParseDevice(observed) # None => ParseDevice(observed).relative \in Name
  <2>. DEFINE i == ServerIndex(Components(observed))
  <2>1. i + 2 \in Nat \ {0}
    BY DEF ServerIndex
  <2>2. ParseDevice(observed) # None =>
          ParseDevice(observed).relative = Join(From(Components(observed), i + 2), Sep)
    BY DEF ParseDevice, Identity
  <2>. HIDE DEF i
  <2>. QED
    BY <1>1, <1>2, <2>1, <2>2
<1>. QED
  BY <1>3, <1>4 DEF MapObserved

(* The file name is a part of the path, and shorter unless it is all of it. *)
LEMMA FileNameType ==
  ASSUME NEW path \in Name
  PROVE  /\ FileName(path) \in Name
         /\ Len(FileName(path)) = Len(path) => FileName(path) = path
<1>. DEFINE I == {i \in 1..Len(path) : IsSep(path[i])}
            last == SelectLastInSeq(path, IsSep)
<1>1. last \in 0..Len(path)
  <2>1. CASE I = {}
    BY <2>1 DEF SelectLastInSeq
  <2>2. CASE I # {}
    <3>1. I \in SUBSET (0..Len(path)) /\ Len(path) \in Nat
      BY DEF Name
    <3>2. \E n \in I : \A m \in I : n >= m
      <4>. HIDE DEF I
      <4>. QED
        BY <2>2, <3>1, Greatest
    <3>3. Max(I) \in I
      BY <3>2 DEF Max
    <3>4. last = Max(I)
      BY <2>2 DEF SelectLastInSeq
    <3>. QED
      BY <3>1, <3>3, <3>4
  <2>. QED
    BY <2>1, <2>2
<1>2. Len(path) \in Nat /\ path \in Seq(Char \ {"*"})
  BY DEF Name
<1>3. FileName(path) = SubSeq(path, last + 1, Len(path))
  BY DEF FileName
<1>. HIDE DEF last
<1>4. \A i \in (last + 1)..Len(path) : path[i] \in Char \ {"*"}
  BY <1>1, <1>2
<1>5. /\ FileName(path) \in Name
      /\ Len(FileName(path)) = IF last + 1 <= Len(path) THEN Len(path) - last ELSE 0
  BY <1>1, <1>2, <1>3, <1>4, SubSeqProperties DEF Name
<1>6. last = 0 => FileName(path) = path
  BY <1>2, <1>3, SubSeqFull
<1>. QED
  BY <1>1, <1>2, <1>5, <1>6

LEMMA TrimType ==
  ASSUME NEW s \in Path
  PROVE  Trim(s) \in Path
<1>. DEFINE I == {i \in 1..Len(s) : s[i] # Blank}
<1>1. Len(s) \in Nat /\ \A i \in 1..Len(s) : s[i] \in Char
  BY DEF Path
<1>2. CASE I = {}
  BY <1>2, EmptySeq DEF Trim, SelectInSeq, Path
<1>3. CASE I # {}
  <2>1. I \in SUBSET (0..Len(s))
    BY <1>1
  <2>2. (\E n \in I : \A m \in I : n <= m) /\ (\E n \in I : \A m \in I : n >= m)
    <3>1. I \in SUBSET Nat
      BY <1>1
    <3>. HIDE DEF I
    <3>. QED
      BY <1>1, <1>3, <2>1, <3>1, Least, Greatest
  <2>3. Min(I) \in I /\ Max(I) \in I
    BY <2>2 DEF Min, Max
  <2>4. Min(I) \in 1..Len(s) /\ Max(I) \in 1..Len(s)
    BY <2>3
  <2>5. Trim(s) = SubSeq(s, Min(I), Max(I))
    <3>1. Min(I) # 0
      BY <2>4
    <3>. QED
      BY <1>3, <3>1, Zenon DEF Trim, SelectInSeq, SelectLastInSeq
  <2>. HIDE DEF I
  <2>6. \A i \in Min(I)..Max(I) : s[i] \in Char
    BY <1>1, <2>4
  <2>. QED
    BY <1>1, <2>4, <2>5, <2>6, SubSeqProperties DEF Path
<1>. QED
  BY <1>2, <1>3

(* The list as it is split: the parts trimmed, and of these the n-th that is not empty. *)
Marks == {",", ";"}
Trimmed(text) == [n \in DOMAIN Parts(text, Marks) |-> Trim(Parts(text, Marks)[n])]
Kept(text) == {n \in DOMAIN Parts(text, Marks) : Trimmed(text)[n] # <<>>}

LEMMA SplitPatternsIs ==
  ASSUME NEW text \in Path
  PROVE  /\ SplitPatterns(text) = [k \in 1..Cardinality(Kept(text)) |-> Trimmed(text)[Nth(Kept(text), k)]]
         /\ Cardinality(Kept(text)) \in Nat
         /\ Kept(text) \in SUBSET (0..Len(Parts(text, Marks))) /\ Len(Parts(text, Marks)) \in Nat
         /\ \A n \in DOMAIN Parts(text, Marks) : Trimmed(text)[n] \in Path
<1>1. SplitPatterns(text) = [k \in 1..Cardinality(Kept(text)) |-> Trimmed(text)[Nth(Kept(text), k)]]
  BY DEF SplitPatterns, InOrder, Mapped, Kept, Trimmed, Marks
<1>2. Parts(text, Marks) \in Seq(Path)
  BY PartsType DEF Path
<1>3. /\ Kept(text) \in SUBSET (0..Len(Parts(text, Marks))) /\ Len(Parts(text, Marks)) \in Nat
  BY <1>2 DEF Kept
<1>4. \A n \in DOMAIN Parts(text, Marks) : Trimmed(text)[n] \in Path
  BY <1>2, TrimType DEF Trimmed
<1>. QED
  BY <1>1, <1>3, <1>4, IndicesFinite

LEMMA SplitPatternsType ==
  ASSUME NEW text \in Path
  PROVE  SplitPatterns(text) \in Seq(Path)
<1>1. \A k \in 1..Cardinality(Kept(text)) : Trimmed(text)[Nth(Kept(text), k)] \in Path
  BY SplitPatternsIs, NthIn DEF Kept
<1>. QED
  BY <1>1, SplitPatternsIs, IsASeq

(* The list has the items between the marks, but for the empty ones. *)
LEMMA SplitPatternsItems ==
  ASSUME NEW text \in Path
  PROVE  {SplitPatterns(text)[k] : k \in DOMAIN SplitPatterns(text)} = Items(text) \ {<<>>}
<1>. DEFINE S == Starts(text, Marks)
            parts == Parts(text, Marks)
<1>0. text \in Seq(Char) /\ Len(text) \in Nat /\ DOMAIN text = 1..Len(text)
  BY DEF Path
<1>c. Len(text) \in Nat
  BY <1>0
<1>a. \A x : x \in Ends(text) <=> x = 0 \/ x = Len(text) + 1 \/ (x \in 1..Len(text) /\ text[x] \in Marks)
  BY <1>0 DEF Ends, Marks
<1>b. \A i : i \in S <=> i \in 1..Len(text) /\ text[i] \notin Marks /\ (i = 1 \/ text[i - 1] \in Marks)
  BY <1>0 DEF Starts
<1>1. /\ DOMAIN parts = 1..Cardinality(S)
      /\ \A n \in DOMAIN parts : parts[n] = PartAt(text, Marks, Nth(S, n))
  BY PartsAre
<1>2. S \in SUBSET (0..Len(text))
  BY <1>0 DEF Starts
<1>. HIDE DEF S, parts
<1>3. \A n \in DOMAIN parts : Nth(S, n) \in S
  BY <1>0, <1>1, <1>2, NthIn
<1>4. \A i \in S : \E n \in DOMAIN parts : Nth(S, n) = i
  BY <1>0, <1>1, <1>2, NthRank
<1>5. ASSUME NEW k \in DOMAIN SplitPatterns(text) PROVE SplitPatterns(text)[k] \in Items(text) \ {<<>>}
  <2>1. k \in 1..Cardinality(Kept(text)) /\ SplitPatterns(text)[k] = Trimmed(text)[Nth(Kept(text), k)]
    BY <1>5, SplitPatternsIs
  <2>2. PICK n \in Kept(text) : n = Nth(Kept(text), k)
    BY <2>1, SplitPatternsIs, NthIn
  <2>3. n \in DOMAIN parts /\ Trimmed(text)[n] = Trim(parts[n]) /\ Trimmed(text)[n] # <<>>
    BY <2>2 DEF Kept, Trimmed, parts
  <2>4. PICK i \in S : parts[n] = PartAt(text, Marks, i)
    BY <1>1, <1>3, <2>3
  <2>. DEFINE e == PartEnd(text, Marks, i)
  <2>5. /\ i \in 1..Len(text) /\ e \in i..Len(text)
        /\ \A j \in i..e : text[j] \notin Marks
        /\ e = Len(text) \/ text[e + 1] \in Marks
        /\ i = 1 \/ text[i - 1] \in Marks
        /\ parts[n] = SubSeq(text, i, e)
    BY <1>0, <2>4, PartEnds DEF S, Starts, PartAt
  <2>. HIDE DEF e
  <2>6. i - 1 \in Ends(text) /\ e + 1 \in Ends(text)
    <3>1. i = 1 => i - 1 = 0
      OBVIOUS
    <3>2. i # 1 => i - 1 \in 1..Len(text)
      BY <1>c, <2>5
    <3>3. e # Len(text) => e + 1 \in 1..Len(text)
      BY <1>c, <2>5
    <3>. QED
      BY <1>a, <2>5, <3>1, <3>2, <3>3
  <2>7. i - 1 < e + 1 /\ ~\E j \in Ends(text) : i - 1 < j /\ j < e + 1
    BY <1>c, <1>a, <2>5
  <2>8. (i - 1) + 1 = i /\ (e + 1) - 1 = e
    BY <2>5
  <2>9. Trim(SubSeq(text, i, e)) \in Items(text)
    <3>. DEFINE ij == <<i - 1, e + 1>>
    <3>1. ij \in Ends(text) \X Ends(text) /\ ij[1] = i - 1 /\ ij[2] = e + 1
      BY <2>6
    <3>. HIDE DEF ij
    <3>. QED
      BY <2>7, <2>8, <3>1 DEF Items
  <2>. QED
    BY <2>1, <2>2, <2>3, <2>5, <2>9
<1>6. ASSUME NEW item \in Items(text) \ {<<>>} PROVE \E k \in DOMAIN SplitPatterns(text) : SplitPatterns(text)[k] = item
  <2>1. PICK a \in Ends(text), b \in Ends(text) :
          /\ a < b /\ ~\E j \in Ends(text) : a < j /\ j < b
          /\ item = Trim(SubSeq(text, a + 1, b - 1))
    BY <1>6 DEF Items
  <2>2. a \in 0..(Len(text) + 1) /\ b \in 0..(Len(text) + 1)
    BY <1>c, <1>a, <2>1
  <2>3. a + 1 <= b - 1
    <3>1. Trim(<<>>) = <<>>
      <4>1. {i \in 1..Len(<<>>) : <<>>[i] # Blank} = {}
        OBVIOUS
      <4>. QED
        BY <4>1 DEF Trim, SelectInSeq
    <3>2. SubSeq(text, a + 1, b - 1) # <<>>
      BY <1>6, <2>1, <3>1
    <3>. QED
      BY <2>2, <3>2, SubSeqEmpty
  <2>4. a + 1 \in S
    <3>1. a + 1 \in 1..Len(text) /\ a < a + 1 /\ a + 1 < b
      BY <1>c, <2>2, <2>3
    <3>2. a + 1 \notin Ends(text)
      BY <2>1, <3>1
    <3>3. a + 1 = 1 \/ text[a] \in Marks
      BY <1>c, <1>a, <2>1, <2>2, <3>1
    <3>4. (a + 1) - 1 = a
      BY <2>2
    <3>. QED
      BY <1>a, <1>b, <3>1, <3>2, <3>3, <3>4
  <2>. DEFINE e == PartEnd(text, Marks, a + 1)
  <2>5. /\ e \in (a + 1)..Len(text)
        /\ \A j \in (a + 1)..e : text[j] \notin Marks
        /\ e = Len(text) \/ text[e + 1] \in Marks
    BY <1>0, <2>4, PartEnds DEF S
  <2>. HIDE DEF e
  <2>6. e + 1 \in Ends(text)
    BY <1>c, <1>a, <2>2, <2>5
  <2>7. b = e + 1
    <3>1. ~(e + 1 < b)
      BY <2>1, <2>2, <2>5, <2>6
    <3>2. ~(b < e + 1)
      BY <1>c, <1>a, <2>1, <2>2, <2>5
    <3>. QED
      BY <2>2, <2>5, <3>1, <3>2
  <2>8. item = Trim(PartAt(text, Marks, a + 1))
    BY <2>1, <2>2, <2>5, <2>7 DEF PartAt, e
  <2>9. PICK n \in DOMAIN parts : parts[n] = PartAt(text, Marks, a + 1)
    BY <1>1, <1>4, <2>4
  <2>10. n \in Kept(text) /\ Trimmed(text)[n] = item
    BY <1>6, <2>8, <2>9 DEF Kept, Trimmed, parts
  <2>11. PICK k \in 1..Cardinality(Kept(text)) : Nth(Kept(text), k) = n
    BY <2>10, SplitPatternsIs, NthRank
  <2>. QED
    BY <2>10, <2>11, SplitPatternsIs
<1>. QED
  BY <1>5, <1>6

-----------------------------------------------------------------------------
(* A list saved and loaded again.                                          *)

(* What is trimmed begins and ends with what is no blank, *)
LEMMA TrimShape ==
  ASSUME NEW s \in Path, Trim(s) # <<>>
  PROVE  /\ Trim(s)[1] # Blank /\ Trim(s)[Len(Trim(s))] # Blank
         /\ \A i \in 1..Len(Trim(s)) : \E j \in 1..Len(s) : Trim(s)[i] = s[j]
<1>. DEFINE I == {i \in 1..Len(s) : s[i] # Blank}
            a == Min(I)
            b == Max(I)
<1>1. Len(s) \in Nat /\ \A i \in 1..Len(s) : s[i] \in Char
  BY DEF Path
<1>2. I # {}
  BY EmptySeq DEF Trim, SelectInSeq, Path
<1>3. I \in SUBSET (0..Len(s)) /\ I \in SUBSET Nat
  BY <1>1
<1>4. (\E n \in I : \A m \in I : n <= m) /\ (\E n \in I : \A m \in I : n >= m)
  <2>. HIDE DEF I
  <2>. QED
    BY <1>1, <1>2, <1>3, Least, Greatest
<1>5. a \in I /\ b \in I /\ \A m \in I : b >= m
  BY <1>4 DEF Min, Max
<1>6. a \in 1..Len(s) /\ b \in 1..Len(s) /\ a <= b /\ s[a] # Blank /\ s[b] # Blank
  BY <1>5
<1>7. Trim(s) = SubSeq(s, a, b)
  <2>1. a # 0
    BY <1>6
  <2>. QED
    BY <1>2, <2>1, Zenon DEF Trim, SelectInSeq, SelectLastInSeq
<1>. HIDE DEF I, a, b
<1>8. /\ Len(SubSeq(s, a, b)) = b - a + 1
      /\ \A i \in 1..(b - a + 1) : SubSeq(s, a, b)[i] = s[a + i - 1]
  BY <1>1, <1>6, SubSeqProperties
<1>9. /\ 1 \in 1..(b - a + 1) /\ a + 1 - 1 = a
      /\ b - a + 1 \in 1..(b - a + 1) /\ a + (b - a + 1) - 1 = b
      /\ \A i \in 1..(b - a + 1) : a + i - 1 \in 1..Len(s)
  BY <1>1, <1>6
<1>. QED
  BY <1>6, <1>7, <1>8, <1>9

(* and trimming leaves that alone. *)
LEMMA TrimKeeps ==
  ASSUME NEW s \in Path, s # <<>>, s[1] # Blank, s[Len(s)] # Blank
  PROVE  Trim(s) = s
<1>. DEFINE I == {i \in 1..Len(s) : s[i] # Blank}
<1>1. Len(s) \in Nat \ {0} /\ s \in Seq(Char)
  BY EmptySeq DEF Path
<1>2. 1 \in I /\ Len(s) \in I /\ \A m \in I : 1 <= m /\ Len(s) >= m /\ m \in Nat
  BY <1>1
<1>. HIDE DEF I
<1>3. Min(I) = 1
  BY <1>2 DEF Min
<1>4. Max(I) = Len(s)
  BY <1>1, <1>2 DEF Max
<1>5. Trim(s) = SubSeq(s, Min(I), Max(I))
  <2>1. I # {} /\ Min(I) # 0
    BY <1>2, <1>3
  <2>. QED
    BY <2>1, Zenon DEF Trim, SelectInSeq, SelectLastInSeq, I
<1>. QED
  BY <1>1, <1>3, <1>4, <1>5, SubSeqFull

(* A pattern as it is split off. *)
Plain(w) ==
  /\ w \in Path /\ w # <<>> /\ Trim(w) = w
  /\ \A i \in 1..Len(w) : w[i] \notin Marks

LEMMA SplitPatternsPlain ==
  ASSUME NEW text \in Path, NEW k \in 1..Len(SplitPatterns(text))
  PROVE  Plain(SplitPatterns(text)[k])
<1>. DEFINE parts == Parts(text, Marks)
<1>1. /\ Cardinality(Kept(text)) \in Nat
      /\ SplitPatterns(text) = [l \in 1..Cardinality(Kept(text)) |-> Trimmed(text)[Nth(Kept(text), l)]]
      /\ Kept(text) \in SUBSET (0..Len(parts)) /\ Len(parts) \in Nat
  BY SplitPatternsIs
<1>2. k \in 1..Cardinality(Kept(text)) /\ SplitPatterns(text)[k] = Trimmed(text)[Nth(Kept(text), k)]
  BY <1>1
<1>3. PICK n \in Kept(text) : n = Nth(Kept(text), k)
  BY <1>1, <1>2, NthIn
<1>. DEFINE part == parts[n]
            w == Trim(part)
<1>4. n \in DOMAIN parts /\ SplitPatterns(text)[k] = w /\ w # <<>>
  BY <1>2, <1>3 DEF Kept, Trimmed
<1>5. part \in Path /\ \A i \in 1..Len(part) : part[i] \notin Marks
  <2>1. text \in Seq(Char)
    BY DEF Path
  <2>2. part \in Seq(Char \ Marks)
    BY <1>4, <2>1, PartsPlain
  <2>. HIDE DEF part
  <2>3. \A i \in 1..Len(part) : part[i] \in Char \ Marks
    BY <2>2
  <2>4. Seq(Char \ Marks) \subseteq Seq(Char)
    BY SeqMonotonic
  <2>. QED
    BY <2>2, <2>3, <2>4 DEF Path
<1>. HIDE DEF part
<1>6. w \in Path
  BY <1>5, TrimType
<1>7. /\ w[1] # Blank /\ w[Len(w)] # Blank
      /\ \A i \in 1..Len(w) : w[i] \notin Marks
  BY <1>4, <1>5, TrimShape
<1>. HIDE DEF w
<1>8. Trim(w) = w
  BY <1>4, <1>6, <1>7, TrimKeeps
<1>. QED
  BY <1>4, <1>6, <1>7, <1>8 DEF Plain

(* What is joined is taken apart again. *)
LEMMA JoinParts ==
  ASSUME NEW C, NEW list \in Seq(Seq(C)), NEW sep \in C, NEW cut, sep \in cut,
         \A k \in 1..Len(list) : list[k] # <<>> /\ \A i \in 1..Len(list[k]) : list[k][i] \notin cut
  PROVE  Parts(Join(list, sep), cut) = list
<1>. DEFINE e(i) == IF i = 1 THEN list[i] ELSE <<sep>> \o list[i]
            q == [i \in 1..Len(list) |-> e(i)]
<1>1. Len(list) \in Nat /\ (\A k \in 1..Len(list) : list[k] \in Seq(C)) /\ <<sep>> \in Seq(C)
  OBVIOUS
<1>2. \A i \in 1..Len(list) : e(i) \in Seq(C)
  BY <1>1, ConcatProperties
<1>3. Join(list, sep) = FlattenSeq(q)
  <2>1. DOMAIN list = 1..Len(list)
    OBVIOUS
  <2>. QED
    BY <2>1 DEF Join
<1>4. q \in Seq(Seq(C)) /\ Len(q) = Len(list)
  <2>. HIDE DEF e
  <2>1. [i \in 1..Len(list) |-> e(i)] \in Seq(Seq(C))
    BY <1>1, <1>2, IsASeq
  <2>. QED
    BY <1>1, <2>1
<1>5. CASE Len(list) = 0
  <2>1. list = <<>> /\ q = <<>>
    BY <1>4, <1>5, EmptySeq
  <2>2. Join(list, sep) = <<>>
    BY <1>3, <1>4, <1>5, <2>1 DEF FlattenSeq
  <2>3. Starts(<<>>, cut) = {}
    BY DEF Starts
  <2>4. Parts(<<>>, cut) = <<>>
    <3>1. Cardinality(Starts(<<>>, cut)) = 0
      BY <2>3, FS_EmptySet
    <3>2. Parts(<<>>, cut) = [n \in 1..0 |-> PartAt(<<>>, cut, Nth(Starts(<<>>, cut), n))]
      BY <3>1, PartsAre
    <3>. QED
      BY <3>2
  <2>. QED
    BY <2>1, <2>2, <2>4
<1>6. CASE Len(list) # 0
  <2>. DEFINE F == CHOOSE G : Flattens(q, G, Len(q))
  <2>1. Len(list) \in 1..Len(list) /\ Len(q) \in Nat
    BY <1>1, <1>4, <1>6
  <2>2. Flattens(q, F, Len(q))
    BY <2>1, FlattenExists
  <2>3. FlattenSeq(q) = F[Len(list)]
    BY <1>4, <1>6 DEF FlattenSeq, Flattens
  <2>. HIDE DEF F, q
  <2>4. \A n \in 1..Len(list) : F[n] \in Seq(C)
    BY <1>4, <2>2, FlattensType
  <2>5. \A n \in 1..Len(list) : F[n] = IF n = 1 THEN list[1] ELSE F[n - 1] \o (<<sep>> \o list[n])
    BY <1>4, <2>2 DEF Flattens, q
  <2>. DEFINE B == {n \in 1..Len(list) : Parts(F[n], cut) # SubSeq(list, 1, n)}
  <2>6. B = {}
    <3>. SUFFICES ASSUME B # {} PROVE FALSE
      OBVIOUS
    <3>1. PICK n \in B : \A k \in B : n <= k
      <4>1. B \in SUBSET Nat
        OBVIOUS
      <4>. HIDE DEF B
      <4>. QED
        BY <4>1, Least
    <3>2. n \in 1..Len(list) /\ n \in Nat
      OBVIOUS
    <3>3. CASE n = 1
      <4>1. F[1] = list[1] /\ list[1] \in Seq(C) /\ list[1] # <<>>
            /\ \A i \in 1..Len(list[1]) : list[1][i] \notin cut
        BY <1>1, <2>5, <3>2, <3>3
      <4>2. Parts(F[1], cut) = <<list[1]>>
        BY <4>1, PartsOne
      <4>3. SubSeq(list, 1, 1) = <<list[1]>>
        <5>1. \A i \in 1..1 : list[i] \in Seq(C)
          BY <4>1
        <5>2. /\ SubSeq(list, 1, 1) \in Seq(Seq(C)) /\ Len(SubSeq(list, 1, 1)) = 1
              /\ SubSeq(list, 1, 1)[1] = list[1]
          BY <5>1, SubSeqProperties
        <5>3. /\ <<list[1]>> \in Seq(Seq(C)) /\ Len(<<list[1]>>) = 1
              /\ <<list[1]>>[1] = list[1]
          BY <4>1
        <5>4. \A i \in 1..1 : SubSeq(list, 1, 1)[i] = <<list[1]>>[i]
          BY <5>2, <5>3
        <5>. QED
          BY <5>2, <5>3, <5>4, SeqEqual
      <4>. QED
        BY <3>1, <3>3, <4>2, <4>3
    <3>4. CASE n # 1
      <4>1. n - 1 \in 1..Len(list) /\ n - 1 \notin B
        <5>1. n - 1 \in 1..Len(list) /\ ~(n <= n - 1)
          BY <3>2, <3>4
        <5>. QED
          BY <3>1, <5>1
      <4>2. Parts(F[n - 1], cut) = SubSeq(list, 1, n - 1)
        BY <4>1
      <4>3. F[n] = F[n - 1] \o (<<sep>> \o list[n]) /\ F[n - 1] \in Seq(C) /\ list[n] \in Seq(C)
        BY <1>1, <2>4, <2>5, <3>2, <3>4, <4>1
      <4>4. list[n] # <<>> /\ \A i \in 1..Len(list[n]) : list[n][i] \notin cut
        BY <3>2
      <4>5. Parts(F[n], cut) = Append(SubSeq(list, 1, n - 1), list[n])
        <5>1. Parts(F[n - 1] \o (<<sep>> \o list[n]), cut) = Append(Parts(F[n - 1], cut), list[n])
          <6>. DEFINE t == F[n - 1]
                      w == list[n]
          <6>1. t \in Seq(C) /\ w \in Seq(C) /\ w # <<>> /\ \A i \in 1..Len(w) : w[i] \notin cut
            BY <4>3, <4>4
          <6>. HIDE DEF t, w
          <6>2. Parts(t \o (<<sep>> \o w), cut) = Append(Parts(t, cut), w)
            BY <6>1, PartsMore
          <6>. QED
            BY <6>2 DEF t, w
        <5>. QED
          BY <4>2, <4>3, <5>1
      <4>6. SubSeq(list, 1, n) = Append(SubSeq(list, 1, n - 1), list[n])
        <5>1. 1 \in 1..Len(list) /\ n \in 1..Len(list) /\ 1 <= n
          BY <1>1, <3>2
        <5>. QED
          BY <5>1, SubSeqRecursiveSecond
      <4>. QED
        BY <3>1, <4>5, <4>6
    <3>. QED
      BY <3>3, <3>4
  <2>7. Parts(F[Len(list)], cut) = SubSeq(list, 1, Len(list))
    BY <2>1, <2>6
  <2>. QED
    BY <1>3, <2>3, <2>7, SubSeqFull
<1>. QED
  BY <1>5, <1>6

LEMMA NthOfAll ==
  ASSUME NEW b \in Nat, NEW n \in 1..b
  PROVE  Nth(1..b, n) = n
<1>1. n \in Nat /\ 1..b \in SUBSET (0..b) /\ n \in 1..b
  OBVIOUS
<1>2. Below(1..b, n) = 1..(n - 1)
  BY DEF Below
<1>3. Cardinality(1..(n - 1)) = n - 1
  BY FS_Interval
<1>. QED
  BY <1>1, <1>2, <1>3, NthIs

LEMMA SplitJoined ==
  ASSUME NEW list \in Seq(Path), \A k \in 1..Len(list) : Plain(list[k])
  PROVE  SplitPatterns(JoinPatterns(list)) = list
<1>. DEFINE text == JoinPatterns(list)
            C == Char \cup {";"}
<1>1. Parts(text, Marks) = list
  <2>1. list \in Seq(Seq(C)) /\ ";" \in C
    <3>1. Path \subseteq Seq(C)
      BY SeqMonotonic DEF Path
    <3>. QED
      BY <3>1, SeqMonotonic
  <2>2. ";" \in Marks
    BY DEF Marks
  <2>3. \A k \in 1..Len(list) : list[k] # <<>> /\ \A i \in 1..Len(list[k]) : list[k][i] \notin Marks
    BY DEF Plain
  <2>. HIDE DEF C
  <2>. QED
    BY <2>1, <2>2, <2>3, JoinParts DEF JoinPatterns
<1>. HIDE DEF text
<1>2. Len(list) \in Nat /\ DOMAIN list = 1..Len(list)
  OBVIOUS
<1>3. \A n \in 1..Len(list) : Trim(list[n]) = list[n] /\ list[n] # <<>>
  BY DEF Plain
<1>4. \A n \in 1..Len(list) : Trimmed(text)[n] = list[n]
  BY <1>1, <1>2, <1>3 DEF Trimmed
<1>5. Kept(text) = 1..Len(list)
  BY <1>1, <1>2, <1>3, <1>4 DEF Kept
<1>6. Cardinality(Kept(text)) = Len(list)
  <2>1. Cardinality(1..Len(list)) = Len(list)
    BY <1>2, FS_Interval
  <2>. QED
    BY <1>5, <2>1
<1>7. SplitPatterns(text) = [k \in 1..Cardinality(Kept(text)) |-> Trimmed(text)[Nth(Kept(text), k)]]
  BY DEF SplitPatterns, InOrder, Mapped, Kept, Trimmed, Marks
<1>8. \A k \in 1..Len(list) : Nth(1..Len(list), k) = k
  BY <1>2, NthOfAll
<1>9. SplitPatterns(text) = [k \in 1..Len(list) |-> list[k]]
  BY <1>4, <1>5, <1>6, <1>7, <1>8
<1>10. [k \in 1..Len(list) |-> list[k]] = list
  BY <1>2
<1>. QED
  BY <1>9, <1>10 DEF text

-----------------------------------------------------------------------------
(* The names of a file.                                                    *)

Plainly == Char \ Seps

LEMMA SepFacts ==
  /\ Sep \in Char /\ Sep \in Seps /\ Sep \notin Upper /\ <<Sep>> \in Path
  /\ <<Sep, Sep>> \in Path /\ Len(<<Sep, Sep>>) = 2
  /\ <<Sep, Sep>>[1] = Sep /\ <<Sep, Sep>>[2] = Sep
  /\ Seq(Plainly) \subseteq Path
<1>1. Sep \in Char /\ Sep \in Seps /\ Sep \notin Upper
  BY CharAssumption DEF Seps
<1>. HIDE DEF Sep
<1>2. <<Sep>> \in Path /\ <<Sep, Sep>> \in Path
  BY <1>1 DEF Path
<1>3. Seq(Plainly) \subseteq Path
  BY SeqMonotonic DEF Plainly, Path
<1>. QED
  BY <1>1, <1>2, <1>3

(* Lower-casing is done character by character, and once is enough. *)
LEMMA LowerConcat ==
  ASSUME NEW s \in Path, NEW t \in Path
  PROVE  LowerCopy(s \o t) = LowerCopy(s) \o LowerCopy(t)
<1>1. /\ s \in Seq(Char) /\ t \in Seq(Char) /\ Len(s) \in Nat /\ Len(t) \in Nat
      /\ LowerCopy(s) \in Seq(Char) /\ LowerCopy(t) \in Seq(Char)
      /\ Len(LowerCopy(s)) = Len(s) /\ Len(LowerCopy(t)) = Len(t)
  BY LowerCopyType DEF Path
<1>. DEFINE st == s \o t
            low == LowerCopy(s) \o LowerCopy(t)
<1>2. /\ st \in Seq(Char) /\ Len(st) = Len(s) + Len(t)
      /\ \A i \in 1..(Len(s) + Len(t)) : st[i] = IF i <= Len(s) THEN s[i] ELSE t[i - Len(s)]
  BY <1>1, ConcatProperties
<1>3. /\ low \in Seq(Char) /\ Len(low) = Len(s) + Len(t)
      /\ \A i \in 1..(Len(s) + Len(t)) :
           low[i] = IF i <= Len(s) THEN LowerCopy(s)[i] ELSE LowerCopy(t)[i - Len(s)]
  <2>1. /\ low \in Seq(Char) /\ Len(low) = Len(LowerCopy(s)) + Len(LowerCopy(t))
        /\ \A i \in 1..(Len(LowerCopy(s)) + Len(LowerCopy(t))) :
             low[i] = IF i <= Len(LowerCopy(s)) THEN LowerCopy(s)[i] ELSE LowerCopy(t)[i - Len(LowerCopy(s))]
    BY <1>1, ConcatProperties
  <2>. HIDE DEF low
  <2>. QED
    BY <1>1, <2>1
<1>. HIDE DEF st, low
<1>4. LowerCopy(st) \in Seq(Char) /\ Len(LowerCopy(st)) = Len(st)
  BY <1>2, LowerCopyType DEF Path
<1>5. /\ \A i \in 1..Len(st) : LowerCopy(st)[i] = IF st[i] \in Upper THEN Lowered[st[i]] ELSE st[i]
      /\ \A i \in 1..Len(s) : LowerCopy(s)[i] = IF s[i] \in Upper THEN Lowered[s[i]] ELSE s[i]
      /\ \A i \in 1..Len(t) : LowerCopy(t)[i] = IF t[i] \in Upper THEN Lowered[t[i]] ELSE t[i]
  BY <1>1, <1>2, LowerCopyIs
<1>6. ASSUME NEW i \in 1..(Len(s) + Len(t)) PROVE LowerCopy(st)[i] = low[i]
  <2>1. CASE i <= Len(s)
    <3>1. i \in 1..Len(s) /\ i \in 1..Len(st)
      BY <1>1, <1>2, <2>1
    <3>. QED
      BY <1>2, <1>3, <1>5, <2>1, <3>1
  <2>2. CASE ~(i <= Len(s))
    <3>1. i - Len(s) \in 1..Len(t) /\ i \in 1..Len(st)
      BY <1>1, <1>2, <2>2
    <3>. QED
      BY <1>2, <1>3, <1>5, <2>2, <3>1
  <2>. QED
    BY <2>1, <2>2
<1>7. LowerCopy(st) = low
  BY <1>2, <1>3, <1>4, <1>6, SeqEqual
<1>. QED
  BY <1>7 DEF st, low

LEMMA LowerTwice ==
  ASSUME NEW s \in Path
  PROVE  LowerCopy(LowerCopy(s)) = LowerCopy(s)
<1>. DEFINE t == LowerCopy(s)
<1>1. s \in Seq(Char) /\ t \in Seq(Char) /\ Len(t) = Len(s) /\ Len(s) \in Nat
  BY LowerCopyType DEF Path
<1>2. \A i \in 1..Len(s) : t[i] \notin Upper
  <2>1. \A i \in 1..Len(s) : t[i] = IF s[i] \in Upper THEN Lowered[s[i]] ELSE s[i]
    BY <1>1, LowerCopyIs
  <2>2. \A c \in Upper : Lowered[c] \notin Upper
    BY CharAssumption
  <2>. HIDE DEF t
  <2>. QED
    BY <2>1, <2>2
<1>. HIDE DEF t
<1>3. LowerCopy(t) = [i \in 1..Len(t) |-> IF t[i] \in Upper THEN Lowered[t[i]] ELSE t[i]]
  BY <1>1, LowerCopyIs
<1>4. LowerCopy(t) = [i \in 1..Len(t) |-> t[i]]
  BY <1>1, <1>2, <1>3
<1>5. [i \in 1..Len(t) |-> t[i]] = t
  BY <1>1
<1>. QED
  BY <1>4, <1>5 DEF t

LEMMA LowerPlain ==
  ASSUME NEW s \in Seq(Plainly)
  PROVE  LowerCopy(s) \in Seq(Plainly) /\ Len(LowerCopy(s)) = Len(s)
<1>1. s \in Path /\ s \in Seq(Plainly) /\ Len(s) \in Nat
  BY SepFacts
<1>2. LowerCopy(s) = [i \in 1..Len(s) |-> IF s[i] \in Upper THEN Lowered[s[i]] ELSE s[i]]
  BY <1>1, LowerCopyIs
<1>. DEFINE e(i) == IF s[i] \in Upper THEN Lowered[s[i]] ELSE s[i]
<1>3. \A i \in 1..Len(s) : e(i) \in Plainly
  <2>1. \A c \in Upper : Lowered[c] \in Plainly
    BY CharAssumption DEF Plainly
  <2>. QED
    BY <1>1, <2>1
<1>4. LowerCopy(s) = [i \in 1..Len(s) |-> e(i)]
  BY <1>2
<1>. HIDE DEF e
<1>5. [i \in 1..Len(s) |-> e(i)] \in Seq(Plainly)
  BY <1>1, <1>3, IsASeq
<1>. QED
  BY <1>1, <1>4, <1>5, LowerCopyType

(* \\server\share *)
Root(server, share) == <<Sep, Sep>> \o server \o <<Sep>> \o share

(* Two paths, one after the other. *)
LEMMA PathConcat ==
  ASSUME NEW s \in Path, NEW t \in Path
  PROVE  /\ s \o t \in Path /\ Len(s) \in Nat /\ Len(t) \in Nat
         /\ Len(s \o t) = Len(s) + Len(t)
         /\ \A i \in 1..Len(s) : (s \o t)[i] = s[i]
         /\ \A i \in 1..Len(t) : (s \o t)[Len(s) + i] = t[i]
<1>1. s \in Seq(Char) /\ t \in Seq(Char) /\ Len(s) \in Nat /\ Len(t) \in Nat
  BY DEF Path
<1>. DEFINE st == s \o t
<1>2. /\ st \in Seq(Char) /\ Len(st) = Len(s) + Len(t)
      /\ \A i \in 1..(Len(s) + Len(t)) : st[i] = IF i <= Len(s) THEN s[i] ELSE t[i - Len(s)]
  BY <1>1, ConcatProperties
<1>. HIDE DEF st
<1>3. /\ \A i \in 1..Len(s) : i \in 1..(Len(s) + Len(t)) /\ i <= Len(s)
      /\ \A i \in 1..Len(t) : /\ Len(s) + i \in 1..(Len(s) + Len(t))
                             /\ ~(Len(s) + i <= Len(s)) /\ (Len(s) + i) - Len(s) = i
  BY <1>1
<1>4. /\ \A i \in 1..Len(s) : st[i] = s[i]
      /\ \A i \in 1..Len(t) : st[Len(s) + i] = t[i]
  BY <1>2, <1>3
<1>. QED
  BY <1>1, <1>2, <1>4 DEF st, Path

LEMMA PathAssociative ==
  ASSUME NEW s \in Path, NEW t \in Path, NEW u \in Path
  PROVE  (s \o t) \o u = s \o (t \o u)
<1>1. s \in Seq(Char) /\ t \in Seq(Char) /\ u \in Seq(Char)
  BY DEF Path
<1>. QED
  BY <1>1, ConcatAssociative

LEMMA RootIs ==
  ASSUME NEW x \in Path, NEW y \in Path
  PROVE  /\ Root(x, y) \in Path /\ Len(Root(x, y)) = 3 + Len(x) + Len(y)
         /\ Root(x, y) = <<Sep, Sep>> \o (x \o (<<Sep>> \o y))
         /\ \A i \in 1..Len(x) : Root(x, y)[2 + i] = x[i]
         /\ Root(x, y)[3 + Len(x)] = Sep
         /\ \A i \in 1..Len(y) : Root(x, y)[3 + Len(x) + i] = y[i]
<1>. DEFINE a == <<Sep, Sep>>
            b == <<Sep>>
            ax == a \o x
            axb == ax \o b
            root == axb \o y
<1>1. /\ a \in Path /\ b \in Path /\ Len(a) = 2 /\ Len(b) = 1 /\ b[1] = Sep
      /\ Len(x) \in Nat /\ Len(y) \in Nat
  BY SepFacts DEF Path
<1>. HIDE DEF a, b
<1>2. /\ ax \in Path /\ Len(ax) = Len(a) + Len(x)
      /\ \A i \in 1..Len(x) : ax[Len(a) + i] = x[i]
  BY <1>1, PathConcat
<1>3. ax \o b = a \o (x \o b)
  BY <1>1, PathAssociative
<1>. HIDE DEF ax
<1>4. /\ axb \in Path /\ Len(axb) = Len(ax) + Len(b)
      /\ \A i \in 1..Len(ax) : axb[i] = ax[i]
      /\ \A i \in 1..Len(b) : axb[Len(ax) + i] = b[i]
  BY <1>1, <1>2, PathConcat
<1>5. axb \o y = ax \o (b \o y)
  BY <1>1, <1>2, PathAssociative
<1>6. b \o y \in Path
  BY <1>1, PathConcat
<1>7. ax \o (b \o y) = a \o (x \o (b \o y))
  BY <1>1, <1>6, PathAssociative DEF ax
<1>. HIDE DEF axb
<1>8. /\ root \in Path /\ Len(root) = Len(axb) + Len(y)
      /\ \A i \in 1..Len(axb) : root[i] = axb[i]
      /\ \A i \in 1..Len(y) : root[Len(axb) + i] = y[i]
  BY <1>4, PathConcat
<1>9. root = a \o (x \o (b \o y))
  BY <1>5, <1>7
<1>10. Root(x, y) = root
  BY DEF Root, a, b, ax, axb
<1>. HIDE DEF root
<1>11. Len(ax) = 2 + Len(x) /\ Len(axb) = 3 + Len(x) /\ Len(root) = 3 + Len(x) + Len(y)
  BY <1>1, <1>2, <1>4, <1>8
<1>12. ASSUME NEW i \in 1..Len(x) PROVE root[2 + i] = x[i]
  <2>1. 2 + i \in 1..Len(ax) /\ 2 + i \in 1..Len(axb)
    BY <1>1, <1>11
  <2>. QED
    BY <1>1, <1>2, <1>4, <1>8, <2>1
<1>13. root[3 + Len(x)] = Sep
  <2>1. 3 + Len(x) = Len(ax) + 1 /\ 3 + Len(x) \in 1..Len(axb) /\ 1 \in 1..Len(b)
    BY <1>1, <1>11
  <2>. QED
    BY <1>1, <1>4, <1>8, <2>1
<1>14. \A i \in 1..Len(y) : root[3 + Len(x) + i] = y[i]
  BY <1>8, <1>11
<1>. QED
  BY <1>8, <1>9, <1>10, <1>11, <1>12, <1>13, <1>14 DEF a, b

(* A root tells server and share. *)
LEMMA RootTells ==
  ASSUME NEW x \in Seq(Plainly), NEW y \in Seq(Plainly), NEW u \in Seq(Plainly), NEW w \in Seq(Plainly),
         Root(x, y) = Root(u, w)
  PROVE  x = u /\ y = w
<1>1. /\ x \in Path /\ y \in Path /\ u \in Path /\ w \in Path
      /\ Len(x) \in Nat /\ Len(y) \in Nat /\ Len(u) \in Nat /\ Len(w) \in Nat
      /\ \A i \in 1..Len(x) : x[i] # Sep
      /\ \A i \in 1..Len(u) : u[i] # Sep
  BY SepFacts DEF Plainly
<1>. DEFINE r == Root(x, y)
<1>. DEFINE q == Root(u, w)
<1>a. /\ Len(r) = 3 + Len(x) + Len(y) /\ r[3 + Len(x)] = Sep
      /\ (\A i \in 1..Len(x) : r[2 + i] = x[i])
      /\ (\A i \in 1..Len(y) : r[3 + Len(x) + i] = y[i])
  BY <1>1, RootIs
<1>b. /\ Len(q) = 3 + Len(u) + Len(w) /\ q[3 + Len(u)] = Sep
      /\ (\A i \in 1..Len(u) : q[2 + i] = u[i])
      /\ (\A i \in 1..Len(w) : q[3 + Len(u) + i] = w[i])
  BY <1>1, RootIs
<1>c. r = q
  OBVIOUS
<1>. HIDE DEF r, q
<1>2. /\ Len(r) = 3 + Len(x) + Len(y) /\ Len(r) = 3 + Len(u) + Len(w)
      /\ (\A i \in 1..Len(x) : r[2 + i] = x[i]) /\ (\A i \in 1..Len(u) : r[2 + i] = u[i])
      /\ r[3 + Len(x)] = Sep /\ r[3 + Len(u)] = Sep
      /\ (\A i \in 1..Len(y) : r[3 + Len(x) + i] = y[i])
      /\ (\A i \in 1..Len(w) : r[3 + Len(u) + i] = w[i])
  BY <1>a, <1>b, <1>c
<1>3. ~(Len(x) < Len(u))
  <2>. SUFFICES ASSUME Len(x) < Len(u) PROVE FALSE
    OBVIOUS
  <2>1. Len(x) + 1 \in 1..Len(u) /\ 2 + (Len(x) + 1) = 3 + Len(x)
    BY <1>1
  <2>. QED
    BY <1>1, <1>2, <2>1
<1>4. ~(Len(u) < Len(x))
  <2>. SUFFICES ASSUME Len(u) < Len(x) PROVE FALSE
    OBVIOUS
  <2>1. Len(u) + 1 \in 1..Len(x) /\ 2 + (Len(u) + 1) = 3 + Len(u)
    BY <1>1
  <2>. QED
    BY <1>1, <1>2, <2>1
<1>5. Len(x) = Len(u) /\ Len(y) = Len(w)
  BY <1>1, <1>2, <1>3, <1>4
<1>6. x = u
  <2>1. \A i \in 1..Len(x) : x[i] = u[i]
    BY <1>2, <1>5
  <2>. QED
    BY <1>5, <2>1, SeqEqual
<1>7. y = w
  <2>1. \A i \in 1..Len(y) : y[i] = w[i]
    BY <1>2, <1>5
  <2>. QED
    BY <1>5, <2>1, SeqEqual
<1>. QED
  BY <1>6, <1>7

LEMMA LowerRoot ==
  ASSUME NEW x \in Seq(Plainly), NEW y \in Seq(Plainly)
  PROVE  LowerCopy(Root(x, y)) = Root(LowerCopy(x), LowerCopy(y))
<1>1. x \in Path /\ y \in Path /\ <<Sep>> \in Path /\ <<Sep, Sep>> \in Path
  BY SepFacts
<1>2. LowerCopy(<<Sep>>) = <<Sep>> /\ LowerCopy(<<Sep, Sep>>) = <<Sep, Sep>>
  <2>1. <<Sep>> \in Seq(Char) /\ <<Sep, Sep>> \in Seq(Char) /\ Sep \notin Upper
    BY SepFacts DEF Path
  <2>. HIDE DEF Sep
  <2>2. /\ LowerCopy(<<Sep>>) = [i \in 1..Len(<<Sep>>) |->
               IF <<Sep>>[i] \in Upper THEN Lowered[<<Sep>>[i]] ELSE <<Sep>>[i]]
        /\ LowerCopy(<<Sep, Sep>>) = [i \in 1..Len(<<Sep, Sep>>) |->
               IF <<Sep, Sep>>[i] \in Upper THEN Lowered[<<Sep, Sep>>[i]] ELSE <<Sep, Sep>>[i]]
    BY <2>1, LowerCopyIs
  <2>3. LowerCopy(<<Sep>>) = <<Sep>>
    BY <2>1, <2>2
  <2>4. LowerCopy(<<Sep, Sep>>) = <<Sep, Sep>>
    BY <2>1, <2>2
  <2>. QED
    BY <2>3, <2>4
<1>. DEFINE a == <<Sep, Sep>>
            b == <<Sep>>
<1>3. a \in Path /\ b \in Path /\ LowerCopy(a) = a /\ LowerCopy(b) = b
  BY <1>1, <1>2
<1>4. Root(x, y) = a \o x \o b \o y /\ Root(LowerCopy(x), LowerCopy(y)) = a \o LowerCopy(x) \o b \o LowerCopy(y)
  BY DEF Root
<1>. HIDE DEF a, b
<1>5. a \o x \in Path /\ a \o x \o b \in Path
  <2>1. a \o x \in Path
    BY <1>1, <1>3, ConcatProperties DEF Path
  <2>. QED
    BY <1>3, <2>1, ConcatProperties DEF Path
<1>6. /\ LowerCopy(a \o x) = a \o LowerCopy(x)
      /\ LowerCopy(a \o x \o b) = a \o LowerCopy(x) \o b
      /\ LowerCopy(a \o x \o b \o y) = a \o LowerCopy(x) \o b \o LowerCopy(y)
  <2>1. LowerCopy(a \o x) = a \o LowerCopy(x)
    BY <1>1, <1>3, LowerConcat
  <2>2. LowerCopy(a \o x \o b) = LowerCopy(a \o x) \o b
    BY <1>3, <1>5, LowerConcat
  <2>3. LowerCopy(a \o x \o b \o y) = LowerCopy(a \o x \o b) \o LowerCopy(y)
    BY <1>1, <1>5, LowerConcat
  <2>. QED
    BY <2>1, <2>2, <2>3
<1>. QED
  BY <1>4, <1>6

(* Two roots are the same but for case if server and share are. *)
LEMMA RootsAgree ==
  ASSUME NEW x \in Seq(Plainly), NEW y \in Seq(Plainly), NEW u \in Seq(Plainly), NEW w \in Seq(Plainly)
  PROVE  LowerCopy(Root(x, y)) = LowerCopy(Root(u, w)) <=> EqualIgnoreCase(x, u) /\ EqualIgnoreCase(y, w)
<1>1. /\ LowerCopy(x) \in Seq(Plainly) /\ LowerCopy(y) \in Seq(Plainly)
      /\ LowerCopy(u) \in Seq(Plainly) /\ LowerCopy(w) \in Seq(Plainly)
  BY LowerPlain
<1>2. /\ LowerCopy(Root(x, y)) = Root(LowerCopy(x), LowerCopy(y))
      /\ LowerCopy(Root(u, w)) = Root(LowerCopy(u), LowerCopy(w))
  BY LowerRoot
<1>3. Root(LowerCopy(x), LowerCopy(y)) = Root(LowerCopy(u), LowerCopy(w)) =>
        LowerCopy(x) = LowerCopy(u) /\ LowerCopy(y) = LowerCopy(w)
  BY <1>1, RootTells
<1>. QED
  BY <1>2, <1>3 DEF EqualIgnoreCase

(* What is between separators: plain characters, and some. *)
Component == Seq(Plainly) \ {<<>>}

LEMMA ComponentFacts ==
  ASSUME NEW p \in Component
  PROVE  /\ p \in Seq(Plainly) /\ p \in Path /\ p # <<>> /\ Len(p) \in Nat \ {0}
         /\ p[1] \in Plainly
<1>1. p \in Seq(Plainly) /\ p # <<>> /\ p \in Path
  BY SepFacts DEF Component
<1>2. Len(p) \in Nat \ {0}
  BY <1>1, EmptySeq
<1>3. 1 \in 1..Len(p)
  BY <1>2
<1>. QED
  BY <1>1, <1>2, <1>3

LEMMA ComponentsPlain ==
  ASSUME NEW s \in Path
  PROVE  Components(s) \in Seq(Component) /\ Len(Components(s)) \in Nat
<1>. DEFINE parts == Parts(s, Seps)
            e(i) == parts[i]
<1>1. s \in Seq(Char)
  BY DEF Path
<1>2. parts \in Seq(Seq(Char))
  BY <1>1, PartsType
<1>3. \A i \in DOMAIN parts : parts[i] \in Seq(Plainly) /\ Len(parts[i]) \in Nat \ {0}
  BY <1>1, PartsPlain DEF Plainly
<1>. HIDE DEF parts
<1>4. DOMAIN parts = 1..Len(parts) /\ Len(parts) \in Nat /\ parts = [i \in 1..Len(parts) |-> e(i)]
  BY <1>2
<1>5. Len(<<>>) = 0
  OBVIOUS
<1>6. \A i \in 1..Len(parts) : e(i) \in Component
  BY <1>3, <1>4, <1>5 DEF Component
<1>. HIDE DEF e
<1>7. [i \in 1..Len(parts) |-> e(i)] \in Seq(Component)
  BY <1>4, <1>6, IsASeq
<1>. QED
  BY <1>4, <1>7 DEF parts, Components

(* The components from the i-th on. *)
LEMMA FromIs ==
  ASSUME NEW S, NEW q \in Seq(S), NEW i \in 1..(Len(q) + 1)
  PROVE  /\ From(q, i) \in Seq(S) /\ Len(From(q, i)) = Len(q) - i + 1
         /\ \A k \in 1..(Len(q) - i + 1) : From(q, i)[k] = q[i + k - 1]
<1>. DEFINE n == Len(q)
<1>1. n \in Nat /\ i \in Int /\ n \in Int /\ \A k \in i..n : q[k] \in S
  OBVIOUS
<1>2. /\ SubSeq(q, i, n) \in Seq(S) /\ Len(SubSeq(q, i, n)) = IF i <= n THEN n - i + 1 ELSE 0
      /\ \A k \in 1..(n - i + 1) : SubSeq(q, i, n)[k] = q[i + k - 1]
  <2>. HIDE DEF n
  <2>. QED
    BY ONLY <1>1, SubSeqProperties
<1>3. ~(i <= n) => n - i + 1 = 0
  BY <1>1
<1>. QED
  BY <1>2, <1>3 DEF From

LEMMA FromFrom ==
  ASSUME NEW S, NEW q \in Seq(S), NEW i \in 1..(Len(q) + 1), NEW j \in Nat, i + j <= Len(q) + 1
  PROVE  From(From(q, i), j + 1) = From(q, i + j)
<1>. DEFINE p == From(q, i)
<1>1. /\ p \in Seq(S) /\ Len(p) = Len(q) - i + 1
      /\ \A k \in 1..(Len(q) - i + 1) : p[k] = q[i + k - 1]
  BY FromIs
<1>2. Len(q) \in Nat /\ j + 1 \in 1..(Len(q) - i + 2) /\ i + j \in 1..(Len(q) + 1)
  OBVIOUS
<1>. DEFINE a == From(p, j + 1)
            b == From(q, i + j)
<1>. HIDE DEF p
<1>3. /\ a \in Seq(S) /\ Len(a) = Len(p) - (j + 1) + 1
      /\ \A k \in 1..(Len(p) - (j + 1) + 1) : a[k] = p[(j + 1) + k - 1]
  <2>1. j + 1 \in 1..(Len(p) + 1)
    BY <1>1, <1>2
  <2>. QED
    BY <1>1, <2>1, FromIs
<1>4. /\ b \in Seq(S) /\ Len(b) = Len(q) - (i + j) + 1
      /\ \A k \in 1..(Len(q) - (i + j) + 1) : b[k] = q[(i + j) + k - 1]
  BY <1>2, FromIs
<1>. HIDE DEF a, b
<1>5. Len(p) - (j + 1) + 1 = Len(q) - (i + j) + 1
  BY <1>1, <1>2
<1>6. ASSUME NEW k \in 1..(Len(q) - (i + j) + 1) PROVE a[k] = b[k]
  <2>1. /\ (j + 1) + k - 1 \in 1..(Len(q) - i + 1)
        /\ i + ((j + 1) + k - 1) - 1 = (i + j) + k - 1
    BY <1>2
  <2>. QED
    BY <1>1, <1>3, <1>4, <1>5, <2>1
<1>7. a = b
  BY <1>3, <1>4, <1>5, <1>6, SeqEqual
<1>. QED
  BY <1>7 DEF a, b, p

(* The first of several parts is followed by the others. *)
LEMMA JoinNext ==
  ASSUME NEW parts \in Seq(Path), Len(parts) >= 2, NEW sep \in Char
  PROVE  Join(parts, sep) = parts[1] \o (<<sep>> \o Join(From(parts, 2), sep))
<1>. DEFINE n == Len(parts)
            rest == From(parts, 2)
            b == <<sep>>
            e(i) == IF i = 1 THEN parts[i] ELSE b \o parts[i]
            d(i) == IF i = 1 THEN rest[i] ELSE b \o rest[i]
            q == [i \in 1..n |-> e(i)]
            r == [i \in 1..(n - 1) |-> d(i)]
<1>1. /\ n \in Nat /\ n >= 2 /\ b \in Path /\ (\A i \in 1..n : parts[i] \in Path)
      /\ DOMAIN parts = 1..n
  BY DEF Path
<1>2. /\ rest \in Seq(Path) /\ Len(rest) = n - 1
      /\ \A i \in 1..(n - 1) : rest[i] = parts[i + 1]
  <2>1. 2 \in 1..(Len(parts) + 1)
    BY <1>1
  <2>2. /\ From(parts, 2) \in Seq(Path) /\ Len(From(parts, 2)) = Len(parts) - 2 + 1
        /\ \A k \in 1..(Len(parts) - 2 + 1) : From(parts, 2)[k] = parts[2 + k - 1]
    BY <2>1, FromIs
  <2>3. n - 2 + 1 = n - 1 /\ \A i \in 1..(n - 1) : 2 + i - 1 = i + 1
    BY <1>1
  <2>. HIDE DEF n, rest
  <2>4. /\ rest \in Seq(Path) /\ Len(rest) = n - 2 + 1
        /\ \A i \in 1..(n - 2 + 1) : rest[i] = parts[2 + i - 1]
    BY <2>2 DEF n, rest
  <2>. QED
    BY <2>3, <2>4
<1>. HIDE DEF rest, b, n
<1>3. DOMAIN rest = 1..(n - 1)
  BY <1>1, <1>2
<1>4. Join(parts, sep) = FlattenSeq(q) /\ Join(rest, sep) = FlattenSeq(r)
  BY <1>1, <1>3 DEF Join, b
<1>5. /\ \A i \in 1..n : e(i) \in Path
      /\ \A i \in 1..(n - 1) : d(i) \in Path
  <2>1. \A i \in 1..n : b \o parts[i] \in Path
    BY <1>1, PathConcat
  <2>2. \A i \in 1..(n - 1) : rest[i] \in Path
    BY <1>2, ElementOfSeq
  <2>3. \A i \in 1..(n - 1) : b \o rest[i] \in Path
    BY <1>1, <2>2, PathConcat
  <2>. QED
    BY <1>1, <2>1, <2>2, <2>3
<1>6. /\ e(1) = parts[1] /\ d(1) = parts[2] /\ (\A i \in 2..n : e(i) = b \o parts[i])
      /\ \A i \in 2..(n - 1) : d(i) = e(i + 1)
  <2>1. 1 \in 1..(n - 1) /\ \A i \in 2..(n - 1) : i \in 1..(n - 1) /\ i + 1 # 1 /\ i # 1
    BY <1>1
  <2>2. \A i \in 2..n : i # 1
    OBVIOUS
  <2>. QED
    BY <1>2, <2>1, <2>2
<1>. HIDE DEF e, d
<1>7. /\ q \in Seq(Path) /\ Len(q) = n /\ r \in Seq(Path) /\ Len(r) = n - 1
      /\ (\A i \in 1..n : q[i] = e(i)) /\ (\A i \in 1..(n - 1) : r[i] = d(i))
  <2>1. n - 1 \in Nat
    BY <1>1
  <2>2. q \in Seq(Path)
    BY <1>1, <1>5, IsASeq
  <2>3. r \in Seq(Path)
    BY <2>1, <1>5, IsASeq
  <2>. QED
    BY <1>1, <2>1, <2>2, <2>3
<1>. HIDE DEF q, r
<1>8. PICK F : Flattens(q, F, n) /\ FlattenSeq(q) = F[n]
  <2>1. Len(q) # 0
    BY <1>1, <1>7
  <2>. QED
    BY <2>1, <1>7, FlattenSeqIs
<1>9. PICK H : Flattens(r, H, n - 1) /\ FlattenSeq(r) = H[n - 1]
  <2>1. Len(r) # 0
    BY <1>1, <1>7
  <2>. QED
    BY <2>1, <1>7, FlattenSeqIs
<1>10. \A i \in 1..(n - 1) : H[i] \in Path
  BY <1>7, <1>9, FlattensType DEF Path
<1>11. \A m \in 1..(n - 1) : F[m + 1] = parts[1] \o (b \o H[m])
  <2>. DEFINE B == {m \in 1..(n - 1) : F[m + 1] # parts[1] \o (b \o H[m])}
  <2>. SUFFICES ASSUME B # {} PROVE FALSE
    OBVIOUS
  <2>1. PICK m \in B : \A k \in B : m <= k
    <3>1. B \in SUBSET Nat
      <4>1. \A k \in B : k \in 1..(n - 1)
        OBVIOUS
      <4>. HIDE DEF B
      <4>. QED
        BY <1>1, <4>1
    <3>. HIDE DEF B
    <3>. QED
      BY <3>1, Least
  <2>2. /\ m \in 1..(n - 1) /\ m + 1 \in 2..n /\ m + 1 \in 1..n /\ m + 1 # 1 /\ (m + 1) - 1 = m
        /\ m \in Nat
    BY <1>1
  <2>3. F[m + 1] = F[m] \o q[m + 1] /\ q[m + 1] = b \o parts[m + 1]
    <3>1. F[m + 1] = IF m + 1 = 1 THEN q[m + 1] ELSE F[(m + 1) - 1] \o q[m + 1]
      BY <1>8, <2>2 DEF Flattens
    <3>. QED
      BY <3>1, <1>6, <1>7, <2>2
  <2>4. H[m] = IF m = 1 THEN r[m] ELSE H[m - 1] \o r[m]
    BY <1>9, <2>2 DEF Flattens
  <2>5. F[m + 1] # parts[1] \o (b \o H[m])
    OBVIOUS
  <2>6. CASE m = 1
    <3>1. F[1] = parts[1] /\ H[1] = parts[2]
      <4>1. 1 \in 1..n /\ 1 \in 1..(n - 1)
        BY <1>1
      <4>2. F[1] = q[1]
        BY <4>1, <1>8 DEF Flattens
      <4>. QED
        BY <4>1, <4>2, <1>6, <1>7, <2>4, <2>6
    <3>. QED
      BY <2>3, <2>5, <2>6, <3>1
  <2>7. CASE m # 1
    <3>1. /\ m - 1 \in 1..(n - 1) /\ m \in 2..(n - 1) /\ (m - 1) + 1 = m /\ ~(m <= m - 1)
      BY <1>1, <2>2, <2>7
    <3>2. m - 1 \notin B
      BY <2>1, <3>1
    <3>3. F[m] = parts[1] \o (b \o H[m - 1])
      BY <3>1, <3>2
    <3>4. H[m] = H[m - 1] \o q[m + 1]
      BY <1>6, <1>7, <2>2, <2>4, <2>7, <3>1
    <3>. DEFINE x == parts[1]
                h == H[m - 1]
                t == q[m + 1]
    <3>5. x \in Path /\ h \in Path /\ t \in Path
      <4>1. 1 \in 1..n /\ m + 1 \in 1..Len(q)
        BY <1>1, <1>7, <2>2
      <4>2. q[m + 1] \in Path
        BY <1>7, <4>1, ElementOfSeq
      <4>. QED
        BY <1>1, <1>10, <3>1, <4>1, <4>2
    <3>6. F[m + 1] = (x \o (b \o h)) \o t /\ H[m] = h \o t
      BY <2>3, <3>3, <3>4
    <3>. HIDE DEF x, h, t
    <3>7. b \o h \in Path
      BY <1>1, <3>5, PathConcat
    <3>8. (x \o (b \o h)) \o t = x \o ((b \o h) \o t)
      BY <3>5, <3>7, PathAssociative
    <3>9. (b \o h) \o t = b \o (h \o t)
      BY <1>1, <3>5, PathAssociative
    <3>. QED
      BY <2>5, <3>6, <3>8, <3>9 DEF x
  <2>. QED
    BY <2>6, <2>7
<1>12. F[n] = parts[1] \o (b \o H[n - 1])
  <2>1. n - 1 \in 1..(n - 1) /\ (n - 1) + 1 = n
    BY <1>1
  <2>. QED
    BY <2>1, <1>11
<1>. QED
  BY <1>4, <1>8, <1>9, <1>12 DEF rest, b

LEMMA JoinOne ==
  ASSUME NEW parts \in Seq(Path), Len(parts) = 1, NEW sep \in Char
  PROVE  Join(parts, sep) = parts[1]
<1>. DEFINE e(i) == IF i = 1 THEN parts[i] ELSE <<sep>> \o parts[i]
            q == [i \in 1..1 |-> e(i)]
<1>1. DOMAIN parts = 1..1
  OBVIOUS
<1>2. Join(parts, sep) = FlattenSeq(q)
  BY <1>1 DEF Join
<1>3. q[1] = parts[1] /\ Len(q) = 1
  <2>1. 1 \in 1..1 /\ e(1) = parts[1]
    OBVIOUS
  <2>. HIDE DEF e
  <2>. QED
    BY <2>1
<1>4. q \in Seq(Path)
  <2>1. \A i \in 1..1 : e(i) \in Path
    <3>1. parts[1] \in Path /\ \A i \in 1..1 : i = 1
      BY <1>1, ElementOfSeq
    <3>. QED
      BY <3>1
  <2>. HIDE DEF e
  <2>. QED
    BY <2>1, IsASeq
<1>. HIDE DEF q
<1>5. PICK F : Flattens(q, F, 1) /\ FlattenSeq(q) = F[1]
  <2>1. Len(q) # 0
    BY <1>3
  <2>. QED
    BY <1>3, <1>4, <2>1, FlattenSeqIs
<1>6. F[1] = q[1]
  BY <1>5 DEF Flattens
<1>. QED
  BY <1>2, <1>3, <1>5, <1>6

LEMMA NormalizeIs ==
  ASSUME NEW C, NEW s \in Seq(C)
  PROVE  NormalizeSeparators(s) = [i \in 1..Len(s) |-> IF s[i] \in Seps THEN Sep ELSE s[i]]
BY DEF NormalizeSeparators, Mapped, IsSep

(* Joined, plain parts are a path as it is stored: it begins with the      *)
(* first of them, and its separators are the one of Join.                  *)
LEMMA JoinShape ==
  ASSUME NEW parts \in Seq(Component), parts # <<>>
  PROVE  /\ Join(parts, Sep) \in Seq(Char \ (Seps \ {Sep})) /\ Join(parts, Sep) \in Path
         /\ Len(Join(parts, Sep)) \in Nat \ {0} /\ Join(parts, Sep)[1] \notin Seps
<1>. DEFINE C == Char \ (Seps \ {Sep})
            rel == Join(parts, Sep)
<1>0. Sep \in C /\ Plainly \subseteq C /\ C \subseteq Char
  BY SepFacts DEF Plainly
<1>1. Len(parts) \in Nat /\ Len(parts) # 0
  BY EmptySeq
<1>2. /\ parts[1] \in Component /\ parts \in Seq(Path)
  <2>1. Component \subseteq Path
    BY ComponentFacts
  <2>2. 1 \in 1..Len(parts)
    BY <1>1
  <2>. QED
    BY <2>1, <2>2, SeqMonotonic
<1>3. /\ parts[1] \in Path /\ Len(parts[1]) \in Nat \ {0} /\ parts[1][1] \in Plainly
  BY <1>2, ComponentFacts
<1>4. rel \in Seq(C)
  <2>1. Seq(Plainly) \subseteq Seq(C)
    BY <1>0, SeqMonotonic
  <2>2. Component \subseteq Seq(C)
    BY <2>1 DEF Component
  <2>3. parts \in Seq(Seq(C))
    BY <2>2, SeqMonotonic
  <2>. HIDE DEF C
  <2>. QED
    BY <1>0, <2>3, JoinType
<1>. HIDE DEF C
<1>5. rel \in Path
  BY <1>0, <1>4, SeqMonotonic DEF Path
<1>6. Len(rel) \in Nat \ {0} /\ rel[1] = parts[1][1]
  <2>1. CASE Len(parts) = 1
    <3>1. rel = parts[1]
      BY <1>2, <2>1, SepFacts, JoinOne
    <3>. QED
      BY <1>3, <3>1
  <2>2. CASE Len(parts) # 1
    <3>1. Len(parts) >= 2
      <4>1. \A n \in Nat : n # 0 /\ n # 1 => n >= 2
        OBVIOUS
      <4>. QED
        BY ONLY <1>1, <2>2, <4>1
    <3>. DEFINE x == parts[1]
                y == <<Sep>> \o Join(From(parts, 2), Sep)
    <3>2. rel = x \o y
      BY <1>2, <3>1, SepFacts, JoinNext
    <3>3. y \in Path
      <4>1. 2 \in 1..(Len(parts) + 1)
        BY <3>1
      <4>2. From(parts, 2) \in Seq(Path)
        BY <1>2, <4>1, FromIs
      <4>3. Join(From(parts, 2), Sep) \in Path
        BY <4>2, SepFacts, JoinType DEF Path
      <4>. QED
        BY <4>3, SepFacts, PathConcat
    <3>4. x \in Path /\ Len(x) \in Nat \ {0}
      BY <1>3
    <3>. HIDE DEF x, y, rel
    <3>5. Len(x \o y) = Len(x) + Len(y) /\ Len(y) \in Nat /\ \A i \in 1..Len(x) : (x \o y)[i] = x[i]
      BY <3>3, <3>4, PathConcat
    <3>6. 1 \in 1..Len(x) /\ Len(x) + Len(y) \in Nat \ {0}
      BY <3>4, <3>5
    <3>. QED
      BY <3>2, <3>5, <3>6 DEF x
  <2>. QED
    BY <2>1, <2>2
<1>. QED
  BY <1>3, <1>4, <1>5, <1>6 DEF Plainly, C

(* Such a path is stored as it is. *)
LEMMA NormalKept ==
  ASSUME NEW rel \in Seq(Char \ (Seps \ {Sep})), Len(rel) # 0 => rel[1] \notin Seps
  PROVE  NormalizeSeparators(TrimLeading(rel)) = rel
<1>1. Len(rel) \in Nat
  OBVIOUS
<1>2. TrimLeading(rel) = rel
  <2>. DEFINE I == {i \in 1..Len(rel) : ~IsSep(rel[i])}
              k == SelectInSeq(rel, LAMBDA c : ~IsSep(c))
  <2>1. k = IF I # {} THEN Min(I) ELSE 0
    BY DEF SelectInSeq
  <2>2. CASE Len(rel) = 0
    <3>1. I = {}
      BY <2>2
    <3>2. rel = <<>> /\ k = 0
      BY <2>1, <2>2, <3>1, EmptySeq
    <3>. QED
      BY <3>2 DEF TrimLeading
  <2>3. CASE Len(rel) # 0
    <3>1. 1 \in I
      BY <1>1, <2>3 DEF IsSep
    <3>2. Min(I) = 1
      <4>1. \A i \in I : 1 <= i /\ i \in Int
        OBVIOUS
      <4>2. \A i \in I : i <= 1 => i = 1
        BY <4>1
      <4>. HIDE DEF I
      <4>. QED
        BY <3>1, <4>1, <4>2 DEF Min
    <3>3. k = 1
      BY <2>1, <3>1, <3>2
    <3>4. TrimLeading(rel) = IF k = 0 THEN <<>> ELSE SubSeq(rel, k, Len(rel))
      BY DEF TrimLeading
    <3>. HIDE DEF k
    <3>. QED
      BY <3>3, <3>4, SubSeqFull
  <2>. QED
    BY <2>2, <2>3
<1>3. NormalizeSeparators(rel) = rel
  <2>1. NormalizeSeparators(rel) = [i \in 1..Len(rel) |-> IF rel[i] \in Seps THEN Sep ELSE rel[i]]
    BY NormalizeIs
  <2>2. \A i \in 1..Len(rel) : rel[i] \in Seps => rel[i] = Sep
    OBVIOUS
  <2>3. NormalizeSeparators(rel) = [i \in 1..Len(rel) |-> rel[i]]
    BY <2>1, <2>2
  <2>. QED
    BY <2>3
<1>. QED
  BY <1>2, <1>3

(* The spelled name of a share, and of what is below it. *)
LEMMA SpelledIs ==
  ASSUME NEW n \in Seq(Component), Len(n) >= 2
  PROVE  /\ n[1] \in Component /\ n[2] \in Component /\ Root(n[1], n[2]) \in Path
         /\ Len(n) = 2 => Spelled(n) = Root(n[1], n[2])
         /\ Len(n) > 2 => Spelled(n) = Root(n[1], n[2]) \o (<<Sep>> \o Join(From(n, 3), Sep))
<1>0. Len(n) >= 2 /\ \A k \in Nat : k >= 2 => (k = 2 <=> ~(k > 2))
  OBVIOUS
<1>1. Len(n) \in Nat /\ 1 \in 1..Len(n) /\ 2 \in 1..Len(n) /\ 2 \in 1..(Len(n) + 1) /\ 3 \in 1..(Len(n) + 1)
  OBVIOUS
<1>2. n[1] \in Component /\ n[2] \in Component
  BY <1>1, ElementOfSeq
<1>3. n \in Seq(Path)
  <2>1. Component \subseteq Path
    BY ComponentFacts
  <2>. QED
    BY <2>1, SeqMonotonic
<1>. DEFINE a == <<Sep, Sep>>
            b == <<Sep>>
            x == n[1]
            y == n[2]
            m == From(n, 2)
            z == Join(From(n, 3), Sep)
<1>4. x \in Path /\ y \in Path /\ a \in Path /\ b \in Path
  BY <1>2, ComponentFacts, SepFacts
<1>5. Root(x, y) \in Path /\ Root(x, y) = a \o (x \o (b \o y))
  BY <1>4, RootIs
<1>6. /\ m \in Seq(Path) /\ Len(m) = Len(n) - 2 + 1
      /\ \A k \in 1..(Len(n) - 2 + 1) : m[k] = n[2 + k - 1]
  BY <1>1, <1>3, FromIs
<1>7. 1 \in 1..(Len(n) - 2 + 1) /\ 2 + 1 - 1 = 2 /\ Len(n) - 2 + 1 = Len(n) - 1
  BY <1>1
<1>8. m[1] = y /\ Len(m) = Len(n) - 1
  BY <1>6, <1>7
<1>9. Spelled(n) = a \o (x \o (b \o Join(m, Sep)))
  <2>1. Join(n, Sep) = n[1] \o (<<Sep>> \o Join(From(n, 2), Sep))
    BY <1>3, SepFacts, JoinNext
  <2>. QED
    BY <2>1 DEF Spelled
<1>10. ASSUME Len(n) = 2 PROVE Join(m, Sep) = y
  <2>1. Len(m) = 1
    BY <1>8, <1>10
  <2>. HIDE DEF m, y
  <2>2. Join(m, Sep) = m[1]
    BY <1>6, <2>1, SepFacts, JoinOne
  <2>. QED
    BY <1>8, <2>2
<1>11. ASSUME Len(n) > 2
       PROVE  Join(m, Sep) = y \o (b \o z) /\ z \in Path
  <2>1. Len(m) >= 2
    BY <1>1, <1>8, <1>11
  <2>2. From(m, 1 + 1) = From(n, 2 + 1)
    <3>1. 2 + 1 <= Len(n) + 1 /\ 1 \in Nat
      BY <1>1, <1>11
    <3>. QED
      BY <1>1, <1>3, <3>1, FromFrom
  <2>3. From(m, 2) = From(n, 3)
    <3>1. 1 + 1 = 2 /\ 2 + 1 = 3
      OBVIOUS
    <3>. HIDE DEF m
    <3>. QED
      BY <2>2, <3>1
  <2>4. From(n, 3) \in Seq(Path)
    BY <1>1, <1>3, FromIs
  <2>5. z \in Path
    BY <2>4, SepFacts, JoinType DEF Path
  <2>. HIDE DEF m, y
  <2>6. Join(m, Sep) = m[1] \o (<<Sep>> \o Join(From(m, 2), Sep))
    BY <1>6, <2>1, SepFacts, JoinNext
  <2>. QED
    BY <1>8, <2>3, <2>5, <2>6
<1>. HIDE DEF a, b, x, y, m, z
<1>12. CASE Len(n) = 2
  <2>1. Spelled(n) = Root(x, y) /\ ~(Len(n) > 2)
    BY <1>5, <1>9, <1>10, <1>12
  <2>. QED
    BY <1>2, <1>5, <2>1 DEF x, y
<1>13. CASE Len(n) > 2
  <2>. DEFINE t == b \o z
  <2>1. Spelled(n) = a \o (x \o (b \o (y \o t)))
    BY <1>9, <1>11, <1>13
  <2>2. t \in Path /\ z \in Path
    BY <1>4, <1>11, <1>13, PathConcat
  <2>. HIDE DEF t
  <2>. DEFINE by == b \o y
  <2>3. by \in Path /\ b \o (y \o t) = by \o t
    BY <1>4, <2>2, PathConcat, PathAssociative
  <2>. HIDE DEF by
  <2>. DEFINE xby == x \o by
  <2>4. xby \in Path /\ x \o (by \o t) = xby \o t
    <3>0. x \in Path /\ by \in Path /\ t \in Path
      BY <1>4, <2>2, <2>3
    <3>1. xby \in Path
      BY <3>0, PathConcat
    <3>2. (x \o by) \o t = x \o (by \o t)
      BY <3>0, PathAssociative
    <3>. QED
      BY <3>1, <3>2
  <2>. HIDE DEF xby
  <2>5. a \o (xby \o t) = (a \o xby) \o t
    BY <1>4, <2>2, <2>4, PathAssociative
  <2>6. Spelled(n) = (a \o xby) \o t /\ Root(x, y) = a \o xby
    BY <1>5, <2>1, <2>3, <2>4, <2>5 DEF xby, by
  <2>7. Spelled(n) = Root(x, y) \o t
    BY <2>6
  <2>8. Len(n) # 2
    BY ONLY <1>1, <1>0, <1>13
  <2>. QED
    BY <1>2, <1>5, <2>7, <2>8 DEF x, y, t, b, z
<1>14. Len(n) = 2 \/ Len(n) > 2
  BY ONLY <1>1, <1>0
<1>. QED
  BY <1>12, <1>13, <1>14

LEMMA PrefixIs ==
  ASSUME NEW s \in Path, Len(s) >= 2, s[1] = Sep, s[2] = Sep
  PROVE  IsPrefix(<<Sep, Sep>>, s)
<1>. DEFINE a == <<Sep, Sep>>
            t == SubSeq(s, 1, 2)
            u == SubSeq(a, 1, 2)
<1>1. /\ s \in Seq(Char) /\ Len(s) \in Nat /\ a \in Seq(Char) /\ Len(a) = 2 /\ a[1] = Sep /\ a[2] = Sep
      /\ Sep \in Char
  BY SepFacts DEF Path
<1>2. 1 \in Int /\ 2 \in Int /\ \A i \in 1..2 : i = 1 \/ i = 2
  OBVIOUS
<1>. HIDE DEF a
<1>3. /\ t \in Seq(Char) /\ Len(t) = 2 /\ \A i \in 1..2 : t[i] = s[i]
  <2>1. \A i \in 1..2 : s[i] \in Char
    BY <1>1, <1>2
  <2>2. /\ t \in Seq(Char) /\ Len(t) = IF 1 <= 2 THEN 2 - 1 + 1 ELSE 0
        /\ \A i \in 1..(2 - 1 + 1) : t[i] = s[1 + i - 1]
    BY ONLY <1>2, <2>1, SubSeqProperties
  <2>. HIDE DEF t
  <2>. QED
    BY <2>2
<1>4. u = a
  BY <1>1, SubSeqFull
<1>. HIDE DEF t, u
<1>5. \A i \in 1..2 : t[i] = a[i]
  BY <1>1, <1>2, <1>3
<1>6. t = a
  BY <1>1, <1>3, <1>5, SeqEqual
<1>. QED
  BY <1>1, <1>4, <1>6 DEF IsPrefix, a, t, u

(* A source \\server\share begins like a UNC path, and joining to it puts a *)
(* stored path after the share.                                            *)
LEMMA ShareIs ==
  ASSUME NEW source \in Path, IsShare(source)
  PROVE  LET c == Components(source)
         IN  /\ c \in Seq(Component) /\ Len(c) = 2
             /\ c[1] \in Component /\ c[2] \in Component /\ Root(c[1], c[2]) \in Path
             /\ IsPrefix(<<Sep, Sep>>, NormalizeSeparators(source))
             /\ \A rel : rel # <<>> /\ NormalizeSeparators(TrimLeading(rel)) = rel =>
                  JoinRootRelative(source, rel) = (Root(c[1], c[2]) \o <<Sep>>) \o rel
<1>. DEFINE c == Components(source)
            end == SelectLastInSeq(source, LAMBDA a : ~IsSep(a))
            sub == SubSeq(source, 1, end)
            top == NormalizeSeparators(sub)
            root == Root(c[1], c[2])
            norm == NormalizeSeparators(source)
<1>1. c \in Seq(Component) /\ Len(c) = 2
  BY ComponentsPlain DEF IsShare
<1>2. c[1] \in Component /\ c[2] \in Component /\ root \in Path /\ Spelled(c) = root
  <2>1. Len(c) >= 2
    BY <1>1
  <2>. HIDE DEF c
  <2>. QED
    BY <1>1, <2>1, SpelledIs
<1>3. JoinRootRelative(source, <<>>) = root
  BY <1>2 DEF IsShare
<1>4. \A rel : NormalizeSeparators(TrimLeading(rel)) = rel =>
        JoinRootRelative(source, rel) = IF rel = <<>> THEN top ELSE (top \o <<Sep>>) \o rel
  <2>. SUFFICES ASSUME NEW rel, NormalizeSeparators(TrimLeading(rel)) = rel
                PROVE  JoinRootRelative(source, rel) = IF rel = <<>> THEN top ELSE (top \o <<Sep>>) \o rel
    OBVIOUS
  <2>1. JoinRootRelative(source, rel) =
          LET rest == NormalizeSeparators(TrimLeading(rel))
          IN  IF rest = <<>> THEN top ELSE (top \o <<Sep>>) \o rest
    BY DEF JoinRootRelative
  <2>. HIDE DEF top
  <2>. QED
    BY <2>1
<1>5. top = root
  <2>1. <<>> \in Seq(Char \ (Seps \ {Sep})) /\ Len(<<>>) = 0
    BY EmptySeq
  <2>2. NormalizeSeparators(TrimLeading(<<>>)) = <<>>
    BY <2>1, NormalKept
  <2>. HIDE DEF top, root
  <2>. QED
    BY <1>3, <1>4, <2>2
<1>6. Len(root) \in Nat /\ Len(root) >= 2 /\ root[1] = Sep /\ root[2] = Sep
  <2>. DEFINE x == c[1]
              y == c[2]
              a == <<Sep, Sep>>
              b == <<Sep>>
  <2>1. x \in Path /\ y \in Path /\ a \in Path /\ b \in Path /\ Len(a) = 2 /\ a[1] = Sep /\ a[2] = Sep
    <3>. HIDE DEF c
    <3>. QED
      BY <1>2, ComponentFacts, SepFacts
  <2>2. root = a \o (x \o (b \o y))
    <3>. HIDE DEF c, root
    <3>1. Root(x, y) = <<Sep, Sep>> \o (x \o (<<Sep>> \o y))
      BY <2>1, RootIs
    <3>. QED
      BY <3>1 DEF root
  <2>. HIDE DEF a, b, x, y, root
  <2>3. b \o y \in Path
    BY <2>1, PathConcat
  <2>4. x \o (b \o y) \in Path
    BY <2>1, <2>3, PathConcat
  <2>. DEFINE t == x \o (b \o y)
  <2>. HIDE DEF t
  <2>5. /\ Len(a \o t) = Len(a) + Len(t) /\ Len(t) \in Nat
        /\ \A i \in 1..Len(a) : (a \o t)[i] = a[i]
    BY <2>1, <2>4, PathConcat DEF t
  <2>6. 1 \in 1..Len(a) /\ 2 \in 1..Len(a) /\ root = a \o t
    BY <2>1, <2>2 DEF t
  <2>. QED
    BY <2>1, <2>5, <2>6
<1>. HIDE DEF root, c
<1>7. /\ source \in Seq(Char) /\ Len(source) \in Nat /\ end \in 0..Len(source)
  <2>. DEFINE I == {i \in 1..Len(source) : ~IsSep(source[i])}
  <2>1. source \in Seq(Char) /\ Len(source) \in Nat
    BY DEF Path
  <2>2. end = IF I # {} THEN Max(I) ELSE 0
    BY DEF SelectLastInSeq
  <2>3. I \in SUBSET (0..Len(source))
    OBVIOUS
  <2>. HIDE DEF I, end
  <2>4. I # {} => \E i \in I : \A j \in I : i >= j
    BY <2>1, <2>3, Greatest
  <2>5. I # {} => Max(I) \in I
    BY <2>4 DEF Max
  <2>6. (I # {} => Max(I) \in 0..Len(source)) /\ 0 \in 0..Len(source)
    <3>1. 0 \in 0..Len(source)
      BY <2>1
    <3>. QED
      BY <2>3, <2>5, <3>1, Zenon
  <2>7. end \in 0..Len(source)
    BY <2>2, <2>6, Zenon
  <2>. QED
    BY <2>1, <2>7
<1>. HIDE DEF end
<1>8. /\ sub \in Seq(Char) /\ Len(sub) = end /\ \A i \in 1..end : sub[i] = source[i]
  <2>1. 1 \in Int /\ end \in Int /\ \A i \in 1..end : source[i] \in Char
    BY <1>7
  <2>2. /\ sub \in Seq(Char) /\ Len(sub) = IF 1 <= end THEN end - 1 + 1 ELSE 0
        /\ \A i \in 1..(end - 1 + 1) : sub[i] = source[1 + i - 1]
    BY ONLY <2>1, SubSeqProperties
  <2>. HIDE DEF sub
  <2>3. end \in Nat /\ end - 1 + 1 = end /\ (~(1 <= end) => end = 0) /\ \A i \in 1..end : 1 + i - 1 = i
    BY <1>7
  <2>. QED
    BY <2>2, <2>3
<1>. HIDE DEF sub
<1>9. /\ top = [i \in 1..end |-> IF sub[i] \in Seps THEN Sep ELSE sub[i]] /\ Len(top) = end
  <2>1. top = [i \in 1..Len(sub) |-> IF sub[i] \in Seps THEN Sep ELSE sub[i]]
    BY <1>8, NormalizeIs
  <2>2. end \in Nat
    BY <1>7
  <2>. HIDE DEF top
  <2>. QED
    BY <1>8, <2>1, <2>2
<1>. HIDE DEF top
<1>10. source[1] \in Seps /\ source[2] \in Seps /\ Len(source) >= 2
  <2>1. 1 \in 1..end /\ 2 \in 1..end /\ Len(source) >= 2
    BY <1>5, <1>6, <1>7, <1>9
  <2>2. /\ Sep = IF source[1] \in Seps THEN Sep ELSE source[1]
        /\ Sep = IF source[2] \in Seps THEN Sep ELSE source[2]
    BY <1>5, <1>6, <1>8, <1>9, <2>1
  <2>. QED
    BY <2>1, <2>2, SepFacts
<1>11. IsPrefix(<<Sep, Sep>>, norm)
  <2>1. norm = [i \in 1..Len(source) |-> IF source[i] \in Seps THEN Sep ELSE source[i]]
    BY <1>7, NormalizeIs
  <2>2. 1 \in 1..Len(source) /\ 2 \in 1..Len(source)
    BY <1>7, <1>10
  <2>3. norm \in Path /\ Len(norm) = Len(source)
    <3>. DEFINE e(i) == IF source[i] \in Seps THEN Sep ELSE source[i]
    <3>1. \A i \in 1..Len(source) : e(i) \in Char
      BY <1>7, SepFacts
    <3>. HIDE DEF e
    <3>2. [i \in 1..Len(source) |-> e(i)] \in Seq(Char)
      BY <1>7, <3>1, IsASeq
    <3>. HIDE DEF norm
    <3>3. norm = [i \in 1..Len(source) |-> e(i)]
      BY <2>1 DEF e
    <3>. QED
      BY <1>7, <3>2, <3>3 DEF Path
  <2>4. norm[1] = Sep /\ norm[2] = Sep
    BY <1>10, <2>1, <2>2
  <2>. HIDE DEF norm
  <2>. QED
    BY <1>10, <2>3, <2>4, PrefixIs
<1>12. \A rel : rel # <<>> /\ NormalizeSeparators(TrimLeading(rel)) = rel =>
         JoinRootRelative(source, rel) = (root \o <<Sep>>) \o rel
  BY <1>4, <1>5
<1>. QED
  BY <1>1, <1>2, <1>11, <1>12 DEF c, root, norm

(* What the driver's path maps to, before it is compared with the source.  *)
Seen(observed) ==
  IF ParseUnc(observed) = None THEN ParseDevice(observed) ELSE ParseUnc(observed)

LEMMA IdentityIs ==
  ASSUME NEW x \in Component, NEW y \in Component, NEW rest \in Seq(Component)
  PROVE  /\ Identity(x, y, rest) = [root |-> LowerCopy(Root(x, y)), relative |-> Join(rest, Sep)]
         /\ Identity(x, y, rest) # None
<1>1. Identity(x, y, rest) = [root |-> LowerCopy(Root(x, y)), relative |-> Join(rest, Sep)]
  BY DEF Identity, Root
<1>2. LowerCopy(Root(x, y)) \in Seq(Char)
  <2>1. Root(x, y) \in Path
    BY ComponentFacts, RootIs
  <2>. QED
    BY <2>1, LowerCopyType DEF Path
<1>3. Join(rest, Sep) \in Seq(Char)
  <2>1. Component \subseteq Seq(Char)
    BY ComponentFacts DEF Path
  <2>2. rest \in Seq(Seq(Char))
    BY <2>1, SeqMonotonic
  <2>. QED
    BY <2>2, SepFacts, JoinType
<1>. QED
  BY <1>1, <1>2, <1>3, NoneAssumption

(* It is known by its names: server, share and what is below. *)
LEMMA SeenIs ==
  ASSUME NEW observed \in Path
  PROVE  /\ Names(observed) \in Seq(Component) /\ Len(Names(observed)) \in Nat
         /\ Len(Names(observed)) >= 2 =>
              /\ Seen(observed) = Identity(Names(observed)[1], Names(observed)[2], From(Names(observed), 3))
              /\ Seen(observed) # None
         /\ ~(Len(Names(observed)) >= 2) => Seen(observed) = None
<1>. DEFINE names == Components(observed)
            n == Names(observed)
            s == IF Head(names[3]) = ";" THEN 4 ELSE 3
<1>1. names \in Seq(Component) /\ Len(names) \in Nat
  BY ComponentsPlain
<1>2. s \in {3, 4} /\ ServerIndex(names) = s
  BY DEF ServerIndex
<1>3. CASE IsPrefix(<<Sep, Sep>>, NormalizeSeparators(observed))
  <2>1. n = names
    BY <1>3 DEF Names
  <2>2. ParseUnc(observed) = IF Len(names) >= 2 THEN Identity(names[1], names[2], From(names, 3)) ELSE None
    BY <1>3 DEF ParseUnc
  <2>3. ParseDevice(observed) = None \/ Len(names) >= 4
    BY DEF ParseDevice
  <2>. HIDE DEF n, names, s
  <2>4. CASE Len(names) >= 2
    <3>1. 1 \in 1..Len(names) /\ 2 \in 1..Len(names) /\ 3 \in 1..(Len(names) + 1)
      BY <1>1, <2>4
    <3>2. names[1] \in Component /\ names[2] \in Component /\ From(names, 3) \in Seq(Component)
      BY <1>1, <3>1, ElementOfSeq, FromIs
    <3>3. Identity(names[1], names[2], From(names, 3)) # None
      BY <3>2, IdentityIs
    <3>4. Seen(observed) = Identity(names[1], names[2], From(names, 3))
      BY <2>2, <2>4, <3>3 DEF Seen
    <3>. QED
      BY <1>1, <2>1, <2>4, <3>3, <3>4 DEF n
  <2>5. CASE ~(Len(names) >= 2)
    <3>1. ~(Len(names) >= 4)
      BY <1>1, <2>5
    <3>2. Seen(observed) = None
      BY <2>2, <2>3, <2>5, <3>1 DEF Seen
    <3>. QED
      BY <1>1, <2>1, <2>5, <3>2 DEF n
  <2>. QED
    BY <2>4, <2>5
<1>4. CASE ~IsPrefix(<<Sep, Sep>>, NormalizeSeparators(observed))
  <2>1. n = IF ~Remote(names) THEN <<>> ELSE From(names, s)
    BY <1>4 DEF Names
  <2>2. Seen(observed) = ParseDevice(observed)
    BY <1>4 DEF Seen, ParseUnc
  <2>3. ParseDevice(observed) =
          IF /\ Len(names) >= 4
             /\ EqualIgnoreCase(names[1], <<"Device">>)
             /\ \E r \in Redirectors : EqualIgnoreCase(names[2], r)
             /\ Len(names) >= s + 1
          THEN Identity(names[s], names[s + 1], From(names, s + 2))
          ELSE None
    BY <1>2 DEF ParseDevice
  <2>4. Remote(names) <=>
          /\ Len(names) > 2
          /\ EqualIgnoreCase(names[1], <<"Device">>)
          /\ \E r \in Redirectors : EqualIgnoreCase(names[2], r)
    BY DEF Remote
  <2>. HIDE DEF n, names, s
  <2>5. Len(names) >= s + 1 => Len(names) >= 4 /\ Len(names) > 2
    BY <1>1, <1>2
  <2>6. ParseDevice(observed) =
          IF Remote(names) /\ Len(names) >= s + 1
          THEN Identity(names[s], names[s + 1], From(names, s + 2))
          ELSE None
    BY <2>3, <2>4, <2>5
  <2>7. CASE ~Remote(names)
    <3>1. n = <<>> /\ Seen(observed) = None
      BY <2>1, <2>2, <2>6, <2>7
    <3>2. <<>> \in Seq(Component) /\ Len(<<>>) = 0 /\ ~(0 >= 2)
      BY EmptySeq
    <3>. QED
      BY <3>1, <3>2 DEF n
  <2>8. CASE Remote(names)
    <3>1. s \in 1..(Len(names) + 1)
      BY <1>1, <1>2, <2>4, <2>8
    <3>2. /\ n \in Seq(Component) /\ Len(n) = Len(names) - s + 1
          /\ \A k \in 1..(Len(names) - s + 1) : n[k] = names[s + k - 1]
      <4>1. n = From(names, s)
        BY <2>1, <2>8
      <4>. QED
        BY <1>1, <3>1, <4>1, FromIs
    <3>3. Len(n) \in Nat /\ (Len(n) >= 2 <=> Len(names) >= s + 1)
      BY <1>1, <3>1, <3>2
    <3>4. CASE Len(n) >= 2
      <4>1. /\ 1 \in 1..(Len(names) - s + 1) /\ 2 \in 1..(Len(names) - s + 1)
            /\ s + 1 - 1 = s /\ s + 2 - 1 = s + 1
            /\ 1 \in 1..Len(n) /\ 2 \in 1..Len(n) /\ 3 \in 1..(Len(n) + 1)
            /\ s + 2 <= Len(names) + 1 /\ 2 \in Nat /\ 2 + 1 = 3
        BY <1>1, <1>2, <3>1, <3>2, <3>3, <3>4
      <4>2. n[1] = names[s] /\ n[2] = names[s + 1]
        BY <3>2, <4>1
      <4>3. From(n, 3) = From(names, s + 2)
        <5>1. From(From(names, s), 2 + 1) = From(names, s + 2)
          BY <1>1, <3>1, <4>1, FromFrom
        <5>. QED
          BY <2>1, <2>8, <4>1, <5>1
      <4>4. n[1] \in Component /\ n[2] \in Component /\ From(n, 3) \in Seq(Component)
        BY <3>2, <4>1, ElementOfSeq, FromIs
      <4>5. Identity(n[1], n[2], From(n, 3)) # None
        BY <4>4, IdentityIs
      <4>6. Seen(observed) = Identity(n[1], n[2], From(n, 3))
        BY <2>2, <2>6, <2>8, <3>3, <3>4, <4>2, <4>3
      <4>. QED
        BY <3>2, <3>3, <3>4, <4>5, <4>6 DEF n
    <3>5. CASE ~(Len(n) >= 2)
      <4>1. Seen(observed) = None
        BY <2>2, <2>6, <3>3, <3>5
      <4>. QED
        BY <3>2, <3>3, <3>5, <4>1 DEF n
    <3>. QED
      BY <3>4, <3>5
  <2>. QED
    BY <2>7, <2>8
<1>. QED
  BY <1>3, <1>4

(* The names are those of a file of the share. *)
OfShare(source, observed) ==
  /\ Len(Names(observed)) >= 2
  /\ \A i \in 1..2 : EqualIgnoreCase(Names(observed)[i], Components(source)[i])

LEMMA MapsShare ==
  ASSUME NEW source \in Path, IsShare(source), NEW observed \in Path
  PROVE  /\ MapObserved(source, observed) # None <=> OfShare(source, observed)
         /\ OfShare(source, observed) =>
              MapObserved(source, observed).relative = Join(From(Names(observed), 3), Sep)
<1>. DEFINE c == Components(source)
            n == Names(observed)
            share == ParseUnc(source)
            seen == Seen(observed)
<1>1. /\ c \in Seq(Component) /\ Len(c) = 2 /\ c[1] \in Component /\ c[2] \in Component
      /\ IsPrefix(<<Sep, Sep>>, NormalizeSeparators(source))
  BY ShareIs
<1>2. share = Identity(c[1], c[2], From(c, 3))
  <2>1. Len(c) >= 2
    BY <1>1
  <2>. QED
    BY <1>1, <2>1 DEF ParseUnc
<1>. HIDE DEF c
<1>3. share.root = LowerCopy(Root(c[1], c[2])) /\ share # None
  <2>1. 3 \in 1..(Len(c) + 1)
    BY <1>1
  <2>2. From(c, 3) \in Seq(Component)
    BY <1>1, <2>1, FromIs
  <2>. HIDE DEF share
  <2>. QED
    BY <1>1, <1>2, <2>2, IdentityIs
<1>4. /\ n \in Seq(Component) /\ Len(n) \in Nat
      /\ Len(n) >= 2 => seen = Identity(n[1], n[2], From(n, 3)) /\ seen # None
      /\ ~(Len(n) >= 2) => seen = None
  BY SeenIs
<1>5. MapObserved(source, observed) =
        IF share = None \/ seen = None THEN None
        ELSE IF EqualIgnoreCase(seen.root, share.root) THEN seen ELSE None
  BY DEF MapObserved, Seen
<1>6. OfShare(source, observed) <=>
        Len(n) >= 2 /\ EqualIgnoreCase(n[1], c[1]) /\ EqualIgnoreCase(n[2], c[2])
  <2>1. \A i : i \in 1..2 <=> i = 1 \/ i = 2
    OBVIOUS
  <2>2. OfShare(source, observed) <=> Len(n) >= 2 /\ \A i \in 1..2 : EqualIgnoreCase(n[i], c[i])
    BY DEF OfShare, c
  <2>. HIDE DEF n
  <2>. QED
    BY <2>1, <2>2
<1>. HIDE DEF n, share, seen
<1>7. CASE ~(Len(n) >= 2)
  BY <1>4, <1>5, <1>6, <1>7
<1>8. CASE Len(n) >= 2
  <2>1. 1 \in 1..Len(n) /\ 2 \in 1..Len(n) /\ 3 \in 1..(Len(n) + 1)
    BY <1>4, <1>8
  <2>2. n[1] \in Component /\ n[2] \in Component /\ From(n, 3) \in Seq(Component)
    BY <1>4, <2>1, ElementOfSeq, FromIs
  <2>3. /\ seen = [root |-> LowerCopy(Root(n[1], n[2])), relative |-> Join(From(n, 3), Sep)]
        /\ seen # None
    BY <1>4, <1>8, <2>2, IdentityIs
  <2>4. seen.root = LowerCopy(Root(n[1], n[2])) /\ seen.relative = Join(From(n, 3), Sep)
    BY <2>3
  <2>5. EqualIgnoreCase(seen.root, share.root) <=> EqualIgnoreCase(n[1], c[1]) /\ EqualIgnoreCase(n[2], c[2])
    <3>. DEFINE r == Root(n[1], n[2])
                q == Root(c[1], c[2])
    <3>1. r \in Path /\ q \in Path
      BY <1>1, <2>2, ComponentFacts, RootIs
    <3>2. /\ n[1] \in Seq(Plainly) /\ n[2] \in Seq(Plainly)
          /\ c[1] \in Seq(Plainly) /\ c[2] \in Seq(Plainly)
      BY <1>1, <2>2, ComponentFacts
    <3>3. LowerCopy(r) = LowerCopy(q) <=> EqualIgnoreCase(n[1], c[1]) /\ EqualIgnoreCase(n[2], c[2])
      BY <3>2, RootsAgree
    <3>. HIDE DEF r, q
    <3>4. LowerCopy(LowerCopy(r)) = LowerCopy(r) /\ LowerCopy(LowerCopy(q)) = LowerCopy(q)
      BY <3>1, LowerTwice
    <3>5. EqualIgnoreCase(seen.root, share.root) <=> LowerCopy(r) = LowerCopy(q)
      <4>1. seen.root = LowerCopy(r) /\ share.root = LowerCopy(q)
        BY <1>3, <2>4 DEF r, q
      <4>. QED
        BY <3>4, <4>1 DEF EqualIgnoreCase
    <3>. QED
      BY <3>3, <3>5
  <2>6. EqualIgnoreCase(n[1], c[1]) /\ EqualIgnoreCase(n[2], c[2]) <=> OfShare(source, observed)
    BY <1>6, <1>8
  <2>7. MapObserved(source, observed) = IF OfShare(source, observed) THEN seen ELSE None
    BY <1>3, <1>5, <2>3, <2>5, <2>6
  <2>. QED
    BY <2>3, <2>4, <2>7 DEF n
<1>. QED
  BY <1>7, <1>8

(* Joined to the source, the relative path names the file again. *)
LEMMA JoinsBack ==
  ASSUME NEW source \in Path, IsShare(source), NEW observed \in Path,
         OfShare(source, observed), Len(Names(observed)) > 2
  PROVE  EqualIgnoreCase(JoinRootRelative(source, Join(From(Names(observed), 3), Sep)),
                         Spelled(Names(observed)))
<1>. DEFINE c == Components(source)
            n == Names(observed)
            r == Root(n[1], n[2])
            q == Root(c[1], c[2])
            b == <<Sep>>
            rel == Join(From(n, 3), Sep)
<1>1. /\ c[1] \in Component /\ c[2] \in Component /\ q \in Path
      /\ \A p : p # <<>> /\ NormalizeSeparators(TrimLeading(p)) = p =>
           JoinRootRelative(source, p) = (q \o <<Sep>>) \o p
  BY ShareIs
<1>2. n \in Seq(Component) /\ Len(n) \in Nat /\ Len(n) > 2
  BY SeenIs
<1>3. EqualIgnoreCase(n[1], c[1]) /\ EqualIgnoreCase(n[2], c[2])
  BY DEF OfShare
<1>. HIDE DEF n, c
<1>4. /\ n[1] \in Component /\ n[2] \in Component /\ r \in Path
      /\ Spelled(n) = r \o (b \o rel)
  <2>1. Len(n) >= 2
    BY <1>2
  <2>. QED
    BY <1>2, <2>1, SpelledIs
<1>5. /\ rel \in Seq(Char \ (Seps \ {Sep})) /\ rel \in Path
      /\ Len(rel) \in Nat \ {0} /\ rel[1] \notin Seps
  <2>. DEFINE m == From(n, 3)
  <2>1. 3 \in 1..(Len(n) + 1)
    BY <1>2
  <2>2. m \in Seq(Component) /\ Len(m) = Len(n) - 3 + 1
    BY <1>2, <2>1, FromIs
  <2>. HIDE DEF m
  <2>3. Len(m) # 0 /\ Len(<<>>) = 0
    <3>1. \A k \in Nat : k > 2 => k - 3 + 1 # 0
      OBVIOUS
    <3>. QED
      BY ONLY <1>2, <2>2, <3>1
  <2>4. m # <<>>
    BY <2>3
  <2>5. /\ Join(m, Sep) \in Seq(Char \ (Seps \ {Sep})) /\ Join(m, Sep) \in Path
        /\ Len(Join(m, Sep)) \in Nat \ {0} /\ Join(m, Sep)[1] \notin Seps
    BY <2>2, <2>4, JoinShape
  <2>. QED
    BY <2>5 DEF m
<1>6. b \in Path
  BY SepFacts
<1>7. LowerCopy(r) = LowerCopy(q)
  <2>1. /\ n[1] \in Seq(Plainly) /\ n[2] \in Seq(Plainly)
        /\ c[1] \in Seq(Plainly) /\ c[2] \in Seq(Plainly)
    BY <1>1, <1>4, ComponentFacts
  <2>. QED
    BY <1>3, <2>1, RootsAgree
<1>. HIDE DEF r, q, rel
<1>8. NormalizeSeparators(TrimLeading(rel)) = rel /\ rel # <<>>
  <2>1. Len(<<>>) = 0
    OBVIOUS
  <2>. QED
    BY <1>5, <2>1, NormalKept
<1>9. JoinRootRelative(source, rel) = (q \o b) \o rel
  BY <1>1, <1>8
<1>. HIDE DEF b
<1>10. (q \o b) \o rel = q \o (b \o rel) /\ b \o rel \in Path
  <2>1. q \in Path /\ b \in Path /\ rel \in Path
    BY <1>1, <1>5, <1>6
  <2>2. b \o rel \in Path
    BY <2>1, PathConcat
  <2>3. (q \o b) \o rel = q \o (b \o rel)
    BY <2>1, PathAssociative
  <2>. QED
    BY <2>2, <2>3
<1>. DEFINE t == b \o rel
<1>. HIDE DEF t
<1>11. /\ LowerCopy(q \o t) = LowerCopy(q) \o LowerCopy(t)
       /\ LowerCopy(r \o t) = LowerCopy(r) \o LowerCopy(t)
  <2>1. t \in Path
    BY <1>10 DEF t
  <2>. QED
    BY <1>1, <1>4, <2>1, LowerConcat
<1>12. JoinRootRelative(source, rel) = q \o t /\ Spelled(n) = r \o t
  BY <1>4, <1>9, <1>10 DEF t
<1>13. LowerCopy(JoinRootRelative(source, rel)) = LowerCopy(Spelled(n))
  BY <1>7, <1>11, <1>12
<1>. QED
  BY <1>13 DEF EqualIgnoreCase, n, rel

-----------------------------------------------------------------------------
(* The meaning of the rest of a pattern, from its i-th character on, for   *)
(* the rest of a value, from its j-th.                                     *)

Fits(p, i, v, j, at) ==
  /\ at[i] = j /\ at[Len(p) + 1] = Len(v) + 1
  /\ \A k \in i..Len(p) : Takes(p, v, at, k)
Reaches(p, i, v, j) ==
  \E at \in [i..(Len(p) + 1) -> 1..(Len(v) + 1)] : Fits(p, i, v, j, at)

LEMMA MeansIs == ASSUME NEW p, NEW v PROVE Means(p, v) <=> Reaches(p, 1, v, 1)
BY DEF Means, Reaches, Fits

(* Nothing is left of the pattern. *)
LEMMA ReachesEnd ==
  ASSUME NEW p \in Path, NEW v \in Path, NEW j \in 1..(Len(v) + 1)
  PROVE  Reaches(p, Len(p) + 1, v, j) <=> j = Len(v) + 1
<1>1. Len(p) \in Nat /\ Len(v) \in Nat
  BY DEF Path
<1>2. ASSUME j = Len(v) + 1 PROVE Reaches(p, Len(p) + 1, v, j)
  <2>. DEFINE at == [k \in (Len(p) + 1)..(Len(p) + 1) |-> j]
  <2>1. at \in [(Len(p) + 1)..(Len(p) + 1) -> 1..(Len(v) + 1)]
    OBVIOUS
  <2>2. at[Len(p) + 1] = j
    BY <1>1
  <2>3. (Len(p) + 1)..Len(p) = {}
    BY <1>1
  <2>. HIDE DEF at
  <2>. QED
    BY <1>2, <2>1, <2>2, <2>3 DEF Reaches, Fits
<1>. QED
  BY <1>2 DEF Reaches, Fits

(* What the first character takes, and the rest. *)
LEMMA ReachesNext ==
  ASSUME NEW p \in Path, NEW v \in Path, NEW i \in 1..Len(p), NEW j \in 1..(Len(v) + 1)
  PROVE  Reaches(p, i, v, j) <=>
           \E k \in 1..(Len(v) + 1) :
             /\ IF p[i] = "*" THEN j <= k ELSE k = j + 1 /\ p[i] \in {"?", v[j]}
             /\ Reaches(p, i + 1, v, k)
<1>1. Len(p) \in Nat /\ Len(v) \in Nat /\ i \in Nat /\ i <= Len(p)
  BY DEF Path
<1>2. ASSUME NEW at \in [i..(Len(p) + 1) -> 1..(Len(v) + 1)], Fits(p, i, v, j, at)
      PROVE  \E k \in 1..(Len(v) + 1) :
               /\ IF p[i] = "*" THEN j <= k ELSE k = j + 1 /\ p[i] \in {"?", v[j]}
               /\ Reaches(p, i + 1, v, k)
  <2>. DEFINE rest == [k \in (i + 1)..(Len(p) + 1) |-> at[k]]
  <2>1. \A k \in (i + 1)..(Len(p) + 1) : k \in i..(Len(p) + 1)
    BY <1>1
  <2>2. rest \in [(i + 1)..(Len(p) + 1) -> 1..(Len(v) + 1)]
    BY <2>1
  <2>3. i \in i..Len(p) /\ i + 1 \in (i + 1)..(Len(p) + 1) /\ Len(p) + 1 \in (i + 1)..(Len(p) + 1)
    BY <1>1
  <2>4. /\ rest[i + 1] = at[i + 1] /\ rest[Len(p) + 1] = Len(v) + 1
    BY <1>2, <2>3 DEF Fits
  <2>5. ASSUME NEW k \in (i + 1)..Len(p) PROVE Takes(p, v, rest, k)
    <3>1. k \in i..Len(p) /\ rest[k] = at[k] /\ rest[k + 1] = at[k + 1]
      BY <1>1, <2>5
    <3>2. Takes(p, v, at, k)
      BY <1>2, <3>1 DEF Fits
    <3>. HIDE DEF rest
    <3>. QED
      BY <3>1, <3>2 DEF Takes
  <2>. HIDE DEF rest
  <2>6. Reaches(p, i + 1, v, at[i + 1])
    BY <2>2, <2>4, <2>5 DEF Reaches, Fits
  <2>7. Takes(p, v, at, i) /\ at[i] = j
    BY <1>2, <2>3 DEF Fits
  <2>8. at[i + 1] \in 1..(Len(v) + 1)
    BY <2>1, <2>3
  <2>. QED
    BY <2>6, <2>7, <2>8 DEF Takes
<1>3. ASSUME NEW k \in 1..(Len(v) + 1),
             IF p[i] = "*" THEN j <= k ELSE k = j + 1 /\ p[i] \in {"?", v[j]},
             Reaches(p, i + 1, v, k)
      PROVE  Reaches(p, i, v, j)
  <2>1. PICK rest \in [(i + 1)..(Len(p) + 1) -> 1..(Len(v) + 1)] : Fits(p, i + 1, v, k, rest)
    BY <1>3 DEF Reaches
  <2>. DEFINE at == [l \in i..(Len(p) + 1) |-> IF l = i THEN j ELSE rest[l]]
  <2>2. \A l \in i..(Len(p) + 1) : l # i => l \in (i + 1)..(Len(p) + 1)
    BY <1>1
  <2>3. at \in [i..(Len(p) + 1) -> 1..(Len(v) + 1)]
    BY <2>2
  <2>4. at[i] = j /\ at[i + 1] = k /\ at[Len(p) + 1] = Len(v) + 1
    BY <1>1, <2>1 DEF Fits
  <2>5. ASSUME NEW l \in i..Len(p) PROVE Takes(p, v, at, l)
    <3>1. CASE l = i
      <4>. HIDE DEF at
      <4>. QED
        BY <1>3, <2>4, <3>1 DEF Takes
    <3>2. CASE l # i
      <4>1. l \in (i + 1)..Len(p) /\ at[l] = rest[l] /\ at[l + 1] = rest[l + 1]
        BY <1>1, <3>2
      <4>2. Takes(p, v, rest, l)
        BY <2>1, <4>1 DEF Fits
      <4>. HIDE DEF at
      <4>. QED
        BY <4>1, <4>2 DEF Takes
    <3>. QED
      BY <3>1, <3>2
  <2>. HIDE DEF at
  <2>. QED
    BY <2>3, <2>4, <2>5 DEF Reaches, Fits
<1>. QED
  BY <1>2, <1>3 DEF Reaches

(* A star takes any stretch. *)
LEMMA ReachesStar ==
  ASSUME NEW p \in Path, NEW v \in Path, NEW i \in 1..Len(p), p[i] = "*", NEW j \in 1..(Len(v) + 1)
  PROVE  Reaches(p, i, v, j) <=> \E k \in j..(Len(v) + 1) : Reaches(p, i + 1, v, k)
<1>1. Len(v) \in Nat
  BY DEF Path
<1>2. \A k : k \in j..(Len(v) + 1) <=> k \in 1..(Len(v) + 1) /\ j <= k
  BY <1>1
<1>. QED
  BY <1>2, ReachesNext

(* Any other character takes the one there. *)
LEMMA ReachesOne ==
  ASSUME NEW p \in Path, NEW v \in Path, NEW i \in 1..Len(p), p[i] # "*", NEW j \in 1..(Len(v) + 1)
  PROVE  Reaches(p, i, v, j) <=> j <= Len(v) /\ p[i] \in {"?", v[j]} /\ Reaches(p, i + 1, v, j + 1)
<1>1. Len(v) \in Nat
  BY DEF Path
<1>2. j + 1 \in 1..(Len(v) + 1) <=> j <= Len(v)
  BY <1>1
<1>. QED
  BY <1>2, ReachesNext

(* A stretch of n characters without a star, that fit one by one. *)
Literal(p, i, v, j, n) ==
  \A k \in 0..(n - 1) : p[i + k] # "*" /\ p[i + k] \in {"?", v[j + k]}

LEMMA LiteralMore ==
  ASSUME NEW p, NEW i, NEW v, NEW j, NEW n \in Nat, Literal(p, i, v, j, n),
         p[i + n] # "*", p[i + n] \in {"?", v[j + n]}
  PROVE  Literal(p, i, v, j, n + 1)
<1>1. \A k \in 0..((n + 1) - 1) : k \in 0..(n - 1) \/ k = n
  OBVIOUS
<1>. QED
  BY <1>1 DEF Literal

LEMMA LiteralOut ==
  ASSUME NEW p \in Path, NEW v \in Path, NEW i \in 1..(Len(p) + 1), NEW j \in 1..(Len(v) + 1),
         NEW n \in Nat, i + n <= Len(p) + 1, \A k \in 0..(n - 1) : p[i + k] # "*",
         Reaches(p, i, v, j)
  PROVE  j + n <= Len(v) + 1 /\ Reaches(p, i + n, v, j + n)
<1>. DEFINE Q(m) == j + m <= Len(v) + 1 /\ Reaches(p, i + m, v, j + m)
            B == {m \in 0..n : ~Q(m)}
<1>1. Len(p) \in Nat /\ Len(v) \in Nat
  BY DEF Path
<1>. SUFFICES ASSUME B # {} PROVE FALSE
  <2>1. n \in 0..n
    OBVIOUS
  <2>. QED
    BY <2>1
<1>2. PICK m \in B : \A k \in B : m <= k
  <2>1. B \in SUBSET Nat
    OBVIOUS
  <2>. HIDE DEF B
  <2>. QED
    BY <2>1, Least
<1>3. m # 0
  BY <1>1, <1>2
<1>4. m - 1 \in 0..(n - 1) /\ m - 1 \in 0..n /\ m - 1 \notin B
  <2>1. m \in 1..n
    BY <1>2, <1>3
  <2>2. m - 1 \in 0..(n - 1) /\ m - 1 \in 0..n /\ ~(m <= m - 1)
    BY <2>1
  <2>. QED
    BY <1>2, <2>2
<1>5. Q(m - 1) /\ p[i + (m - 1)] # "*"
  BY <1>4
<1>6. i + (m - 1) \in 1..Len(p) /\ j + (m - 1) \in 1..(Len(v) + 1)
  BY <1>1, <1>4, <1>5
<1>7. j + (m - 1) <= Len(v) /\ Reaches(p, i + (m - 1) + 1, v, j + (m - 1) + 1)
  BY <1>5, <1>6, ReachesOne
<1>8. i + (m - 1) + 1 = i + m /\ j + (m - 1) + 1 = j + m
  BY <1>1, <1>4
<1>9. Q(m)
  BY <1>1, <1>4, <1>7, <1>8
<1>. QED
  BY <1>2, <1>9

LEMMA LiteralIn ==
  ASSUME NEW p \in Path, NEW v \in Path, NEW i \in 1..(Len(p) + 1), NEW j \in 1..(Len(v) + 1),
         NEW n \in Nat, i + n <= Len(p) + 1, j + n <= Len(v) + 1, Literal(p, i, v, j, n),
         Reaches(p, i + n, v, j + n)
  PROVE  Reaches(p, i, v, j)
<1>. DEFINE B == {m \in 0..n : ~Reaches(p, i + (n - m), v, j + (n - m))}
<1>1. Len(p) \in Nat /\ Len(v) \in Nat
  BY DEF Path
<1>. SUFFICES ASSUME B # {} PROVE FALSE
  <2>1. n \in 0..n /\ i + (n - n) = i /\ j + (n - n) = j
    OBVIOUS
  <2>. QED
    BY <2>1
<1>2. PICK m \in B : \A k \in B : m <= k
  <2>1. B \in SUBSET Nat
    OBVIOUS
  <2>. HIDE DEF B
  <2>. QED
    BY <2>1, Least
<1>3. m # 0
  <2>1. i + (n - 0) = i + n /\ j + (n - 0) = j + n
    OBVIOUS
  <2>. QED
    BY <1>2, <2>1
<1>4. m - 1 \in 0..n /\ m - 1 \notin B /\ n - m \in 0..(n - 1)
  <2>1. m \in 1..n
    BY <1>2, <1>3
  <2>2. m - 1 \in 0..n /\ n - m \in 0..(n - 1) /\ ~(m <= m - 1)
    BY <2>1
  <2>. QED
    BY <1>2, <2>2
<1>. DEFINE a == i + (n - m)
            c == j + (n - m)
<1>5. Reaches(p, i + (n - (m - 1)), v, j + (n - (m - 1)))
  BY <1>4
<1>6. i + (n - (m - 1)) = a + 1 /\ j + (n - (m - 1)) = c + 1
  BY <1>4
<1>7. p[a] # "*" /\ p[a] \in {"?", v[c]}
  BY <1>4 DEF Literal
<1>8. a \in 1..Len(p) /\ c <= Len(v) /\ c \in 1..(Len(v) + 1)
  BY <1>1, <1>4
<1>9. ~Reaches(p, a, v, c)
  BY <1>2
<1>. HIDE DEF a, c, B
<1>10. Reaches(p, a + 1, v, c + 1)
  BY <1>5, <1>6
<1>. QED
  BY <1>7, <1>8, <1>9, <1>10, ReachesOne

-----------------------------------------------------------------------------
(* The matcher: a star at s has taken the value up to sm, and the n        *)
(* characters after it fit the n there; q and j come next.                 *)

Stretch(p, s, v, sm, n) ==
  /\ s \in 1..Len(p) /\ p[s] = "*" /\ sm \in 1..(Len(v) + 1)
  /\ n \in Nat /\ s + 1 + n <= Len(p) + 1 /\ sm + n <= Len(v) + 1
  /\ Literal(p, s + 1, v, sm, n)

(* Neither a star nor the character there: nothing reaches the end.        *)
LEMMA NoFit ==
  ASSUME NEW p \in Path, NEW v \in Path, NEW q \in 1..(Len(p) + 1), NEW j \in 1..Len(v),
         q <= Len(p) => p[q] # "*" /\ p[q] \notin {"?", v[j]}
  PROVE  ~Reaches(p, q, v, j)
<1>1. Len(p) \in Nat /\ Len(v) \in Nat
  BY DEF Path
<1>2. j \in 1..(Len(v) + 1) /\ j # Len(v) + 1
  BY <1>1
<1>3. CASE q = Len(p) + 1
  BY <1>2, <1>3, ReachesEnd
<1>4. CASE q # Len(p) + 1
  <2>1. q \in 1..Len(p) /\ q <= Len(p)
    BY <1>1, <1>4
  <2>. QED
    BY <1>2, <2>1, ReachesOne
<1>. QED
  BY <1>3, <1>4

(* The star may have taken just what it has. *)
LEMMA StretchIn ==
  ASSUME NEW p \in Path, NEW v \in Path, NEW s, NEW sm, NEW n, Stretch(p, s, v, sm, n),
         Reaches(p, s + 1 + n, v, sm + n)
  PROVE  Reaches(p, s, v, sm)
<1>1. Len(p) \in Nat /\ Len(v) \in Nat
  BY DEF Path
<1>2. /\ s \in 1..Len(p) /\ p[s] = "*" /\ sm \in 1..(Len(v) + 1)
      /\ n \in Nat /\ s + 1 + n <= Len(p) + 1 /\ sm + n <= Len(v) + 1
      /\ Literal(p, s + 1, v, sm, n)
  BY DEF Stretch
<1>3. s + 1 \in 1..(Len(p) + 1) /\ sm \in sm..(Len(v) + 1)
  BY <1>1, <1>2
<1>4. Reaches(p, s + 1, v, sm)
  BY <1>2, <1>3, LiteralIn
<1>. QED
  BY <1>2, <1>3, <1>4, ReachesStar

(* Or more. *)
LEMMA StretchOut ==
  ASSUME NEW p \in Path, NEW v \in Path, NEW s, NEW sm, NEW n, Stretch(p, s, v, sm, n),
         Reaches(p, s, v, sm)
  PROVE  \E k \in sm..(Len(v) + 1) :
           Reaches(p, s + 1, v, k) /\ k + n <= Len(v) + 1 /\ Reaches(p, s + 1 + n, v, k + n)
<1>1. Len(p) \in Nat /\ Len(v) \in Nat
  BY DEF Path
<1>2. /\ s \in 1..Len(p) /\ p[s] = "*" /\ sm \in 1..(Len(v) + 1)
      /\ n \in Nat /\ s + 1 + n <= Len(p) + 1
      /\ Literal(p, s + 1, v, sm, n)
  BY DEF Stretch
<1>3. PICK k \in sm..(Len(v) + 1) : Reaches(p, s + 1, v, k)
  BY <1>2, ReachesStar
<1>4. s + 1 \in 1..(Len(p) + 1) /\ k \in 1..(Len(v) + 1)
  BY <1>1, <1>2
<1>5. \A l \in 0..(n - 1) : p[s + 1 + l] # "*"
  BY <1>2 DEF Literal
<1>6. k + n <= Len(v) + 1 /\ Reaches(p, s + 1 + n, v, k + n)
  BY <1>2, <1>3, <1>4, <1>5, LiteralOut
<1>. QED
  BY <1>3, <1>6

(* A later star takes over from an earlier one. *)
LEMMA NextStar ==
  ASSUME NEW p \in Path, NEW v \in Path, NEW s, NEW sm, NEW n, Stretch(p, s, v, sm, n),
         s + 1 + n <= Len(p), p[s + 1 + n] = "*"
  PROVE  Reaches(p, s, v, sm) <=> Reaches(p, s + 1 + n, v, sm + n)
<1>1. Len(p) \in Nat /\ Len(v) \in Nat
  BY DEF Path
<1>2. s \in Nat \ {0} /\ n \in Nat /\ sm \in 1..(Len(v) + 1) /\ sm + n <= Len(v) + 1
  BY <1>1 DEF Stretch
<1>3. s + 1 + n \in 1..Len(p) /\ sm + n \in 1..(Len(v) + 1)
  BY <1>1, <1>2
<1>4. ASSUME Reaches(p, s, v, sm) PROVE Reaches(p, s + 1 + n, v, sm + n)
  <2>1. PICK k \in sm..(Len(v) + 1) : k + n <= Len(v) + 1 /\ Reaches(p, s + 1 + n, v, k + n)
    BY <1>4, StretchOut
  <2>2. k + n \in 1..(Len(v) + 1)
    BY <1>1, <1>2, <2>1
  <2>3. PICK l \in (k + n)..(Len(v) + 1) : Reaches(p, s + 1 + n + 1, v, l)
    BY <1>3, <2>1, <2>2, ReachesStar
  <2>4. l \in (sm + n)..(Len(v) + 1)
    BY <1>1, <1>2, <2>2
  <2>. QED
    BY <1>3, <2>3, <2>4, ReachesStar
<1>. QED
  BY <1>4, StretchIn

(* If what follows the stretch does not fit, the star has to take more.    *)
LEMMA TakesMore ==
  ASSUME NEW p \in Path, NEW v \in Path, NEW s, NEW sm, NEW n, Stretch(p, s, v, sm, n),
         sm + n <= Len(v), ~Reaches(p, s + 1 + n, v, sm + n)
  PROVE  Reaches(p, s, v, sm) <=> Reaches(p, s, v, sm + 1)
<1>1. Len(p) \in Nat /\ Len(v) \in Nat
  BY DEF Path
<1>2. /\ s \in 1..Len(p) /\ p[s] = "*" /\ n \in Nat /\ sm \in 1..(Len(v) + 1)
      /\ sm + 1 \in 1..(Len(v) + 1)
  BY <1>1 DEF Stretch
<1>3. ASSUME Reaches(p, s, v, sm) PROVE Reaches(p, s, v, sm + 1)
  <2>1. PICK k \in sm..(Len(v) + 1) : Reaches(p, s + 1, v, k) /\ Reaches(p, s + 1 + n, v, k + n)
    BY <1>3, StretchOut
  <2>2. k # sm
    BY <2>1
  <2>3. k \in (sm + 1)..(Len(v) + 1)
    BY <1>1, <1>2, <2>2
  <2>. QED
    BY <1>2, <2>1, <2>3, ReachesStar
<1>4. ASSUME Reaches(p, s, v, sm + 1) PROVE Reaches(p, s, v, sm)
  <2>1. PICK k \in (sm + 1)..(Len(v) + 1) : Reaches(p, s + 1, v, k)
    BY <1>2, <1>4, ReachesStar
  <2>2. k \in sm..(Len(v) + 1)
    BY <1>1, <1>2
  <2>. QED
    BY <1>2, <2>1, <2>2, ReachesStar
<1>. QED
  BY <1>3, <1>4

(* At the end of the value it can take no more. *)
LEMMA TakesNoMore ==
  ASSUME NEW p \in Path, NEW v \in Path, NEW s, NEW sm, NEW n, Stretch(p, s, v, sm, n),
         sm + n = Len(v) + 1
  PROVE  Reaches(p, s, v, sm) <=> Reaches(p, s + 1 + n, v, sm + n)
<1>1. Len(v) \in Nat /\ n \in Nat /\ sm \in Nat
  BY DEF Path, Stretch
<1>2. ASSUME Reaches(p, s, v, sm) PROVE Reaches(p, s + 1 + n, v, sm + n)
  <2>1. PICK k \in sm..(Len(v) + 1) : k + n <= Len(v) + 1 /\ Reaches(p, s + 1 + n, v, k + n)
    BY <1>2, StretchOut
  <2>2. k = sm
    BY <1>1, <2>1
  <2>. QED
    BY <2>1, <2>2
<1>. QED
  BY <1>2, StretchIn

(* Before the first star the pattern fits one by one or not at all.        *)
LEMMA NoStarYet ==
  ASSUME NEW p \in Path, NEW v \in Path, NEW n \in Nat, n <= Len(p), n <= Len(v),
         Literal(p, 1, v, 1, n)
  PROVE  Means(p, v) <=> Reaches(p, n + 1, v, n + 1)
<1>1. Len(p) \in Nat /\ Len(v) \in Nat
  BY DEF Path
<1>2. /\ 1 \in 1..(Len(p) + 1) /\ 1 \in 1..(Len(v) + 1)
      /\ 1 + n <= Len(p) + 1 /\ 1 + n <= Len(v) + 1 /\ 1 + n = n + 1
      /\ \A k \in 0..(n - 1) : p[1 + k] # "*"
  BY <1>1 DEF Literal
<1>3. Reaches(p, 1, v, 1) => Reaches(p, 1 + n, v, 1 + n)
  BY <1>2, LiteralOut
<1>4. Reaches(p, 1 + n, v, 1 + n) => Reaches(p, 1, v, 1)
  BY <1>2, LiteralIn
<1>. QED
  BY <1>2, <1>3, <1>4, MeansIs

-----------------------------------------------------------------------------
(* Types, and that the matcher moves on.                                   *)

(* Between the star and the place in the pattern is as much as between     *)
(* where it resumes and the place in the value.                            *)
Indices ==
  /\ pc = "match" =>
       /\ star < pat /\ val - starMatch = pat - star - 1
       /\ star = 0 => starMatch = 1
  /\ pc = "tail" => patterns # <<>> /\ val = Len(value) + 1

Typed == input \in Inputs /\ TypeOK /\ Indices

LEMMA PatternsType ==
  ASSUME NEW list \in Seq(Path)
  PROVE  /\ Mapped(LowerCopy, list) \in Seq(Path)
         /\ Len(Mapped(LowerCopy, list)) = Len(list)
         /\ \A k \in 1..Len(list) : Mapped(LowerCopy, list)[k] = LowerCopy(list[k])
<1>. DEFINE e(k) == LowerCopy(list[k])
<1>1. \A k \in 1..Len(list) : e(k) \in Path
  BY LowerCopyType
<1>2. Mapped(LowerCopy, list) = [k \in 1..Len(list) |-> e(k)]
  BY DEF Mapped
<1>3. \A k \in 1..Len(list) : Mapped(LowerCopy, list)[k] = LowerCopy(list[k])
  BY <1>2
<1>. HIDE DEF e
<1>4. Mapped(LowerCopy, list) \in Seq(Path)
  BY <1>1, <1>2, IsASeq
<1>. QED
  BY <1>2, <1>3, <1>4

LEMMA InputTypes ==
  ASSUME Typed
  PROVE  /\ input.text \in Path /\ input.programs \in Path
         /\ input.observed \in Name /\ input.requestor \in Name
         /\ Subject \in Name /\ FileName(Subject) \in Name
         /\ LowerCopy(Subject) \in Name /\ LowerCopy(FileName(Subject)) \in Name
<1>1. /\ input.text \in Path /\ input.programs \in Path
      /\ input.observed \in Name /\ input.requestor \in Name /\ relative \in Name
  BY InputAssumption DEF Typed, TypeOK, Input
<1>2. Subject \in Name
  BY <1>1 DEF Subject
<1>. QED
  BY <1>1, <1>2, FileNameType, LowerCopyType

(* A fresh attempt. *)
LEMMA BeginTyped ==
  ASSUME NEW v \in Name, Begin(v)
  PROVE  /\ value' \in Name /\ pat' = 1 /\ val' = 1 /\ star' = 0 /\ starMatch' = 1
         /\ 1 \in 1..(Len(value') + 1)
<1>1. value' \in Name /\ Len(value') \in Nat
  BY LowerCopyType DEF Begin, Name
<1>. QED
  BY <1>1 DEF Begin

LEMMA TryNextTyped ==
  ASSUME Typed, pc \in {"match", "tail"}, patterns # <<>>, TryNext
  PROVE  Typed'
<1>1. /\ Subject \in Name /\ FileName(Subject) \in Name
  BY InputTypes
<1>2. /\ value' \in Name /\ pat' = 1 /\ val' = 1 /\ star' = 0 /\ starMatch' = 1
      /\ 1 \in 1..(Len(value') + 1)
  BY <1>1, BeginTyped DEF TryNext
<1>3. patterns' \in Seq(Path)
  <2>1. patterns \in Seq(Path)
    BY DEF Typed, TypeOK
  <2>2. Tail(patterns) \in Seq(Path)
    BY <2>1, HeadTailProperties
  <2>3. patterns' = patterns \/ patterns' = Tail(patterns)
    BY DEF TryNext
  <2>. QED
    BY <2>1, <2>2, <2>3
<1>4. patterns' # <<>> => Len(Head(patterns')) \in Nat
  BY <1>3 DEF Path
<1>. QED
  BY <1>2, <1>3, <1>4 DEF TryNext, Typed, TypeOK, Indices, Pattern

LEMMA TypedStep ==
  ASSUME Typed, [Next]_vars
  PROVE  Typed'
<1>. USE DEF Typed
<1>t. /\ Len(value) \in Nat /\ val \in 1..(Len(value) + 1) /\ starMatch \in 1..(Len(value) + 1)
      /\ pat \in Nat \ {0} /\ star \in Nat
      /\ patterns # <<>> => Len(Pattern) \in Nat /\ pat <= Len(Pattern) + 1
  <2>1. patterns # <<>> => Head(patterns) \in Path
    BY DEF TypeOK
  <2>. QED
    BY <2>1 DEF TypeOK, Name, Path, Pattern
<1>p. pc' \in {"accepted", "dropped"} /\ UNCHANGED <<input, relative, phase, matcher>> => Typed'
  BY DEF TypeOK, Indices, matcher, Pattern
<1>1. CASE MapFails
  BY <1>1, <1>p DEF MapFails, Drop
<1>2. CASE MapPath
  <2>1. relative' \in Name
    BY <1>2, InputTypes, MapObservedType DEF MapPath, Identified
  <2>. QED
    BY <1>2, <2>1 DEF MapPath, matcher, TypeOK, Indices, Pattern
<1>3. CASE DropEmpty
  BY <1>3, <1>p DEF DropEmpty, Drop
<1>4. CASE TryPath
  <2>1. /\ value' \in Name /\ pat' = 1 /\ val' = 1 /\ star' = 0 /\ starMatch' = 1
        /\ 1 \in 1..(Len(value') + 1)
    BY <1>4, BeginTyped DEF TryPath, TypeOK
  <2>2. patterns' \in Seq(Path)
    BY <1>4, InputTypes, SplitPatternsType, PatternsType DEF TryPath
  <2>3. patterns' # <<>> => Len(Head(patterns')) \in Nat
    BY <2>2 DEF Path
  <2>. QED
    BY <1>4, <2>1, <2>2, <2>3 DEF TryPath, TypeOK, Indices, Pattern
<1>5. CASE TryProcess
  <2>1. /\ value' \in Name /\ pat' = 1 /\ val' = 1 /\ star' = 0 /\ starMatch' = 1
        /\ 1 \in 1..(Len(value') + 1)
    BY <1>5, InputTypes, BeginTyped DEF TryProcess
  <2>2. patterns' \in Seq(Path)
    <3>1. Mapped(LowerCopy, SplitPatterns(input.programs)) \in Seq(Path)
      BY InputTypes, SplitPatternsType, PatternsType
    <3>2. <<>> \in Seq(Path)
      OBVIOUS
    <3>. QED
      BY <1>5, <3>1, <3>2 DEF TryProcess
  <2>3. patterns' # <<>> => Len(Head(patterns')) \in Nat
    BY <2>2 DEF Path
  <2>. QED
    BY <1>5, <2>1, <2>2, <2>3 DEF TryProcess, TypeOK, Indices, Pattern
<1>6. CASE Decide
  BY <1>6, <1>p DEF Decide
<1>7. CASE Advance
  BY <1>7, <1>t DEF Advance, Matching, InValue, Same, InPattern, Stays, TypeOK, Indices, Pattern
<1>8. CASE SeeStar
  BY <1>8, <1>t DEF SeeStar, Matching, InValue, Star, InPattern, Stays, TypeOK, Indices, Pattern
<1>9. CASE Backtrack
  BY <1>9, <1>t DEF Backtrack, Matching, InValue, Stays, TypeOK, Indices, Pattern
<1>10. CASE Mismatch
  BY <1>10, TryNextTyped DEF Mismatch, Matching
<1>11. CASE EndOfValue
  BY <1>11, <1>t DEF EndOfValue, Matching, InValue, Stays, TypeOK, Indices, Pattern
<1>12. CASE SkipStar
  BY <1>12, <1>t DEF SkipStar, Star, InPattern, Stays, TypeOK, Indices, Pattern
<1>13. CASE Match
  BY <1>13, <1>p DEF Match, Drop
<1>14. CASE TailDiffers
  BY <1>14, TryNextTyped DEF TailDiffers, Indices
<1>15. CASE UNCHANGED vars
  BY <1>15 DEF vars, matcher, TypeOK, Indices, Pattern
<1>. QED
  BY <1>1, <1>2, <1>3, <1>4, <1>5, <1>6, <1>7, <1>8, <1>9, <1>10, <1>11, <1>12, <1>13,
     <1>14, <1>15 DEF Next, Finished

LEMMA TypedInit == Init => Typed
<1>. SUFFICES ASSUME Init PROVE Typed
  OBVIOUS
<1>1. <<>> \in Name /\ <<>> \in Seq(Path) /\ Len(<<>>) = 0
  BY DEF Name
<1>. QED
  BY <1>1 DEF Init, Typed, TypeOK, Indices

(* Values keep their types, and the matcher's indices stay within one of   *)
(* the pattern and of the value.                                           *)
THEOREM TypeCorrect == Spec => []TypeOK
<1>1. Spec => []Typed
  BY TypedInit, TypedStep, PTL DEF Spec
<1>. QED
  BY <1>1, PTL DEF Typed

(* Any list of patterns is the same after it is saved and loaded: joining  *)
(* and splitting are inverse on what splitting returns, whatever blanks,   *)
(* marks and empty items the text had.                                     *)
THEOREM ListsKept == Spec => []PatternsKept
<1>1. Typed => PatternsKept
  <2>. SUFFICES ASSUME Typed
                PROVE  SplitPatterns(JoinPatterns(SplitPatterns(input.text))) = SplitPatterns(input.text)
    BY DEF PatternsKept
  <2>1. input.text \in Path
    BY InputTypes
  <2>. QED
    BY <2>1, SplitPatternsType, SplitPatternsPlain, SplitJoined
<1>. QED
  BY <1>1, TypedInit, TypedStep, PTL DEF Spec

(* After it is mapped, an event keeps the path it was mapped to. *)
MappedRight ==
  pc # "map" => /\ Identified = None => pc = "dropped"
                /\ Identified # None => relative = Identified.relative

LEMMA MappedStep ==
  ASSUME MappedRight, [Next]_vars
  PROVE  MappedRight'
<1>1. CASE MapFails \/ MapPath
  <2>1. pc = "map" /\ input' = input
    BY <1>1 DEF MapFails, MapPath, Drop
  <2>2. Identified' = Identified
    BY <2>1 DEF Identified
  <2>3. CASE MapFails
    BY <2>2, <2>3 DEF MapFails, Drop, MappedRight
  <2>4. CASE MapPath
    BY <2>2, <2>4 DEF MapPath, MappedRight
  <2>. QED
    BY <1>1, <2>3, <2>4
<1>2. CASE ~(MapFails \/ MapPath)
  <2>1. /\ input' = input /\ relative' = relative
        /\ pc = "map" => pc' = "map"
        /\ pc = "dropped" => pc' = "dropped"
    BY <1>2 DEF Next, vars, matcher, DropEmpty, TryPath, TryProcess, Decide, Advance, SeeStar,
                Backtrack, Mismatch, EndOfValue, SkipStar, Match, TailDiffers, Finished, Drop,
                TryNext, Stays, Matching
  <2>2. Identified' = Identified
    BY <2>1 DEF Identified
  <2>. QED
    BY <2>1, <2>2 DEF MappedRight
<1>. QED
  BY <1>1, <1>2

LEMMA MappedNames ==
  ASSUME input \in Input, MappedRight
  PROVE  NamesFile
<1>. SUFFICES ASSUME pc # "map", IsShare(input.source)
              PROVE  /\ IsOf(input.observed) \/ pc = "dropped"
                     /\ IsOf(input.observed) /\ Len(Names(input.observed)) > 2 =>
                          EqualIgnoreCase(JoinRootRelative(input.source, relative),
                                          Spelled(Names(input.observed)))
  BY DEF NamesFile
<1>1. input.source \in Path /\ input.observed \in Path
  <2>1. input.source \in Path /\ input.observed \in Seq(Char \ {"*"})
    BY DEF Input, Name
  <2>. QED
    BY <2>1, SeqMonotonic DEF Path
<1>2. IsOf(input.observed) <=> OfShare(input.source, input.observed)
  BY DEF IsOf, OfShare
<1>3. /\ Identified # None <=> OfShare(input.source, input.observed)
      /\ OfShare(input.source, input.observed) =>
           Identified.relative = Join(From(Names(input.observed), 3), Sep)
  BY <1>1, MapsShare DEF Identified
<1>4. OfShare(input.source, input.observed) /\ Len(Names(input.observed)) > 2 =>
        EqualIgnoreCase(JoinRootRelative(input.source, Join(From(Names(input.observed), 3), Sep)),
                        Spelled(Names(input.observed)))
  BY <1>1, JoinsBack
<1>. QED
  BY <1>2, <1>3, <1>4 DEF MappedRight

(* However the driver spells it, a path is mapped exactly if its first two *)
(* names are the source's server and share but for case, and joined to the *)
(* source the relative path spells all its names again: what parse_unc,    *)
(* parse_device_path and join_root_relative take apart and put together    *)
(* is one file.                                                            *)
THEOREM NamesKept == Spec => []NamesFile
<1>1. Init => MappedRight /\ input \in Input
  BY InputAssumption DEF Init, MappedRight
<1>2. input \in Input /\ [Next]_vars => (input \in Input)'
  BY DEF Next, vars, matcher, MapFails, MapPath, DropEmpty, TryPath, TryProcess, Decide, Advance, SeeStar,
         Backtrack, Mismatch, EndOfValue, SkipStar, Match, TailDiffers, Finished, Drop,
         TryNext, Stays, Matching
<1>. QED
  BY <1>1, <1>2, MappedStep, MappedNames, PTL DEF Spec

(* No step of the matcher but takes more of the value into the last star,  *)
(* or consumes: the loop over pattern and value comes to an end.           *)
THEOREM MovesOnwards == Spec => MovesOn
<1>. DEFINE Onwards == pc' = pc /\ UNCHANGED <<phase, patterns, value>> =>
              \/ starMatch' > starMatch
              \/ starMatch' = starMatch /\ pat' + val' > pat + val
<1>1. Typed /\ [Next]_vars => [Onwards]_vars
  <2>. SUFFICES ASSUME Typed, Next, pc' = pc, UNCHANGED <<phase, patterns, value>>
                PROVE  Onwards \/ UNCHANGED vars
    OBVIOUS
  <2>t. /\ val \in Nat /\ starMatch \in Nat /\ pat \in Nat /\ star \in Nat
    BY DEF Typed, TypeOK
  <2>1. CASE Advance
    BY <2>1, <2>t DEF Advance
  <2>2. CASE SeeStar
    BY <2>2, <2>t DEF SeeStar, Typed, Indices, Matching
  <2>3. CASE Backtrack
    BY <2>3, <2>t DEF Backtrack
  <2>4. CASE Mismatch
    <3>1. /\ Subject \in Name /\ FileName(Subject) \in Name
          /\ Len(LowerCopy(Subject)) = Len(Subject)
          /\ Len(LowerCopy(FileName(Subject))) = Len(FileName(Subject))
      BY InputTypes, LowerCopyType
    <3>2. patterns \in Seq(Path) /\ patterns # <<>>
      BY <2>4 DEF Mismatch, Matching, Typed, TypeOK
    <3>3. Tail(patterns) # patterns
      <4>1. Len(Tail(patterns)) = Len(patterns) - 1 /\ Len(patterns) \in Nat
        BY <3>2, HeadTailProperties
      <4>. QED
        BY <4>1
    <3>4. OnSubject /\ FileName(Subject) # Subject /\ value' = LowerCopy(FileName(Subject))
      BY <2>4, <3>3 DEF Mismatch, TryNext, Begin
    <3>5. LowerCopy(FileName(Subject)) = LowerCopy(Subject)
      BY <3>4 DEF OnSubject
    <3>. QED
      BY <3>1, <3>4, <3>5, FileNameType
  <2>5. CASE SkipStar
    BY <2>5, <2>t DEF SkipStar
  <2>6. CASE MapFails \/ MapPath \/ DropEmpty \/ TryPath \/ TryProcess \/ Decide
             \/ EndOfValue \/ Match \/ TailDiffers
    BY <2>6 DEF MapFails, MapPath, DropEmpty, TryPath, TryProcess, Decide, EndOfValue,
                Match, TailDiffers, Drop, Matching, TryNext
  <2>. QED
    BY <2>1, <2>2, <2>3, <2>4, <2>5, <2>6 DEF Next, Finished
<1>. QED
  BY <1>1, TypedInit, TypedStep, PTL DEF Spec, MovesOn

-----------------------------------------------------------------------------
(* What is decided.                                                        *)

(* The pattern or the value at hand stand for those still to try: with     *)
(* the value the file name, and after the pattern the others.              *)
Hits(p, path) == \E v \in {path, FileName(path)} : Means(p, LowerCopy(v))
Others == \E k \in 2..Len(patterns) : Hits(patterns[k], Subject)
ToTry ==
  /\ patterns # <<>>
  /\ \/ Means(Pattern, value)
     \/ OnSubject /\ Means(Pattern, LowerCopy(FileName(Subject)))
     \/ Others

(* The matcher, on the way and at the end of the value, has not yet left   *)
(* out a way to share the value out.                                       *)
MatcherRight ==
  patterns # <<>> =>
    /\ pc = "match" =>
         /\ Literal(Pattern, star + 1, value, starMatch, pat - star - 1)
         /\ star # 0 =>
              /\ Pattern[star] = "*"
              /\ Means(Pattern, value) <=> Reaches(Pattern, star, value, starMatch)
    /\ pc = "tail" =>
         (Means(Pattern, value) <=> Reaches(Pattern, pat, value, val))

Texts == IF phase = "path" THEN input.text ELSE input.programs
AttemptsRight ==
  /\ pc \in {"map", "filter"} => phase = "path"
  /\ pc = "map" => relative = <<>>
  /\ pc \in {"match", "tail"} =>
       /\ relative # <<>>
       /\ patterns # <<>> => value \in {LowerCopy(Subject), LowerCopy(FileName(Subject))}
       /\ Excluded(Texts, Subject) <=> ToTry
       /\ phase = "process" => ~Excluded(input.text, relative)

FilterInv == Typed /\ MatcherRight /\ AttemptsRight

(* The list as it is split has the items. *)
AnyHits(list, path) == \E k \in 1..Len(list) : Hits(list[k], path)

LEMMA ExcludedIs ==
  ASSUME NEW text \in Path, NEW path
  PROVE  Excluded(text, path) <=>
           path # <<>> /\ AnyHits(Mapped(LowerCopy, SplitPatterns(text)), path)
<1>. DEFINE list == SplitPatterns(text)
<1>1. list \in Seq(Path) /\ DOMAIN list = 1..Len(list)
  BY SplitPatternsType
<1>2. /\ Len(Mapped(LowerCopy, list)) = Len(list)
      /\ \A k \in 1..Len(list) : Mapped(LowerCopy, list)[k] = LowerCopy(list[k])
  BY <1>1, PatternsType
<1>3. {list[k] : k \in DOMAIN list} = Items(text) \ {<<>>}
  BY SplitPatternsItems
<1>. HIDE DEF list
<1>4. (\E p \in Items(text) \ {<<>>} : Ignores(p, path)) <=> \E k \in 1..Len(list) : Ignores(list[k], path)
  BY <1>1, <1>3
<1>5. AnyHits(Mapped(LowerCopy, list), path) <=> \E k \in 1..Len(list) : Hits(LowerCopy(list[k]), path)
  BY <1>2 DEF AnyHits
<1>6. \A p : Ignores(p, path) <=> Hits(LowerCopy(p), path)
  BY DEF Ignores, Hits
<1>. QED
  BY <1>4, <1>5, <1>6 DEF Excluded, list

LEMMA FirstHits ==
  ASSUME NEW list \in Seq(Path), list # <<>>, NEW path
  PROVE  /\ AnyHits(list, path) <=>
              Hits(Head(list), path) \/ \E k \in 2..Len(list) : Hits(list[k], path)
         /\ AnyHits(Tail(list), path) <=> \E k \in 2..Len(list) : Hits(list[k], path)
<1>1. Len(list) \in Nat \ {0} /\ Head(list) = list[1]
  BY EmptySeq
<1>2. \A k \in Int : k \in 1..Len(list) <=> k = 1 \/ k \in 2..Len(list)
  BY <1>1
<1>3. /\ Len(Tail(list)) = Len(list) - 1
      /\ \A k \in 1..(Len(list) - 1) : Tail(list)[k] = list[k + 1]
  BY HeadTailProperties
<1>4. \A k \in 2..Len(list) : k - 1 \in 1..(Len(list) - 1) /\ (k - 1) + 1 = k
  BY <1>1
<1>5. \A k \in 1..(Len(list) - 1) : k + 1 \in 2..Len(list)
  BY <1>1
<1>6. AnyHits(list, path) <=> Hits(list[1], path) \/ \E k \in 2..Len(list) : Hits(list[k], path)
  <2>1. 1 \in 1..Len(list) /\ \A k \in 1..Len(list) : k \in Int
    BY <1>1
  <2>2. \A k \in 2..Len(list) : k \in Int
    OBVIOUS
  <2>. QED
    BY <1>2, <2>1, <2>2 DEF AnyHits
<1>7. AnyHits(Tail(list), path) <=> \E k \in 1..(Len(list) - 1) : Hits(list[k + 1], path)
  BY <1>3 DEF AnyHits
<1>. QED
  BY <1>1, <1>4, <1>5, <1>6, <1>7

(* Of a list just taken up everything is to try. *)
LEMMA FreshToTry ==
  ASSUME NEW list \in Seq(Path), NEW path
  PROVE  AnyHits(list, path) <=>
           /\ list # <<>>
           /\ \/ Means(Head(list), LowerCopy(path))
              \/ Means(Head(list), LowerCopy(FileName(path)))
              \/ \E k \in 2..Len(list) : Hits(list[k], path)
<1>1. CASE list = <<>>
  <2>1. Len(list) = 0
    BY <1>1
  <2>. QED
    BY <1>1, <2>1 DEF AnyHits
<1>2. CASE list # <<>>
  BY <1>2, FirstHits DEF Hits
<1>. QED
  BY <1>1, <1>2

-----------------------------------------------------------------------------
(* The matcher.                                                            *)

LEMMA AtHand ==
  ASSUME FilterInv, pc \in {"match", "tail"}, patterns # <<>>
  PROVE  /\ Pattern \in Path /\ Len(Pattern) \in Nat /\ pat \in 1..(Len(Pattern) + 1)
         /\ value \in Path /\ Len(value) \in Nat /\ val \in 1..(Len(value) + 1)
         /\ \A k \in 1..Len(value) : value[k] # "*"
<1>1. patterns \in Seq(Path) /\ value \in Name /\ val \in 1..(Len(value) + 1)
      /\ pat \in Nat \ {0} /\ pat <= Len(Pattern) + 1
  BY DEF FilterInv, Typed, TypeOK
<1>2. Head(patterns) \in Path
  BY <1>1
<1>3. value \in Path /\ \A k \in 1..Len(value) : value[k] # "*"
  BY <1>1 DEF Name, Path
<1>. QED
  BY <1>1, <1>2, <1>3 DEF Pattern, Path

LEMMA Underway ==
  ASSUME FilterInv, Matching, NEW n, n = pat - star - 1
  PROVE  /\ n \in Nat /\ starMatch \in Nat /\ star \in Nat
         /\ star + 1 + n = pat /\ starMatch + n = val
         /\ star # 0 => /\ Stretch(Pattern, star, value, starMatch, n)
                        /\ Means(Pattern, value) <=> Reaches(Pattern, star, value, starMatch)
         /\ star = 0 => /\ n + 1 = pat /\ n + 1 = val
                        /\ Means(Pattern, value) <=> Reaches(Pattern, pat, value, val)
<1>1. /\ Pattern \in Path /\ Len(Pattern) \in Nat /\ pat \in 1..(Len(Pattern) + 1)
      /\ value \in Path /\ Len(value) \in Nat /\ val \in 1..(Len(value) + 1)
  BY AtHand DEF Matching
<1>2. /\ star \in Nat /\ starMatch \in 1..(Len(value) + 1)
      /\ star < pat /\ val - starMatch = pat - star - 1
      /\ star = 0 => starMatch = 1
  BY DEF FilterInv, Typed, TypeOK, Indices, Matching
<1>3. /\ Literal(Pattern, star + 1, value, starMatch, n)
      /\ star # 0 => Pattern[star] = "*" /\ (Means(Pattern, value) <=> Reaches(Pattern, star, value, starMatch))
  BY DEF FilterInv, MatcherRight, Matching
<1>4. n \in Nat /\ star + 1 + n = pat /\ starMatch + n = val
  BY <1>1, <1>2
<1>5. ASSUME star # 0 PROVE Stretch(Pattern, star, value, starMatch, n)
  <2>1. star \in 1..Len(Pattern)
    BY <1>1, <1>2, <1>5
  <2>. QED
    BY <1>1, <1>2, <1>3, <1>4, <1>5, <2>1 DEF Stretch
<1>6. ASSUME star = 0
      PROVE  n + 1 = pat /\ n + 1 = val /\ (Means(Pattern, value) <=> Reaches(Pattern, pat, value, val))
  <2>1. n + 1 = pat /\ n + 1 = val /\ n <= Len(Pattern) /\ n <= Len(value)
    BY <1>1, <1>2, <1>4, <1>6
  <2>2. Literal(Pattern, 1, value, 1, n)
    BY <1>2, <1>3, <1>6
  <2>. QED
    BY <1>1, <1>4, <2>1, <2>2, NoStarYet
<1>. QED
  BY <1>2, <1>3, <1>4, <1>5, <1>6

(* A character of the pattern that neither fits nor is a star. *)
LEMMA Differs ==
  ASSUME FilterInv, Matching, InValue, ~Same, ~Star
  PROVE  ~Reaches(Pattern, pat, value, val)
<1>1. /\ Pattern \in Path /\ pat \in 1..(Len(Pattern) + 1)
      /\ value \in Path /\ val \in 1..Len(value)
  BY AtHand DEF Matching, InValue
<1>2. pat <= Len(Pattern) => Pattern[pat] # "*" /\ Pattern[pat] \notin {"?", value[val]}
  BY DEF Same, Star, InPattern
<1>. QED
  BY <1>1, <1>2, NoFit

LEMMA TailIs ==
  ASSUME FilterInv, pc = "tail"
  PROVE  /\ patterns # <<>>
         /\ Pattern \in Path /\ pat \in 1..(Len(Pattern) + 1) /\ Len(Pattern) \in Nat
         /\ value \in Path /\ val = Len(value) + 1 /\ Len(value) \in Nat /\ val \in 1..(Len(value) + 1)
         /\ Means(Pattern, value) <=> Reaches(Pattern, pat, value, val)
<1>1. patterns # <<>> /\ val = Len(value) + 1
  BY DEF FilterInv, Typed, Indices
<1>. QED
  BY <1>1, AtHand DEF FilterInv, MatcherRight

LEMMA MatcherStep ==
  ASSUME FilterInv, Advance \/ SeeStar \/ Backtrack \/ EndOfValue \/ SkipStar
  PROVE  MatcherRight'
<1>. DEFINE n == pat - star - 1
            p == Pattern
            v == value
<1>0. patterns' = patterns /\ p' = p /\ v' = v
  BY DEF Advance, SeeStar, Backtrack, EndOfValue, SkipStar, Stays, Pattern
<1>m. ASSUME Matching
      PROVE  /\ p \in Path /\ Len(p) \in Nat /\ pat \in 1..(Len(p) + 1)
             /\ v \in Path /\ Len(v) \in Nat /\ val \in 1..(Len(v) + 1)
             /\ \A k \in 1..Len(v) : v[k] # "*"
             /\ n \in Nat /\ starMatch \in Nat /\ star \in Nat
             /\ star + 1 + n = pat /\ starMatch + n = val
             /\ star # 0 => /\ Stretch(p, star, v, starMatch, n)
                            /\ Means(p, v) <=> Reaches(p, star, v, starMatch)
             /\ star = 0 => Means(p, v) <=> Reaches(p, pat, v, val)
  BY <1>m, AtHand, Underway DEF Matching
<1>1. CASE Advance
  <2>1. Matching /\ pc' = "match" /\ pat' = pat + 1 /\ star' = star /\ starMatch' = starMatch
    BY <1>1 DEF Advance, Matching
  <2>t. pat \in Nat /\ star \in Nat /\ starMatch \in Nat /\ n \in Nat
    BY <1>m, <2>1
  <2>2. p[pat] \in {"?", v[val]} /\ p[pat] # "*"
    <3>1. p[pat] \in {"?", v[val]} /\ val <= Len(v)
      BY <1>1 DEF Advance, Same, InValue
    <3>2. v[val] # "*"
      <4>. HIDE DEF n, p, v
      <4>. QED
        BY <1>m, <2>1, <3>1
    <3>. QED
      BY <3>1, <3>2
  <2>3. /\ Literal(p, star + 1, v, starMatch, n)
        /\ star # 0 => p[star] = "*" /\ (Means(p, v) <=> Reaches(p, star, v, starMatch))
    BY <2>1 DEF FilterInv, MatcherRight, Matching
  <2>4. pat' - star' - 1 = n + 1
    BY <2>t, <2>1
  <2>5. Literal(p, star + 1, v, starMatch, n + 1)
    <3>1. star + 1 + n = pat /\ starMatch + n = val
      BY <1>m, <2>1
    <3>. HIDE DEF n, p, v
    <3>. QED
      BY <2>2, <2>3, <2>t, <3>1, LiteralMore
  <2>. QED
    BY <1>0, <2>1, <2>3, <2>4, <2>5 DEF MatcherRight
<1>2. CASE SeeStar
  <2>1. Matching /\ pc' = "match" /\ pat' = pat + 1 /\ star' = pat /\ starMatch' = val
    BY <1>2 DEF SeeStar, Matching
  <2>2. pat <= Len(p) /\ p[pat] = "*"
    BY <1>2 DEF SeeStar, Star, InPattern
  <2>3. Means(p, v) <=> Reaches(p, pat, v, val)
    <3>. HIDE DEF n, p, v
    <3>. QED
      BY <1>m, <2>1, <2>2, NextStar
  <2>4. pat' - star' - 1 = 0
    BY <1>m, <2>1
  <2>5. Literal(p, pat + 1, v, val, 0)
    BY DEF Literal
  <2>. QED
    BY <1>0, <2>1, <2>2, <2>3, <2>4, <2>5 DEF MatcherRight
<1>3. CASE Backtrack
  <2>1. /\ Matching /\ InValue /\ ~Same /\ ~Star /\ star # 0
        /\ pc' = "match" /\ pat' = star + 1 /\ star' = star /\ starMatch' = starMatch + 1
    BY <1>3 DEF Backtrack, Matching
  <2>2. ~Reaches(p, pat, v, val) /\ val <= Len(v)
    BY <2>1, Differs DEF InValue
  <2>3. Means(p, v) <=> Reaches(p, star, v, starMatch + 1)
    <3>. HIDE DEF n, p, v
    <3>. QED
      BY <1>m, <2>1, <2>2, TakesMore
  <2>4. pat' - star' - 1 = 0
    BY <1>m, <2>1
  <2>5. Literal(p, star + 1, v, starMatch + 1, 0)
    BY DEF Literal
  <2>6. p[star] = "*"
    BY <1>m, <2>1 DEF Stretch
  <2>. QED
    BY <1>0, <2>1, <2>3, <2>4, <2>5, <2>6 DEF MatcherRight
<1>4. CASE EndOfValue
  <2>1. Matching /\ pc' = "tail" /\ pat' = pat /\ val' = val /\ val = Len(v) + 1
    BY <1>4, <1>m DEF EndOfValue, InValue
  <2>2. Means(p, v) <=> Reaches(p, pat, v, val)
    <3>. HIDE DEF n, p, v
    <3>. QED
      BY <1>m, <2>1, TakesNoMore
  <2>. QED
    BY <1>0, <2>1, <2>2 DEF MatcherRight
<1>5. CASE SkipStar
  <2>1. pc = "tail" /\ pc' = "tail" /\ pat' = pat + 1 /\ val' = val /\ pat <= Len(p) /\ p[pat] = "*"
    BY <1>5 DEF SkipStar, Star, InPattern
  <2>2. /\ p \in Path /\ pat \in 1..Len(p)
        /\ v \in Path /\ val = Len(v) + 1 /\ Len(v) \in Nat /\ val \in 1..(Len(v) + 1)
        /\ Means(p, v) <=> Reaches(p, pat, v, val)
    BY <2>1, TailIs
  <2>3. \A k \in val..(Len(v) + 1) : k = val
    BY <2>2
  <2>4. val \in val..(Len(v) + 1)
    BY <2>2
  <2>5. Reaches(p, pat, v, val) <=> Reaches(p, pat + 1, v, val)
    <3>. HIDE DEF p, v
    <3>. QED
      BY <2>1, <2>2, <2>3, <2>4, ReachesStar
  <2>. QED
    BY <1>0, <2>1, <2>2, <2>5 DEF MatcherRight
<1>. QED
  BY <1>1, <1>2, <1>3, <1>4, <1>5

(* Without a star the attempt fails where the first character differs. *)
LEMMA FailsRight ==
  ASSUME FilterInv, Mismatch \/ TailDiffers
  PROVE  ~Means(Pattern, value)
<1>1. CASE Mismatch
  BY <1>1, Underway, Differs DEF Mismatch
<1>2. CASE TailDiffers
  <2>1. pc = "tail" /\ pat <= Len(Pattern) /\ Pattern[pat] # "*"
    BY <1>2 DEF TailDiffers, Star, InPattern
  <2>2. pat \in 1..Len(Pattern) /\ ~(val <= Len(value))
    BY <2>1, TailIs
  <2>. QED
    BY <2>1, <2>2, TailIs, ReachesOne
<1>. QED
  BY <1>1, <1>2

(* An attempt begins with the whole pattern and the whole value. *)
LEMMA BeginRight ==
  ASSUME NEW v, Begin(v), pc' # "tail"
  PROVE  MatcherRight'
<1>1. pat' = 1 /\ star' = 0 /\ star' + 1 = 1 /\ pat' - star' - 1 = 0
  BY DEF Begin
<1>2. Literal(Pattern', star' + 1, value', starMatch', 0)
  BY DEF Literal
<1>. QED
  BY <1>1, <1>2 DEF MatcherRight

-----------------------------------------------------------------------------
(* The attempts.                                                           *)

(* What is left after a failed attempt. *)
LEMMA TryNextRight ==
  ASSUME FilterInv, pc \in {"match", "tail"}, patterns # <<>>, ~Means(Pattern, value), TryNext
  PROVE  AttemptsRight'
<1>1. patterns \in Seq(Path)
  BY DEF FilterInv, Typed, TypeOK
<1>2. /\ relative # <<>>
      /\ value \in {LowerCopy(Subject), LowerCopy(FileName(Subject))}
      /\ Excluded(Texts, Subject) <=> ToTry
      /\ phase = "process" => ~Excluded(input.text, relative)
  BY DEF FilterInv, AttemptsRight
<1>3. /\ pc' = "match" /\ input' = input /\ relative' = relative /\ phase' = phase
      /\ Subject' = Subject /\ Texts' = Texts
  BY DEF TryNext, Subject, Texts
<1>4. CASE OnSubject /\ FileName(Subject) # Subject
  <2>1. patterns' = patterns /\ value' = LowerCopy(FileName(Subject)) /\ Pattern' = Pattern
    BY <1>4 DEF TryNext, Begin, Pattern
  <2>2. Others' <=> Others
    BY <1>3, <2>1 DEF Others
  <2>3. OnSubject' <=> LowerCopy(FileName(Subject)) = LowerCopy(Subject)
    BY <1>3, <2>1 DEF OnSubject
  <2>4. ToTry <=> Means(Pattern, LowerCopy(FileName(Subject))) \/ Others
    BY <1>4 DEF ToTry
  <2>5. ToTry' <=> \/ Means(Pattern, LowerCopy(FileName(Subject)))
                   \/ OnSubject' /\ Means(Pattern, LowerCopy(FileName(Subject)))
                   \/ Others
    BY <1>3, <2>1, <2>2 DEF ToTry
  <2>. QED
    BY <1>2, <1>3, <2>1, <2>4, <2>5 DEF AttemptsRight
<1>5. CASE ~(OnSubject /\ FileName(Subject) # Subject)
  <2>1. patterns' = Tail(patterns) /\ value' = LowerCopy(Subject)
    BY <1>5 DEF TryNext, Begin
  <2>2. ToTry <=> Others
    BY <1>5 DEF ToTry, OnSubject
  <2>3. Others <=> AnyHits(Tail(patterns), Subject)
    BY <1>1, FirstHits DEF Others
  <2>4. Tail(patterns) \in Seq(Path)
    BY <1>1, HeadTailProperties
  <2>5. ToTry' <=> AnyHits(Tail(patterns), Subject)
    <3>1. ToTry' <=>
            /\ Tail(patterns) # <<>>
            /\ \/ Means(Head(Tail(patterns)), LowerCopy(Subject))
               \/ Means(Head(Tail(patterns)), LowerCopy(FileName(Subject)))
               \/ \E k \in 2..Len(Tail(patterns)) : Hits(Tail(patterns)[k], Subject)
      BY <1>3, <2>1 DEF ToTry, OnSubject, Others, Pattern
    <3>. QED
      BY <2>4, <3>1, FreshToTry
  <2>. QED
    BY <1>2, <1>3, <2>1, <2>2, <2>3, <2>5 DEF AttemptsRight
<1>. QED
  BY <1>4, <1>5

(* Everything of a list is to try when it is taken up. *)
LEMMA BeginAttempts ==
  ASSUME NEW list \in Seq(Path), NEW path, patterns' = list, Begin(path), Subject' = path
  PROVE  /\ ToTry' <=> AnyHits(list, path)
         /\ value' = LowerCopy(Subject')
<1>1. value' = LowerCopy(path)
  BY DEF Begin
<1>2. ToTry' <=>
        /\ list # <<>>
        /\ \/ Means(Head(list), LowerCopy(path))
           \/ Means(Head(list), LowerCopy(FileName(path)))
           \/ \E k \in 2..Len(list) : Hits(list[k], path)
  BY <1>1 DEF ToTry, OnSubject, Others, Pattern
<1>. QED
  BY <1>1, <1>2, FreshToTry

LEMMA TryPathRight ==
  ASSUME FilterInv, TryPath
  PROVE  AttemptsRight'
<1>. DEFINE list == Mapped(LowerCopy, SplitPatterns(input.text))
<1>1. phase = "path" /\ relative # <<>> /\ input.text \in Path
  BY InputTypes DEF FilterInv, AttemptsRight, TryPath
<1>2. /\ pc' = "match" /\ input' = input /\ relative' = relative /\ phase' = phase
      /\ Subject' = relative /\ Texts' = input.text /\ patterns' = list /\ Begin(relative)
  BY <1>1 DEF TryPath, Subject, Texts
<1>3. list \in Seq(Path)
  BY <1>1, SplitPatternsType, PatternsType
<1>4. Excluded(input.text, relative) <=> AnyHits(list, relative)
  BY <1>1, ExcludedIs
<1>. HIDE DEF list
<1>5. (ToTry' <=> AnyHits(list, relative)) /\ value' = LowerCopy(Subject')
  BY <1>2, <1>3, BeginAttempts
<1>. QED
  BY <1>1, <1>2, <1>4, <1>5 DEF AttemptsRight

LEMMA TryProcessRight ==
  ASSUME FilterInv, TryProcess
  PROVE  AttemptsRight'
<1>. DEFINE list == IF input.requestor = <<>> THEN <<>>
                    ELSE Mapped(LowerCopy, SplitPatterns(input.programs))
<1>1. /\ relative # <<>> /\ input.programs \in Path
      /\ ~Excluded(input.text, relative)
  <2>1. pc = "match" /\ patterns = <<>> /\ phase = "path"
    BY DEF TryProcess
  <2>2. relative # <<>> /\ (Excluded(input.text, relative) <=> ToTry)
    BY <2>1 DEF FilterInv, AttemptsRight, Texts, Subject
  <2>. QED
    BY <2>1, <2>2, InputTypes DEF FilterInv, ToTry
<1>2. /\ pc' = "match" /\ input' = input /\ relative' = relative /\ phase' = "process"
      /\ Subject' = input.requestor /\ Texts' = input.programs /\ patterns' = list
      /\ Begin(input.requestor)
  BY DEF TryProcess, Subject, Texts
<1>3. list \in Seq(Path)
  <2>1. Mapped(LowerCopy, SplitPatterns(input.programs)) \in Seq(Path)
    BY <1>1, SplitPatternsType, PatternsType
  <2>2. <<>> \in Seq(Path)
    OBVIOUS
  <2>. QED
    BY <2>1, <2>2
<1>4. Excluded(input.programs, input.requestor) <=> AnyHits(list, input.requestor)
  <2>1. Len(<<>>) = 0 /\ ~AnyHits(<<>>, input.requestor)
    BY DEF AnyHits
  <2>. QED
    BY <1>1, <2>1, ExcludedIs
<1>. HIDE DEF list
<1>5. (ToTry' <=> AnyHits(list, input.requestor)) /\ value' = LowerCopy(Subject')
  BY <1>2, <1>3, BeginAttempts
<1>. QED
  BY <1>1, <1>2, <1>4, <1>5 DEF AttemptsRight

LEMMA FilterStep ==
  ASSUME FilterInv, [Next]_vars
  PROVE  FilterInv'
<1>t. Typed'
  BY TypedStep DEF FilterInv
<1>. SUFFICES MatcherRight' /\ AttemptsRight'
  BY <1>t DEF FilterInv
<1>1. CASE MapFails \/ DropEmpty \/ Decide \/ Match
  <2>1. pc' = "dropped" \/ pc' = "accepted"
    BY <1>1 DEF MapFails, DropEmpty, Decide, Match, Drop
  <2>. QED
    BY <2>1 DEF MatcherRight, AttemptsRight
<1>2. CASE MapPath
  BY <1>2 DEF MapPath, FilterInv, MatcherRight, AttemptsRight
<1>3. CASE TryPath
  BY <1>3, TryPathRight, InputTypes, BeginRight DEF TryPath
<1>4. CASE TryProcess
  BY <1>4, TryProcessRight, BeginRight DEF TryProcess
<1>5. CASE Advance \/ SeeStar \/ Backtrack \/ EndOfValue \/ SkipStar
  <2>1. /\ pc \in {"match", "tail"} /\ pc' \in {"match", "tail"}
        /\ UNCHANGED <<input, relative, phase, patterns, value>>
    BY <1>5 DEF Advance, SeeStar, Backtrack, EndOfValue, SkipStar, Stays, Matching
  <2>2. Subject' = Subject /\ Texts' = Texts /\ (ToTry' <=> ToTry)
    BY <2>1 DEF Subject, Texts, ToTry, Others, OnSubject, Pattern
  <2>3. AttemptsRight'
    BY <2>1, <2>2 DEF FilterInv, AttemptsRight
  <2>. QED
    BY <1>5, <2>3, MatcherStep
<1>6. CASE Mismatch \/ TailDiffers
  <2>1. TryNext /\ pc \in {"match", "tail"} /\ patterns # <<>>
    BY <1>6, TailIs DEF Mismatch, TailDiffers, Matching
  <2>2. AttemptsRight'
    BY <1>6, <2>1, FailsRight, TryNextRight
  <2>3. pc' # "tail" /\ \E v : Begin(v)
    BY <2>1 DEF TryNext
  <2>. QED
    BY <2>2, <2>3, BeginRight
<1>7. CASE UNCHANGED vars
  <2>1. Subject' = Subject /\ Texts' = Texts /\ (ToTry' <=> ToTry)
    BY <1>7 DEF Subject, Texts, ToTry, Others, OnSubject, Pattern, vars, matcher
  <2>. QED
    BY <1>7, <2>1 DEF vars, matcher, FilterInv, MatcherRight, AttemptsRight, Pattern
<1>. QED
  BY <1>1, <1>2, <1>3, <1>4, <1>5, <1>6, <1>7 DEF Next, Finished

LEMMA FilterInit == Init => FilterInv
BY TypedInit DEF Init, FilterInv, MatcherRight, AttemptsRight

(* When the event is decided it is for what the patterns mean. *)
LEMMA DecidedRight ==
  ASSUME FilterInv, FilterRight, [Next]_vars
  PROVE  FilterRight'
<1>1. CASE MapFails \/ DropEmpty
  <2>1. relative' = <<>>
    BY <1>1 DEF MapFails, DropEmpty, Drop, FilterInv, AttemptsRight
  <2>. QED
    BY <2>1 DEF FilterRight
<1>2. CASE Decide
  <2>1. /\ pc = "match" /\ patterns = <<>> /\ phase = "process"
        /\ pc' = IF input.directory THEN "dropped" ELSE "accepted"
        /\ input' = input /\ relative' = relative
    BY <1>2 DEF Decide
  <2>2. /\ ~Excluded(input.text, relative)
        /\ Excluded(input.programs, input.requestor) <=> ToTry
    BY <2>1 DEF FilterInv, AttemptsRight, Texts, Subject
  <2>3. ~ToTry
    BY <2>1 DEF ToTry
  <2>. QED
    BY <2>1, <2>2, <2>3 DEF FilterRight
<1>3. CASE Match
  <2>1. /\ pc = "tail" /\ pc' = "dropped" /\ ~(pat <= Len(Pattern))
        /\ input' = input /\ relative' = relative
    BY <1>3 DEF Match, Drop, InPattern
  <2>2. /\ Pattern \in Path /\ value \in Path /\ val \in 1..(Len(value) + 1)
        /\ pat = Len(Pattern) + 1 /\ val = Len(value) + 1 /\ patterns # <<>>
        /\ Means(Pattern, value) <=> Reaches(Pattern, pat, value, val)
    BY <2>1, TailIs
  <2>3. ToTry
    BY <2>2, ReachesEnd DEF ToTry
  <2>4. /\ Excluded(Texts, Subject)
    BY <2>1, <2>3 DEF FilterInv, AttemptsRight
  <2>5. Excluded(input.text, relative) \/ Excluded(input.programs, input.requestor)
    BY <2>4 DEF Texts, Subject
  <2>. QED
    BY <2>1, <2>5 DEF FilterRight
<1>4. CASE MapPath \/ TryPath \/ TryProcess \/ Advance \/ SeeStar \/ Backtrack \/ Mismatch
           \/ EndOfValue \/ SkipStar \/ TailDiffers
  <2>1. pc' \in {"filter", "match", "tail"}
    BY <1>4 DEF MapPath, TryPath, TryProcess, Advance, SeeStar, Backtrack, Mismatch,
                EndOfValue, SkipStar, TailDiffers, TryNext, Matching
  <2>. QED
    BY <2>1 DEF FilterRight, Done
<1>5. CASE UNCHANGED vars
  BY <1>5 DEF vars, matcher, FilterRight, Done
<1>. QED
  BY <1>1, <1>2, <1>3, <1>4, <1>5 DEF Next, Finished

(* An event on a path below the source is passed on exactly if it is no    *)
(* directory's and neither its path nor its process matches a pattern, in  *)
(* the sense of the share-out of the characters: the loop of               *)
(* wildcard_match_ignore_case, with the one star it can return to, and the *)
(* order in which lists, patterns and file names are tried lose no match.  *)
THEOREM FilterExact == Spec => []FilterRight
<1>1. Init => FilterRight
  BY DEF Init, FilterRight, Done
<1>. QED
  BY <1>1, FilterInit, FilterStep, DecidedRight, PTL DEF Spec

=============================================================================
