---------------------------- MODULE ReaderProofs ----------------------------
(***************************************************************************)
(* Facts about the map and the operations of the reader, for every         *)
(* container: the order of the entries, what an open lets through, and     *)
(* what a read and a seek of such a reader return.                         *)
(***************************************************************************)
EXTENDS DiskContent, FiniteSetTheorems, SequenceTheorems, TLAPS

----------------------------------------------------------------------------
(* The map: positions in order                                             *)

\* R is a strict total order on S.
StrictOrder(R, S) ==
    /\ \A i \in S : <<i, i>> \notin R
    /\ \A i, j \in S : i = j \/ <<i, j>> \in R \/ <<j, i>> \in R
    /\ \A i, j, k \in S : <<i, j>> \in R /\ <<j, k>> \in R => <<i, k>> \in R

Below(S, R, i) == {j \in S : <<j, i>> \in R}

\* Any two elements of a, which has n, are elements of s at positions in the
\* order R.
InOrder(a, n, s, S, R) ==
    \A k, l \in 1 .. n : k < l => \E i, j \in S : <<i, j>> \in R /\ a[k] = s[i] /\ a[l] = s[j]

\* A finite set has elements of every rank below its size: as many elements
\* come before an element as its place in the order.
LEMMA EveryRankTaken ==
    ASSUME NEW S, NEW R, IsFiniteSet(S), StrictOrder(R, S)
    PROVE  /\ Cardinality(S) \in Nat
           /\ \A k \in 1 .. Cardinality(S) :
                \E i \in S : Cardinality(Below(S, R, i)) = k - 1
           /\ \A i \in S : Cardinality(Below(S, R, i)) \in 0 .. Cardinality(S) - 1
           /\ \A i, j \in S : <<i, j>> \in R =>
                Cardinality(Below(S, R, i)) < Cardinality(Below(S, R, j))
<1> DEFINE n == Cardinality(S)
           rank == [i \in S |-> Cardinality(Below(S, R, i))]
<1>1. n \in Nat
  BY FS_CardinalityType
<1>2. \A i \in S : IsFiniteSet(Below(S, R, i)) /\ Cardinality(Below(S, R, i)) \in Nat
  <2> TAKE i \in S
  <2>1. Below(S, R, i) \in SUBSET S
    BY DEF Below
  <2> QED BY <2>1, FS_Subset, FS_CardinalityType
<1>3. \A i \in S : Cardinality(Below(S, R, i)) < n
  <2> TAKE i \in S
  <2>1. Below(S, R, i) \in SUBSET S /\ Below(S, R, i) # S
    BY DEF Below, StrictOrder
  <2> QED BY <2>1, <1>1, <1>2, FS_Subset
<1>4. \A i, j \in S : <<i, j>> \in R =>
         Cardinality(Below(S, R, i)) < Cardinality(Below(S, R, j))
  <2> SUFFICES ASSUME NEW i \in S, NEW j \in S, <<i, j>> \in R
               PROVE  Cardinality(Below(S, R, i)) < Cardinality(Below(S, R, j))
    OBVIOUS
  <2>1. Below(S, R, i) \in SUBSET Below(S, R, j) /\ Below(S, R, i) # Below(S, R, j)
    BY DEF Below, StrictOrder
  <2> QED BY <2>1, <1>2, FS_Subset
<1>5. rank \in Injection(S, 0 .. n - 1)
  <2>1. rank \in [S -> 0 .. n - 1]
    BY <1>1, <1>2, <1>3
  <2>2. \A i, j \in S : rank[i] = rank[j] => i = j
    <3> SUFFICES ASSUME NEW i \in S, NEW j \in S, i # j PROVE rank[i] # rank[j]
      OBVIOUS
    <3>1. rank[i] < rank[j] \/ rank[j] < rank[i]
      BY <1>4 DEF StrictOrder
    <3>2. rank[i] \in Nat /\ rank[j] \in Nat
      BY <1>2
    <3> QED BY <3>1, <3>2
  <2> QED BY <2>1, <2>2 DEF Injection, IsInjective
<1>6. IsFiniteSet(0 .. n - 1) /\ Cardinality(0 .. n - 1) = n
  BY <1>1, FS_Interval
<1>7. rank \in Surjection(S, 0 .. n - 1)
  BY <1>5, <1>6, FS_Injection
<1>8. ASSUME NEW k \in 1 .. n
      PROVE  \E i \in S : Cardinality(Below(S, R, i)) = k - 1
  <2>1. k - 1 \in 0 .. n - 1
    BY <1>1
  <2> QED BY <2>1, <1>7 DEF Surjection
<1>9. \A i \in S : Cardinality(Below(S, R, i)) \in 0 .. n - 1
  BY <1>1, <1>2, <1>3
<1> QED BY <1>1, <1>4, <1>8, <1>9

\* The n elements of a are those of s at the positions S, each once and in the
\* order R: at gives the position of each.
IsPlacing(at, a, n, s, S, R) ==
    /\ a = [k \in 1 .. n |-> s[at[k]]]
    /\ \A k, l \in 1 .. n : k < l => <<at[k], at[l]>> \in R
    /\ \A i \in S : \E k \in 1 .. n : at[k] = i

\* Arrange (the filter and the stable sort of parse_map_entries and the
\* filter of parse_idx) returns every element of the source once, in the order R.
LEMMA ArrangePlaces ==
    ASSUME NEW s, NEW S, NEW R, IsFiniteSet(S), StrictOrder(R, S)
    PROVE  \E at \in [1 .. Cardinality(S) -> S] :
              IsPlacing(at, Arrange(s, S, R), Cardinality(S), s, S, R)
<1> DEFINE n == Cardinality(S)
           at == [k \in 1 .. n |-> CHOOSE i \in S : Cardinality(Below(S, R, i)) = k - 1]
<1>1. n \in Nat
  BY EveryRankTaken
<1>2. \A k \in 1 .. n : at[k] \in S /\ Cardinality(Below(S, R, at[k])) = k - 1
  <2> TAKE k \in 1 .. n
  <2>1. \E i \in S : Cardinality(Below(S, R, i)) = k - 1
    BY EveryRankTaken
  <2> QED BY <2>1
<1>3. Arrange(s, S, R) = [k \in 1 .. n |-> s[at[k]]]
  BY DEF Arrange, Below
<1>4. at \in [1 .. n -> S]
  BY <1>2
<1> HIDE DEF n, at
<1>5. ASSUME NEW k \in 1 .. n, NEW l \in 1 .. n, k < l
      PROVE  <<at[k], at[l]>> \in R
  <2>1. at[k] \in S /\ at[l] \in S
    BY <1>2
  <2>2. /\ Cardinality(Below(S, R, at[k])) = k - 1
        /\ Cardinality(Below(S, R, at[l])) = l - 1
    BY <1>2
  <2>3. at[k] # at[l]
    BY <2>2, <1>1, <1>5
  <2>4. <<at[l], at[k]>> \notin R
    <3> SUFFICES ASSUME <<at[l], at[k]>> \in R PROVE FALSE
      OBVIOUS
    <3>1. Cardinality(Below(S, R, at[l])) < Cardinality(Below(S, R, at[k]))
      BY <2>1, EveryRankTaken
    <3> QED BY <3>1, <2>2, <1>1, <1>5
  <2> QED BY <2>1, <2>3, <2>4 DEF StrictOrder
<1>6. ASSUME NEW i \in S
      PROVE  \E k \in 1 .. n : at[k] = i
  <2> DEFINE r == Cardinality(Below(S, R, i))
  <2>1. r \in 0 .. n - 1
    BY EveryRankTaken DEF n
  <2> HIDE DEF r
  <2>2. r + 1 \in 1 .. n /\ (r + 1) - 1 = r
    BY <2>1, <1>1
  <2>3. at[r + 1] \in S /\ Cardinality(Below(S, R, at[r + 1])) = Cardinality(Below(S, R, i))
    BY <2>2, <1>2 DEF r
  <2>4. Cardinality(Below(S, R, i)) \in Int
    BY <2>1 DEF r
  <2>5. at[r + 1] = i
    <3> DEFINE j == at[r + 1]
    <3> HIDE DEF j
    <3>1. j \in S /\ Cardinality(Below(S, R, j)) = Cardinality(Below(S, R, i))
      BY <2>3 DEF j
    <3>2. <<i, j>> \notin R /\ <<j, i>> \notin R
      BY <3>1, <2>4, EveryRankTaken
    <3> QED BY <3>1, <3>2 DEF StrictOrder, j
  <2> QED BY <2>2, <2>5
<1>7. IsPlacing(at, Arrange(s, S, R), n, s, S, R)
  BY <1>3, <1>5, <1>6 DEF IsPlacing
<1> QED BY <1>4, <1>7 DEF n

\* So what it returns are elements of the source, in the order R.
LEMMA ArrangeOrdered ==
    ASSUME NEW s, NEW S, NEW R, IsFiniteSet(S), StrictOrder(R, S)
    PROVE  /\ DOMAIN Arrange(s, S, R) = 1 .. Cardinality(S)
           /\ Cardinality(S) \in Nat
           /\ Arrange(s, S, R) = [k \in 1 .. Cardinality(S) |-> Arrange(s, S, R)[k]]
           /\ \A k \in 1 .. Cardinality(S) : \E i \in S : Arrange(s, S, R)[k] = s[i]
           /\ InOrder(Arrange(s, S, R), Cardinality(S), s, S, R)
<1> DEFINE n == Cardinality(S)
           a == Arrange(s, S, R)
<1>1. PICK at \in [1 .. n -> S] : IsPlacing(at, a, n, s, S, R)
  BY ArrangePlaces
<1>2. n \in Nat
  BY FS_CardinalityType
<1> HIDE DEF n, a
<1>3. \A k \in 1 .. n : a[k] = s[at[k]] /\ at[k] \in S
  BY <1>1 DEF IsPlacing
<1>4. InOrder(a, n, s, S, R)
  BY <1>1, <1>3 DEF InOrder, IsPlacing
<1>5. DOMAIN a = 1 .. n /\ a = [k \in 1 .. n |-> a[k]]
  BY <1>1 DEF IsPlacing
<1> QED BY <1>1, <1>2, <1>3, <1>4, <1>5 DEF a, n

\* What Arrange returns is a sequence over the type of the source's elements.
LEMMA ArrangeTyped ==
    ASSUME NEW s, NEW S, NEW R, NEW T, IsFiniteSet(S), StrictOrder(R, S),
           \A i \in S : s[i] \in T
    PROVE  /\ Arrange(s, S, R) \in Seq(T)
           /\ Len(Arrange(s, S, R)) = Cardinality(S)
<1> DEFINE n == Cardinality(S)
           a == Arrange(s, S, R)
<1>1. n \in Nat /\ a = [k \in 1 .. n |-> a[k]]
  BY ArrangeOrdered
<1>2. \A k \in 1 .. n : a[k] \in T
  BY ArrangeOrdered
<1> HIDE DEF a, n
<1>3. a \in Seq(T) /\ Len(a) = n
  BY <1>1, <1>2
<1> QED BY <1>3 DEF a, n

----------------------------------------------------------------------------
\* The fields of a map entry are u64 values.
LEMMA MapEntryFields ==
    ASSUME NEW e \in MapEntry
    PROVE  /\ e.map_offset \in Nat /\ e.map_offset < Word
           /\ e.length \in Nat /\ e.length < Word
           /\ e.target_offset \in Nat /\ e.target_offset < Word
           /\ e.target_id \in Nat
BY WordAssumption DEF MapEntry, U64s

\* parse_map_entries delivers what the binary search of resolve needs: entries
\* sorted by map_offset, none of them empty.
LEMMA ParsedEntriesSorted ==
    ASSUME NEW raw \in Seq(MapEntry)
    PROVE  /\ ParseMapEntries(raw) \in Seq(MapEntry)
           /\ Sorted(ParseMapEntries(raw))
           /\ \A i \in 1 .. Len(ParseMapEntries(raw)) : ParseMapEntries(raw)[i].length > 0
<1> DEFINE S == Kept(raw)
           R == SortedBefore(raw)
           T == {e \in MapEntry : e.length > 0}
<1>1. IsFiniteSet(S)
  <2>1. S \in SUBSET (1 .. Len(raw))
    BY DEF Kept
  <2>2. IsFiniteSet(1 .. Len(raw))
    BY FS_Interval
  <2> QED BY <2>1, <2>2, FS_Subset
<1>2. \A i \in S : i \in Int /\ raw[i] \in MapEntry /\ raw[i].map_offset \in Int /\ raw[i].length > 0
  <2> SUFFICES ASSUME NEW i \in 1 .. Len(raw), raw[i].length > 0
               PROVE  i \in Int /\ raw[i] \in MapEntry /\ raw[i].map_offset \in Int
    BY DEF Kept
  <2>1. raw[i] \in MapEntry
    BY ElementOfSeq
  <2> QED BY <2>1, MapEntryFields
<1>3. \A i, j \in S : <<i, j>> \in R <=>
         \/ raw[i].map_offset < raw[j].map_offset
         \/ raw[i].map_offset = raw[j].map_offset /\ i < j
  BY DEF SortedBefore
<1> HIDE DEF S, R
<1>4. StrictOrder(R, S)
  <2>1. \A i \in S : <<i, i>> \notin R
    BY <1>2, <1>3
  <2>2. \A i, j \in S : i = j \/ <<i, j>> \in R \/ <<j, i>> \in R
    <3> SUFFICES ASSUME NEW i \in S, NEW j \in S, i # j
                 PROVE  <<i, j>> \in R \/ <<j, i>> \in R
      OBVIOUS
    <3>1. /\ i \in Int /\ j \in Int
          /\ raw[i].map_offset \in Int /\ raw[j].map_offset \in Int
      BY <1>2
    <3> QED BY <3>1, <1>3
  <2>3. \A i, j, k \in S : <<i, j>> \in R /\ <<j, k>> \in R => <<i, k>> \in R
    BY <1>2, <1>3
  <2> QED BY <2>1, <2>2, <2>3 DEF StrictOrder
<1>5. \A i \in S : raw[i] \in T
  BY <1>2
<1> DEFINE a == Arrange(raw, S, R)
<1> HIDE DEF T
<1>6. /\ a \in Seq(T)
      /\ Len(a) = Cardinality(S)
      /\ InOrder(a, Cardinality(S), raw, S, R)
  <2>1. a \in Seq(T) /\ Len(a) = Cardinality(S)
    BY <1>1, <1>4, <1>5, ArrangeTyped
  <2> QED BY <2>1, <1>1, <1>4, ArrangeOrdered
<1> HIDE DEF a
<1>7. a \in Seq(MapEntry) /\ \A i \in 1 .. Len(a) : a[i].length > 0
  <2>1. \A i \in 1 .. Len(a) : a[i] \in T
    BY <1>6, ElementOfSeq
  <2> QED BY <2>1, <1>6 DEF T
<1>8. Sorted(a)
  <2> SUFFICES ASSUME NEW k \in 1 .. Len(a), NEW l \in 1 .. Len(a), k < l
               PROVE  a[k].map_offset <= a[l].map_offset
    BY DEF Sorted
  <2> k \in 1 .. Cardinality(S) /\ l \in 1 .. Cardinality(S)
    BY <1>6
  <2>1. PICK i \in S, j \in S : <<i, j>> \in R /\ a[k] = raw[i] /\ a[l] = raw[j]
    BY <1>6 DEF InOrder
  <2> QED BY <2>1, <1>2, <1>3
<1> QED BY <1>7, <1>8 DEF a, S, R, ParseMapEntries

\* parse_idx gives every target_id of a non-blank line a kind.
LEMMA ParsedIdxTyped ==
    ASSUME NEW idx \in Seq(IdxLine), NEW arn
    PROVE  ParseIdx(idx, arn) \in Seq(TargetKind)
<1> DEFINE S == NonBlank(idx)
           R == Ascending(S)
           lines == Arrange(idx, S, R)
<1>1. IsFiniteSet(S)
  <2>1. S \in SUBSET (1 .. Len(idx))
    BY DEF NonBlank
  <2>2. IsFiniteSet(1 .. Len(idx))
    BY FS_Interval
  <2> QED BY <2>1, <2>2, FS_Subset
<1>2. \A i \in S : i \in Int /\ idx[i] \in IdxLine
  <2> SUFFICES ASSUME NEW i \in 1 .. Len(idx) PROVE i \in Int /\ idx[i] \in IdxLine
    BY DEF NonBlank
  <2> QED BY ElementOfSeq
<1>3. StrictOrder(R, S)
  BY <1>2 DEF StrictOrder, Ascending
<1>4. lines \in Seq(IdxLine) /\ Len(lines) = Cardinality(S)
  BY <1>1, <1>2, <1>3, ArrangeTyped
<1>5. \A line \in IdxLine : ClassifyTarget(line, arn) \in TargetKind
  BY DEF ClassifyTarget, IdxLine, TargetKind, Byte, NoHex, Fill, ImageStreamKind,
         UnknownKind, UnknownTile, UnreadableTile
<1>6. Cardinality(S) \in Nat
  BY <1>1, FS_CardinalityType
<1> HIDE DEF lines
<1>7. [i \in 1 .. Cardinality(S) |-> ClassifyTarget(lines[i], arn)] \in Seq(TargetKind)
  BY <1>4, <1>5, <1>6
<1> QED BY <1>7 DEF ParseIdx, lines

\* The partition point of resolve exists, on any entries.
LEMMA PartitionPointExists ==
    ASSUME NEW entries \in Seq(MapEntry), NEW pos \in Nat
    PROVE  LET k == PartitionPoint(entries, pos)
           IN  /\ k \in 0 .. Len(entries)
               /\ \A i \in 1 .. k : entries[i].map_offset <= pos
               /\ k < Len(entries) => entries[k + 1].map_offset > pos
<1> DEFINE n == Len(entries)
           T == {k \in 0 .. n : k < n => entries[k + 1].map_offset > pos}
<1>1. n \in Nat /\ \A i \in 1 .. n : entries[i].map_offset \in Int
  <2>1. \A i \in 1 .. n : entries[i] \in MapEntry
    BY ElementOfSeq
  <2> QED BY <2>1, MapEntryFields
<1>2. T \subseteq Nat /\ n \in T
  BY <1>1
<1>3. PICK k \in T : \A j \in T : ~(<<j, k>> \in OpToRel(<, Nat))
  <2> HIDE DEF T
  <2> QED BY <1>2, WFMin, NatLessThanWellFounded, Zenon
<1>4. k \in Nat /\ \A j \in T : j >= k
  <2>1. k \in Nat
    BY <1>2
  <2> SUFFICES ASSUME NEW j \in T, j < k PROVE FALSE
    BY <2>1, <1>2
  <2>2. j \in Nat
    BY <1>2
  <2>3. <<j, k>> \in OpToRel(<, Nat)
    BY <2>1, <2>2 DEF OpToRel
  <2> QED BY <2>3, <1>3
<1>5. \A i \in 1 .. k : entries[i].map_offset <= pos
  <2> SUFFICES ASSUME NEW i \in 1 .. k, entries[i].map_offset > pos PROVE FALSE
    BY <1>1
  <2>1. i - 1 \in T
    BY <1>1, <1>4
  <2>2. i \in Int
    BY <1>4
  <2>3. i <= k
    BY <1>4, <2>2
  <2> HIDE DEF T
  <2> QED BY <2>1, <2>2, <2>3, <1>4
<1>6. \E j \in 0 .. Len(entries) :
        /\ \A i \in 1 .. j : entries[i].map_offset <= pos
        /\ j < Len(entries) => entries[j + 1].map_offset > pos
  BY <1>5
<1> QED BY <1>6 DEF PartitionPoint

----------------------------------------------------------------------------
(* The operations of the reader                                            *)

\* The machine word splits in two halves.
LEMMA WordHalves ==
    /\ Word \in Nat \ {0}
    /\ SignBit \in Nat \ {0}
    /\ Word = 2 * SignBit
BY WordAssumption DEF SignBit

\* What a u64 can hold.
LEMMA BelowWord ==
    ASSUME NEW a \in Nat, a < Word
    PROVE  a \in U64s
BY WordHalves DEF U64s

\* u64 addition: exact, or one word too small.
LEMMA AddWraps ==
    ASSUME NEW a \in U64s, NEW b \in U64s
    PROVE  Add64(a, b) = IF a + b < Word THEN a + b ELSE a + b - Word
<1>1. a \in Nat /\ b \in Nat /\ a < Word /\ b < Word
  BY WordHalves DEF U64s
<1>2. CASE a + b < Word
  BY <1>1, <1>2, WordHalves DEF Add64
<1>3. CASE ~(a + b < Word)
  <2>1. a + b = Word * 1 + (a + b - Word) /\ a + b - Word \in 0 .. Word - 1
    BY <1>1, <1>3, WordHalves
  <2> QED BY <2>1, <1>1, <1>3, WordHalves DEF Add64
<1> QED BY <1>2, <1>3

\* The casts of Seek::seek stay in i64.
LEMMA CastsFit ==
    /\ \A a \in U64s : AsI64(a) \in -SignBit .. SignBit - 1
    /\ \A x \in Int : WrapI64(x) \in -SignBit .. SignBit - 1
<1>1. \A a \in U64s : AsI64(a) \in -SignBit .. SignBit - 1
  BY WordHalves DEF AsI64, U64s
<1>2. \A x \in Int : x % Word \in U64s
  BY WordHalves DEF U64s
<1> QED BY <1>1, <1>2 DEF WrapI64

\* Seek::seek leaves the cursor a u64, whatever it is asked for.
LEMMA SeekTyped ==
    ASSUME NEW rd, IsReader(rd), NEW pos \in U64s,
           NEW whence \in {"Start", "End", "Current"}, NEW n \in Int,
           whence = "Start" => n \in U64s
    PROVE  SeekOutcome(rd, pos, whence, n).pos \in U64s
<1>1. rd.virtual_size \in U64s
  BY DEF IsReader
<1>2. SeekSum(rd, pos, whence, n) \in Int
  BY <1>1, CastsFit DEF SeekSum
<1>3. WrapI64(SeekSum(rd, pos, whence, n)) \in -SignBit .. SignBit - 1
  BY <1>2, CastsFit
<1>4. WrapI64(SeekSum(rd, pos, whence, n)) >= 0 =>
         WrapI64(SeekSum(rd, pos, whence, n)) \in U64s
  BY <1>3, WordHalves DEF U64s
<1> QED BY <1>3, <1>4, WordHalves DEF SeekOutcome

----------------------------------------------------------------------------
\* A region that resolve may return.
IsRegion(r) ==
    /\ r.panics \in BOOLEAN
    /\ r.kind \in TargetKind
    /\ r.target_offset \in U64s
    /\ r.bytes_in_region \in Nat
    /\ ~r.panics => r.bytes_in_region > 0

\* A region built of a target, an offset and bytes left is a region, and so is the panic in its place.
LEMMA RegionTyped ==
    /\ IsRegion(RegionPanic)
    /\ \A kind \in TargetKind, q \in U64s, n \in Nat \ {0} : IsRegion(Region(kind, q, n))
<1>1. 0 \in U64s /\ UnknownKind \in TargetKind
  BY WordHalves DEF U64s, UnknownKind, TargetKind, Byte
<1> QED BY <1>1 DEF IsRegion, Region, RegionPanic

\* A position and the entry that starts before it: the offset in the entry
\* does not underflow, and an entry that is looked into has bytes left.
LEMMA ResolveTyped ==
    ASSUME NEW m, IsLoadedMap(m), NEW pos \in U64s, NEW size \in U64s
    PROVE  IsRegion(Resolve(m, pos, size))
<1> DEFINE idx == PartitionPoint(m.entries, pos)
           e == m.entries[idx]
           r == Resolve(m, pos, size)
<1>1. /\ m.entries \in Seq(MapEntry)
      /\ m.targets \in Seq(TargetKind)
      /\ m.gap_default \in TargetKind
  BY DEF IsLoadedMap, Fill, TargetKind, Byte
<1>2. /\ pos \in Nat
      /\ idx \in 0 .. Len(m.entries)
      /\ \A i \in 1 .. idx : m.entries[i].map_offset <= pos
  <2>1. pos \in Nat
    BY WordHalves DEF U64s
  <2> HIDE DEF e, r
  <2> QED BY ONLY <2>1, <1>1, PartitionPointExists DEF idx
<1>3. \A i \in 1 .. Len(m.entries) : m.entries[i] \in MapEntry
  BY <1>1, ElementOfSeq
<1>4. 0 \in U64s /\ UnknownKind \in TargetKind /\ Len(m.entries) \in Nat
  BY <1>1, WordHalves DEF U64s, UnknownKind, TargetKind, Byte
<1> HIDE DEF idx
<1>5. IsRegion(InGap(m, idx, pos, size))
  <2> DEFINE gap_end == IF idx < Len(m.entries) THEN m.entries[idx + 1].map_offset ELSE size
  <2>1. gap_end \in Nat
    <3>1. CASE idx < Len(m.entries)
      <4>1. m.entries[idx + 1] \in MapEntry
        BY <3>1, <1>2, <1>3, <1>4
      <4> QED BY <4>1, <3>1, MapEntryFields
    <3>2. CASE ~(idx < Len(m.entries))
      BY <3>2, WordHalves DEF U64s
    <3> QED BY <3>1, <3>2
  <2> HIDE DEF gap_end
  <2>2. Greatest(SaturatingSub(gap_end, pos), 1) \in Nat \ {0}
    BY <2>1, <1>2 DEF Greatest, SaturatingSub
  <2>3. InGap(m, idx, pos, size)
          = Region(m.gap_default, 0, Greatest(SaturatingSub(gap_end, pos), 1))
    BY DEF InGap, gap_end
  <2> QED BY <2>2, <2>3, <1>1, <1>4, RegionTyped
<1>6. CASE idx = 0
  <2>1. r = InGap(m, idx, pos, size)
    BY <1>6 DEF Resolve, idx
  <2> QED BY <2>1, <1>5
<1>7. CASE idx # 0
  <2>1. e \in MapEntry /\ e.map_offset <= pos
    BY <1>2, <1>3, <1>4, <1>7
  <2>2. /\ e.map_offset \in Nat /\ e.map_offset < Word
        /\ e.length \in Nat /\ e.length < Word
        /\ e.target_offset \in Nat
        /\ e.target_id \in Nat
    BY <2>1, MapEntryFields
  <2> HIDE DEF e
  <2>4. CASE AddPanics(e.map_offset, e.length)
    BY RegionTyped, <2>4, <1>7 DEF Resolve, idx, e
  <2>5. CASE ~AddPanics(e.map_offset, e.length) /\ ~(pos < Add64(e.map_offset, e.length))
    <3>1. r = InGap(m, idx, pos, size)
      BY <2>5, <1>7 DEF Resolve, idx, e
    <3> QED BY <3>1, <1>5
  <2>6. CASE ~AddPanics(e.map_offset, e.length) /\ pos < Add64(e.map_offset, e.length)
    <3>1. r = InEntry(m, e, pos)
      BY <2>6, <1>7 DEF Resolve, idx, e
    <3>2. pos < e.map_offset + e.length
      BY <2>2, <2>6, <1>2, AddWraps, WordHalves DEF U64s
    <3>3. e.length - (pos - e.map_offset) \in Nat \ {0}
      BY <3>2, <2>1, <2>2, <1>2
    <3>4. Add64(e.target_offset, pos - e.map_offset) \in U64s
      BY <2>1, <2>2, <1>2, WordHalves DEF Add64, U64s
    <3>5. KindOf(m, e) \in TargetKind
      BY <1>1, <1>4, ElementOfSeq DEF KindOf
    <3> QED BY <3>1, <3>3, <3>4, <3>5, RegionTyped DEF InEntry
  <2> QED BY <2>4, <2>5, <2>6
<1> QED BY <1>6, <1>7

----------------------------------------------------------------------------
\* A piece of a sequence.
LEMMA SliceTyped ==
    ASSUME NEW T, NEW s \in Seq(T), NEW a \in Nat, NEW b \in Nat, a <= b, b <= Len(s)
    PROVE  /\ Slice(s, a, b) \in Seq(T)
           /\ Len(Slice(s, a, b)) = b - a
           /\ \A i \in 1 .. b - a : Slice(s, a, b)[i] = s[a + i]
<1>1. a + 1 \in 1 .. Len(s) + 1 /\ b \in a .. Len(s)
  OBVIOUS
<1>2. /\ SubSeq(s, a + 1, b) \in Seq(T)
      /\ Len(SubSeq(s, a + 1, b)) = IF a + 1 <= b THEN b - (a + 1) + 1 ELSE 0
      /\ \A i \in 1 .. b - (a + 1) + 1 : SubSeq(s, a + 1, b)[i] = s[(a + 1) + i - 1]
  BY <1>1, SubSeqProperties
<1>3. \A i \in 1 .. b - a : s[(a + 1) + i - 1] = s[a + i]
  OBVIOUS
<1> QED BY <1>2, <1>3 DEF Slice

\* The first bytes of a sequence.
LEMMA PrefixTyped ==
    ASSUME NEW T, NEW s \in Seq(T), NEW a \in Nat, a <= Len(s)
    PROVE  /\ SubSeq(s, 1, a) \in Seq(T)
           /\ Len(SubSeq(s, 1, a)) = a
           /\ \A i \in 1 .. a : SubSeq(s, 1, a)[i] = s[i]
BY SubSeqProperties

\* A prefix of a content grows by the piece that comes next.
LEMMA PrefixGrows ==
    ASSUME NEW T, NEW plain \in Seq(T), NEW a \in Nat, NEW n \in Nat, a + n <= Len(plain),
           NEW piece \in Seq(T), Len(piece) = n, \A i \in 1 .. n : piece[i] = plain[a + i]
    PROVE  SubSeq(plain, 1, a) \o piece = SubSeq(plain, 1, a + n)
<1> DEFINE s == SubSeq(plain, 1, a)
           t == SubSeq(plain, 1, a + n)
<1>1. s \in Seq(T) /\ Len(s) = a /\ \A i \in 1 .. a : s[i] = plain[i]
  BY SubSeqProperties
<1>2. t \in Seq(T) /\ Len(t) = a + n /\ \A i \in 1 .. a + n : t[i] = plain[i]
  BY SubSeqProperties
<1> HIDE DEF s, t
<1>3. /\ s \o piece \in Seq(T) /\ Len(s \o piece) = a + n
      /\ \A i \in 1 .. a + n : (s \o piece)[i] = IF i <= a THEN s[i] ELSE piece[i - a]
  BY <1>1, ConcatProperties
<1>4. ASSUME NEW i \in 1 .. a + n
      PROVE  (s \o piece)[i] = t[i]
  <2>1. CASE i <= a
    BY <2>1, <1>1, <1>2, <1>3
  <2>2. CASE ~(i <= a)
    <3>1. i - a \in 1 .. n /\ a + (i - a) = i
      BY <2>2
    <3> QED BY <3>1, <2>2, <1>2, <1>3
  <2> QED BY <2>1, <2>2
<1>5. s \o piece = t
  BY <1>2, <1>3, <1>4, SeqEqual
<1> QED BY <1>5 DEF s, t

\* The quotient and the remainder by a positive number.
LEMMA DivMod ==
    ASSUME NEW q \in Nat, NEW d \in Nat \ {0}
    PROVE  /\ q \div d \in Nat
           /\ q % d \in 0 .. d - 1
           /\ q = d * (q \div d) + (q % d)
OBVIOUS

\* A chunk below the number of chunks begins inside the stream, and behind the
\* last one the stream has ended.
LEMMA ChunkStarts ==
    ASSUME NEW size \in Nat, NEW d \in Nat \ {0}, NEW c \in Nat
    PROVE  /\ (size + d - 1) \div d \in Nat
           /\ c * d \in Nat /\ (c + 1) * d = c * d + d
           /\ c < (size + d - 1) \div d => c * d < size
           /\ c >= (size + d - 1) \div d => c * d >= size
<1> DEFINE q == size + d - 1
           n == q \div d
<1>1. q \in Nat
  OBVIOUS
<1>2. n \in Nat /\ q % d \in 0 .. d - 1 /\ q = d * n + (q % d)
  BY <1>1, DivMod
<1> HIDE DEF n
<1>3. c * d \in Nat /\ (c + 1) * d = c * d + d /\ d * n \in Nat
  BY <1>2
<1>4. ASSUME c < n PROVE c * d < size
  <2>1. (c + 1) * d <= n * d
    BY <1>2, <1>4
  <2> QED BY <2>1, <1>2, <1>3
<1>5. ASSUME c >= n PROVE c * d >= size
  <2>1. n * d <= c * d
    BY <1>2, <1>5
  <2> QED BY <2>1, <1>2, <1>3
<1> QED BY <1>2, <1>3, <1>4, <1>5 DEF n

\* A chunk that is read is bytes, whatever the index, the bevy and the
\* decoder give.
LEMMA ReadChunkTyped ==
    ASSUME NEW rd, IsReader(rd), NEW c \in Nat
    PROVE  /\ ReadChunk(rd, c).ok \in BOOLEAN
           /\ ReadChunk(rd, c).ok => ReadChunk(rd, c).val \in Seq(Byte)
<1> DEFINE seg == c \div rd.chunks_per_segment
           k == c % rd.chunks_per_segment
           bounds == ChunkBoundsFromIndex(rd.index[seg], k)
           b == bounds.val
<1>1. /\ rd.chunk_size \in Nat \ {0} /\ rd.chunks_per_segment \in Nat \ {0}
      /\ rd.compression \in Compression
  BY WordHalves DEF IsReader, U64s
<1>2. seg \in Nat /\ k \in Nat
  <2>1. \A d \in Nat \ {0} : c \div d \in Nat /\ c % d \in Nat
    BY DivMod
  <2> QED BY <2>1, <1>1
<1> HIDE DEF seg, k
<1>3. ASSUME seg \in DOMAIN rd.index, bounds.ok
      PROVE  b.start \in Nat /\ b.end \in Nat /\ b.start <= b.end
  <2>1. rd.index[seg] \in Seq(IndexEntry)
    BY <1>3 DEF IsReader
  <2>2. k + 1 \in 1 .. Len(rd.index[seg])
    BY <2>1, <1>2, <1>3 DEF ChunkBoundsFromIndex, Err
  <2>3. rd.index[seg][k + 1] \in IndexEntry
    BY <2>1, <2>2, ElementOfSeq
  <2> DEFINE e == rd.index[seg][k + 1]
  <2>4. b = [start |-> e.offset, end |-> e.offset + e.length]
    BY <2>2, <1>2, <1>3 DEF ChunkBoundsFromIndex, Err, Ok
  <2>5. e.offset \in Nat /\ e.length \in Nat
    BY <2>3, WordHalves DEF IndexEntry, U64s
  <2> QED BY <2>4, <2>5
<1>4. \A stored \in Seq(Byte) :
         /\ DecodeChunk(rd, stored).ok \in BOOLEAN
         /\ DecodeChunk(rd, stored).ok => DecodeChunk(rd, stored).val \in Seq(Byte)
  BY <1>1, CodecAssumption DEF DecodeChunk, Ok, Err
<1>5. Zeros(rd.chunk_size) \in Seq(Byte)
  BY <1>1 DEF Zeros, Byte
<1>6. ASSUME seg \in DOMAIN rd.index, bounds.ok, seg \in DOMAIN rd.bevy,
             ~(b.end > Len(rd.bevy[seg]))
      PROVE  Slice(rd.bevy[seg], b.start, b.end) \in Seq(Byte)
  <2>1. rd.bevy[seg] \in Seq(Byte)
    BY <1>6 DEF IsReader
  <2>2. b.end <= Len(rd.bevy[seg])
    BY <2>1, <1>3, <1>6
  <2> HIDE DEF b, bounds
  <2> QED BY <2>1, <2>2, <1>3, <1>6, SliceTyped
<1> HIDE DEF b
<1>7. bounds.ok \in BOOLEAN
  BY DEF ChunkBoundsFromIndex, Ok, Err
<1> DEFINE o == ReadChunk(rd, c)
<1>8. CASE seg \notin DOMAIN rd.index \/ ~bounds.ok
  <2>1. o.ok = FALSE
    BY <1>8 DEF ReadChunk, seg, k, Err, ChunkBoundsFromIndex, Ok
  <2> QED BY <2>1
<1>9. CASE seg \in DOMAIN rd.index /\ bounds.ok
  <2> HIDE DEF bounds
  <2>1. o = IF b.start = b.end THEN Ok(Zeros(rd.chunk_size))
            ELSE IF seg \notin DOMAIN rd.bevy THEN Err("Zip")
            ELSE IF b.end > Len(rd.bevy[seg]) THEN Err("BadFormat")
            ELSE DecodeChunk(rd, Slice(rd.bevy[seg], b.start, b.end))
    BY <1>9 DEF ReadChunk, seg, k, b, bounds
  <2> HIDE DEF o
  <2>2. /\ Ok(Zeros(rd.chunk_size)).ok = TRUE
        /\ Ok(Zeros(rd.chunk_size)).val \in Seq(Byte)
        /\ Err("Zip").ok = FALSE /\ Err("BadFormat").ok = FALSE
    BY <1>5 DEF Ok, Err
  <2>3. o.ok \in BOOLEAN /\ (o.ok => o.val \in Seq(Byte))
    BY <2>1, <2>2, <1>4, <1>6, <1>9
  <2> QED BY <2>3 DEF o
<1> QED BY <1>7, <1>8, <1>9

----------------------------------------------------------------------------
\* What one read may return: bytes, no more than fit the buffer, and none
\* when it fails.
IsAnswer(o, most) ==
    /\ o.res \in {"ok", "err", "panic"}
    /\ o.bytes \in Seq(Byte)
    /\ Len(o.bytes) <= most
    /\ o.res # "ok" => o.bytes = <<>>

\* A failure, an empty answer and an answer that fits the buffer are answers of a read.
LEMMA AnswerTyped ==
    ASSUME NEW most \in Nat
    PROVE  /\ \A res \in {"err", "panic"} : IsAnswer(Fails(res), most)
           /\ \A bytes \in Seq(Byte) : Len(bytes) <= most => IsAnswer(Returns(bytes), most)
           /\ IsAnswer(Returns(<<>>), most)
BY DEF IsAnswer, Returns, Fails

\* Bytes listed by position are a sequence.
LEMMA BytesTyped ==
    ASSUME NEW n \in Nat, NEW f, f = [i \in 1 .. n |-> f[i]], \A i \in 1 .. n : f[i] \in Byte
    PROVE  f \in Seq(Byte) /\ Len(f) = n
OBVIOUS

\* The tiles are made of bytes.
LEMMA TileTyped ==
    ASSUME NEW kind, NEW p \in Nat
    PROVE  ByteAt(kind, p) \in Byte
<1>1. /\ Seed(kind) \in Seq(Byte)
      /\ Len(Seed(kind)) \in Nat \ {0}
  <2>1. <<85, 78, 75, 78, 79, 87, 78>> \in Seq(Byte)
    BY DEF Byte
  <2>2. <<85, 78, 82, 69, 65, 68, 65, 66, 76, 69, 68, 65, 84, 65>> \in Seq(Byte)
    BY DEF Byte
  <2> QED BY <2>1, <2>2 DEF Seed
<1>2. p % TileSize \in Nat
  BY TileAssumption, DivMod
<1>3. (p % TileSize) % Len(Seed(kind)) \in 0 .. Len(Seed(kind)) - 1
  BY <1>1, <1>2, DivMod
<1>4. ((p % TileSize) % Len(Seed(kind))) + 1 \in 1 .. Len(Seed(kind))
  BY <1>1, <1>3
<1> QED BY <1>1, <1>4, ElementOfSeq DEF ByteAt

\* A read inside the ImageStream returns part of one chunk.
LEMMA ChunkBytesTyped ==
    ASSUME NEW rd, IsReader(rd), NEW r, IsRegion(r), NEW to_read \in Nat
    PROVE  IsAnswer(ChunkBytes(rd, r, to_read), to_read)
<1> DEFINE c == r.target_offset \div rd.chunk_size
           skip == r.target_offset % rd.chunk_size
           chunk == ReadChunk(rd, c)
           available == Least(SaturatingSub(Len(chunk.val), skip), r.bytes_in_region)
           n == Least(to_read, available)
<1>1. c \in Nat /\ skip \in Nat
  <2>1. r.target_offset \in Nat /\ rd.chunk_size \in Nat \ {0}
    BY WordHalves DEF IsRegion, IsReader, U64s
  <2>2. \A q \in Nat, d \in Nat \ {0} : q \div d \in Nat /\ q % d \in Nat
    BY DivMod
  <2> QED BY <2>1, <2>2
<1> HIDE DEF c, skip
<1>2. chunk.ok \in BOOLEAN /\ (chunk.ok => chunk.val \in Seq(Byte))
  BY <1>1, ReadChunkTyped
<1>3. ChunkBytes(rd, r, to_read)
         = IF ~chunk.ok THEN Fails("err") ELSE Returns(Slice(chunk.val, skip, skip + n))
  BY DEF ChunkBytes, c, skip
<1> HIDE DEF chunk
<1>4. CASE ~chunk.ok
  BY <1>3, <1>4, AnswerTyped
<1>5. CASE chunk.ok
  <2>1. chunk.val \in Seq(Byte) /\ Len(chunk.val) \in Nat
    BY <1>2, <1>5
  <2>2. r.bytes_in_region \in Nat
    BY DEF IsRegion
  <2>3. n \in Nat /\ n <= to_read /\ n <= SaturatingSub(Len(chunk.val), skip)
    BY <2>1, <2>2, <1>1 DEF Least, SaturatingSub
  <2> HIDE DEF n
  <2>4. CASE n = 0
    <3>1. Slice(chunk.val, skip, skip + n) = <<>>
      BY <2>1, <2>4, <1>1, SubSeqProperties, EmptySeq DEF Slice
    <3> QED BY <3>1, <1>3, <1>5, AnswerTyped
  <2>5. CASE n # 0
    <3>1. skip + n <= Len(chunk.val)
      BY <2>1, <2>3, <2>5, <1>1 DEF SaturatingSub
    <3>2. /\ Slice(chunk.val, skip, skip + n) \in Seq(Byte)
          /\ Len(Slice(chunk.val, skip, skip + n)) = (skip + n) - skip
      <4>1. skip + n \in Nat /\ skip <= skip + n
        BY <2>3, <1>1
      <4> DEFINE end == skip + n
      <4>2. end \in Nat /\ skip <= end /\ end <= Len(chunk.val)
        BY <3>1, <4>1
      <4> HIDE DEF end
      <4>3. Slice(chunk.val, skip, end) \in Seq(Byte) /\ Len(Slice(chunk.val, skip, end)) = end - skip
        <5>1. \A s \in Seq(Byte), a, b \in Nat : a <= b /\ b <= Len(s) =>
                 Slice(s, a, b) \in Seq(Byte) /\ Len(Slice(s, a, b)) = b - a
          BY SliceTyped
        <5> QED BY <5>1, <4>2, <2>1, <1>1
      <4> QED BY <4>3 DEF end
    <3>3. (skip + n) - skip <= to_read
      BY <2>3, <1>1
    <3> QED BY <3>2, <3>3, <1>3, <1>5, AnswerTyped
  <2> QED BY <2>4, <2>5
<1> QED BY <1>2, <1>4, <1>5

\* A read inside a symbolic tile.
LEMMA TileBytesTyped ==
    ASSUME NEW r, IsRegion(r), NEW n \in Nat
    PROVE  IsAnswer(TileBytes(r, n), n)
<1> DEFINE bytes == [i \in 1 .. n |-> ByteAt(r.kind, Add64(r.target_offset, i - 1))]
<1>1. \A i \in 1 .. n : bytes[i] \in Byte
  <2> SUFFICES ASSUME NEW i \in 1 .. n PROVE ByteAt(r.kind, Add64(r.target_offset, i - 1)) \in Byte
    OBVIOUS
  <2>1. r.target_offset + (i - 1) \in Nat
    BY WordHalves DEF IsRegion, U64s
  <2>2. Add64(r.target_offset, i - 1) \in Nat
    BY <2>1, WordHalves, DivMod DEF Add64
  <2> QED BY <2>2, TileTyped
<1>2. bytes \in Seq(Byte) /\ Len(bytes) = n
  BY <1>1
<1>3. IsAnswer(Returns(bytes), n) /\ IsAnswer(Fails("panic"), n)
  BY <1>2, AnswerTyped
<1> QED BY <1>3 DEF TileBytes

\* Read::read returns at most the bytes that fit the buffer and the disk.
LEMMA ReadTyped ==
    ASSUME NEW rd, IsReader(rd), NEW pos \in U64s, NEW len \in Nat
    PROVE  /\ IsAnswer(ReadOutcome(rd, pos, len), len)
           /\ pos + Len(ReadOutcome(rd, pos, len).bytes) \in U64s
<1> DEFINE to_read == Least(len, rd.virtual_size - pos)
           r == RegionAt(rd, pos)
           n == Least(to_read, r.bytes_in_region)
           o == ReadOutcome(rd, pos, len)
<1>1. /\ pos \in Nat /\ rd.virtual_size \in Nat /\ rd.virtual_size < Word
      /\ rd.virtual_size \in U64s /\ rd.mapped \in BOOLEAN /\ IsLoadedMap(rd.loaded_map)
  BY WordHalves DEF IsReader, U64s
<1>2. CASE len = 0 \/ pos >= rd.virtual_size
  <2>1. o = Returns(<<>>)
    BY <1>2 DEF ReadOutcome
  <2>2. IsAnswer(o, len) /\ Len(o.bytes) = 0
    BY <2>1, AnswerTyped DEF Returns
  <2> QED BY <2>2, <1>1
<1>3. CASE ~(len = 0 \/ pos >= rd.virtual_size)
  <2>1. to_read \in Nat /\ to_read <= len /\ pos + to_read < Word
    <3>1. pos < rd.virtual_size /\ rd.virtual_size - pos \in Nat
      BY <1>1, <1>3
    <3> DEFINE left == rd.virtual_size - pos
    <3>2. left \in Nat /\ pos + left < Word
      BY <3>1, <1>1
    <3> HIDE DEF left
    <3>3. Least(len, left) \in Nat /\ Least(len, left) <= len /\ Least(len, left) <= left
      BY <3>2 DEF Least
    <3>4. pos + Least(len, left) < Word
      BY <3>2, <3>3, <1>1, WordHalves
    <3> QED BY <3>3, <3>4 DEF left
  <2>2. IsRegion(r)
    <3>1. Word - 1 \in Nat \ {0} /\ ImageStreamKind \in TargetKind
      BY WordHalves, WordAssumption DEF SignBit, ImageStreamKind, TargetKind, Byte
    <3>2. IsRegion(Region(ImageStreamKind, pos, Word - 1))
      BY <3>1, RegionTyped
    <3>3. IsRegion(Resolve(rd.loaded_map, pos, rd.virtual_size))
      BY <1>1, ResolveTyped
    <3> QED BY <3>2, <3>3 DEF RegionAt
  <2> HIDE DEF r, to_read
  <2>3. n \in Nat /\ n <= to_read
    BY <2>1, <2>2 DEF IsRegion, Least
  <2>4. IsAnswer(o, to_read)
    <3>1. IsAnswer(Fails("panic"), to_read)
      BY <2>1, AnswerTyped
    <3>2. IsAnswer(ChunkBytes(rd, r, to_read), to_read)
      BY <2>1, <2>2, ChunkBytesTyped
    <3>3. IsAnswer(TileBytes(r, n), to_read)
      <4>1. IsAnswer(TileBytes(r, n), n)
        BY <2>2, <2>3, TileBytesTyped
      <4> QED BY <4>1, <2>1, <2>3 DEF IsAnswer
    <3>4. IsAnswer(Returns([i \in 1 .. n |-> r.kind.byte]), to_read)
      <4>1. r.kind.byte \in Byte
        BY <2>2 DEF IsRegion, TargetKind
      <4>2. [i \in 1 .. n |-> r.kind.byte] \in Seq(Byte) /\ Len([i \in 1 .. n |-> r.kind.byte]) = n
        BY <4>1, <2>3
      <4> QED BY <4>2, <2>1, <2>3, AnswerTyped
    <3>5. o = IF r.panics THEN Fails("panic")
              ELSE IF r.kind = ImageStreamKind THEN ChunkBytes(rd, r, to_read)
              ELSE IF r.kind \in {UnknownTile, UnreadableTile} THEN TileBytes(r, n)
              ELSE Returns([i \in 1 .. n |-> r.kind.byte])
      BY <1>3 DEF ReadOutcome, to_read, r
    <3> HIDE DEF o, n
    <3> QED BY <3>1, <3>2, <3>3, <3>4, <3>5, Zenon
  <2> HIDE DEF o
  <2>5. IsAnswer(o, len)
    BY <2>4, <2>1 DEF IsAnswer
  <2>6. pos + Len(o.bytes) \in U64s
    <3>1. Len(o.bytes) \in Nat /\ Len(o.bytes) <= to_read
      BY <2>4 DEF IsAnswer
    <3> DEFINE k == Len(o.bytes)
    <3> HIDE DEF k
    <3>2. k \in Nat /\ k <= to_read
      BY <3>1 DEF k
    <3>3. pos + k \in U64s
      BY <3>2, <2>1, <1>1, WordHalves DEF U64s
    <3> QED BY <3>3 DEF k
  <2> QED BY <2>5, <2>6 DEF o
<1> QED BY <1>2, <1>3

----------------------------------------------------------------------------
\* parse_image_stream_block and its callers: the geometry of an image whose
\* turtle parses.
IsMeta(meta) ==
    /\ meta.virtual_size \in U64s
    /\ meta.image_stream_size \in U64s
    /\ meta.chunk_size \in U64s \ {0}
    /\ meta.chunks_per_segment \in U64s \ {0}
    /\ meta.compression \in Compression
    /\ meta.map_meta.mapped \in BOOLEAN
    /\ meta.map_meta.gap_ff \in BOOLEAN
    /\ ~meta.map_meta.mapped => meta.virtual_size = meta.image_stream_size
    /\ meta.image_hashes \in Seq(Digest)

IsMapMeta(mm) == mm.mapped \in BOOLEAN /\ mm.gap_ff \in BOOLEAN /\ (mm.mapped => mm.size \in U64s)

\* What parse_image_stream_block accepts has a non-zero geometry.
LEMMA ImageStreamBlockTyped ==
    ASSUME NEW block \in TurtleBlock, NEW mm, IsMapMeta(mm)
    PROVE  /\ ParseImageStreamBlock(block, mm).ok \in BOOLEAN
           /\ ParseImageStreamBlock(block, mm).ok => IsMeta(ParseImageStreamBlock(block, mm).val)
<1> DEFINE o == ParseImageStreamBlock(block, mm)
           meta == [stream_arn |-> block.iri,
                    virtual_size |-> IF mm.mapped THEN mm.size ELSE block.size,
                    image_stream_size |-> block.size,
                    chunk_size |-> block.chunkSize,
                    chunks_per_segment |-> block.chunksInSegment,
                    compression |-> DetectCompression(block),
                    image_hashes |-> block.hashes,
                    map_meta |-> mm]
<1>1. CASE o.ok = FALSE
  BY <1>1
<1>2. CASE o.ok # FALSE
  <2>1. /\ o = Ok(meta)
        /\ block.chunkSize \notin {NoNumber, 0}
        /\ block.chunksInSegment \notin {NoNumber, 0}
        /\ block.size # NoNumber
    BY <1>2 DEF ParseImageStreamBlock, Err
  <2>2. /\ block.chunkSize \in U64s \cup {NoNumber}
        /\ block.chunksInSegment \in U64s \cup {NoNumber}
        /\ block.size \in U64s \cup {NoNumber}
        /\ block.hashes \in Seq(Digest)
    BY DEF TurtleBlock
  <2>3. DetectCompression(block) \in Compression
    BY DEF DetectCompression, Compression
  <2>4. IsMeta(meta)
    BY <2>1, <2>2, <2>3 DEF IsMeta, IsMapMeta
  <2> QED BY <2>1, <2>4 DEF Ok
<1> QED BY <1>1, <1>2

\* The first of some positions.
LEMMA LeastTaken ==
    ASSUME NEW n \in Nat, NEW S, S \subseteq 1 .. n, S # {}
    PROVE  LET f == CHOOSE i \in S : \A j \in S : i <= j
           IN  f \in S /\ \A j \in S : f <= j
<1>1. S \subseteq Nat /\ \E i \in S : i \in S
  <2>1. 1 .. n \subseteq Nat
    OBVIOUS
  <2> QED BY <2>1
<1>2. PICK i \in S : \A j \in S : ~(<<j, i>> \in OpToRel(<, Nat))
  BY <1>1, WFMin, NatLessThanWellFounded, Zenon
<1>3. \A j \in S : i <= j
  <2> SUFFICES ASSUME NEW j \in S, j < i PROVE FALSE
    BY <1>1
  <2>1. <<j, i>> \in OpToRel(<, Nat)
    BY <1>1 DEF OpToRel
  <2> QED BY <2>1, <1>2
<1> QED BY <1>3

\* The first of some blocks is the one at its position.
LEMMA FirstOfTaken ==
    ASSUME NEW blocks, NEW n \in Nat, NEW S, S \subseteq 1 .. n, S # {}
    PROVE  \E i \in S : FirstOf(blocks, S) = blocks[i]
<1> DEFINE f == CHOOSE i \in S : \A j \in S : i <= j
<1>1. f \in S
  BY LeastTaken
<1> HIDE DEF f
<1>2. FirstOf(blocks, S) = blocks[f]
  BY DEF FirstOf, f
<1> QED BY <1>1, <1>2

\* It is a block.
LEMMA FirstOfTyped ==
    ASSUME NEW blocks \in Seq(TurtleBlock), NEW S, S \subseteq 1 .. Len(blocks), S # {}
    PROVE  FirstOf(blocks, S) \in TurtleBlock
<1>1. Len(blocks) \in Nat
  OBVIOUS
<1>2. PICK i \in S : FirstOf(blocks, S) = blocks[i]
  BY <1>1, FirstOfTaken
<1>3. i \in 1 .. Len(blocks)
  OBVIOUS
<1> QED BY <1>2, <1>3, ElementOfSeq

\* parse_turtle lets only such geometry through, from any turtle.
LEMMA ParseTurtleTyped ==
    ASSUME NEW blocks \in Seq(TurtleBlock)
    PROVE  /\ ParseTurtle(blocks).ok \in BOOLEAN
           /\ ParseTurtle(blocks).ok => IsMeta(ParseTurtle(blocks).val)
<1> DEFINE Good(o) == o.ok \in BOOLEAN /\ (o.ok => IsMeta(o.val))
<1>1. \A e : Good(Err(e))
  BY DEF Err
<1>2. ASSUME NEW S, S \subseteq 1 .. Len(blocks), S # {}, NEW mm, IsMapMeta(mm)
      PROVE  Good(ParseImageStreamBlock(FirstOf(blocks, S), mm))
  <2>1. FirstOf(blocks, S) \in TurtleBlock
    BY <1>2, FirstOfTyped
  <2> QED BY <2>1, <1>2, ImageStreamBlockTyped
<1>3. \A w : WithWord(blocks, w) \subseteq 1 .. Len(blocks)
  BY DEF WithWord
<1>4. IsMapMeta(NoMap)
  BY DEF IsMapMeta, NoMap
<1>5. ASSUME WithWord(blocks, "aff4:Map") # {}
      PROVE  Good(ParseMapTurtle(blocks, FirstOf(blocks, WithWord(blocks, "aff4:Map"))))
  <2> DEFINE map_block == FirstOf(blocks, WithWord(blocks, "aff4:Map"))
             candidates == DependentBlocks(blocks, map_block.dependentStream)
             mm == [mapped |-> TRUE, map_arn |-> map_block.iri,
                    image_stream_arn |-> map_block.dependentStream,
                    gap_ff |-> "SymbolicStreamFF" \in map_block.words, size |-> map_block.size]
  <2>1. map_block \in TurtleBlock
    BY <1>3, <1>5, FirstOfTyped
  <2>2. candidates \subseteq 1 .. Len(blocks)
    BY <1>3 DEF DependentBlocks
  <2> HIDE DEF map_block, candidates
  <2>3. CASE \/ map_block.iri = NoArn
             \/ map_block.size = NoNumber
             \/ map_block.dependentStream = NoArn
             \/ candidates = {}
    <3>1. ParseMapTurtle(blocks, map_block) = Err("BadFormat")
      BY <2>3 DEF ParseMapTurtle, candidates
    <3> QED BY <3>1, <1>1 DEF map_block
  <2>4. CASE ~(\/ map_block.iri = NoArn
               \/ map_block.size = NoNumber
               \/ map_block.dependentStream = NoArn
               \/ candidates = {})
    <3>1. map_block.size \in U64s
      BY <2>1, <2>4 DEF TurtleBlock
    <3>2. IsMapMeta(mm)
      BY <3>1 DEF IsMapMeta
    <3>3. ParseMapTurtle(blocks, map_block)
            = ParseImageStreamBlock(FirstOf(blocks, candidates), mm)
      BY <2>4 DEF ParseMapTurtle, candidates
    <3> HIDE DEF mm, Good
    <3>4. Good(ParseImageStreamBlock(FirstOf(blocks, candidates), mm))
      BY <1>2, <2>2, <2>4, <3>2
    <3> QED BY <3>3, <3>4 DEF map_block
  <2> QED BY <2>3, <2>4
<1>6. ASSUME WithWord(blocks, "ImageStream") # {}
      PROVE  Good(ParseImageStreamBlock(FirstOf(blocks, WithWord(blocks, "ImageStream")), NoMap))
  <2> HIDE DEF Good
  <2> QED BY <1>2, <1>3, <1>4, <1>6
<1> HIDE DEF Good
<1>7. Good(ParseTurtle(blocks))
  BY <1>1, <1>5, <1>6 DEF ParseTurtle
<1> QED BY <1>7 DEF Good

\* Whatever is in a container, Aff4Reader::open_reader refuses it or returns
\* a reader that reads and seeks can rely on.
THEOREM OpenEstablishesReader ==
    ASSUME NEW file, IsContainer(file)
    PROVE  /\ OpenReader(file).ok \in BOOLEAN
           /\ OpenReader(file).ok => IsReader(OpenReader(file).val)
<1> DEFINE parsed == ParseTurtle(file.turtle)
           mm == parsed.val.map_meta
           base == DetectZipBase(file, mm.map_arn)
           o == OpenReader(file)
           Good == o.ok \in BOOLEAN /\ (o.ok => IsReader(o.val))
<1> SUFFICES Good
  OBVIOUS
<1>1. /\ parsed.ok \in BOOLEAN
      /\ parsed.ok => IsMeta(parsed.val)
  BY ParseTurtleTyped DEF IsContainer
<1>2. ASSUME NEW f, DOMAIN f \subseteq ZipBase \X Nat, NEW T, \A k \in DOMAIN f : f[k] \in T,
             NEW b, NEW s \in DOMAIN Entries(f, b)
      PROVE  Entries(f, b)[s] \in T
  <2>1. PICK k \in DOMAIN f : k[1] = b /\ k[2] = s
    BY DEF Entries
  <2>2. k = <<b, s>>
    BY <2>1, <1>2
  <2> QED BY <2>1, <2>2, <1>2 DEF Entries
<1>3. ASSUME NEW meta, IsMeta(meta), NEW m, IsLoadedMap(m)
      PROVE  IsReader(NewReader(file, meta, m))
  <2> DEFINE zip_base == DetectZipBase(file, meta.stream_arn)
  <2>1. \A s \in DOMAIN Entries(file.index, zip_base) :
           Entries(file.index, zip_base)[s] \in Seq(IndexEntry)
    BY <1>2 DEF IsContainer
  <2>2. \A s \in DOMAIN Entries(file.bevy, zip_base) :
           Entries(file.bevy, zip_base)[s] \in Seq(Byte)
    BY <1>2 DEF IsContainer
  <2> HIDE DEF zip_base
  <2> QED BY <1>3, <2>1, <2>2 DEF IsReader, NewReader, IsMeta, zip_base
<1>4. IsLoadedMap(EmptyMap)
  BY DEF IsLoadedMap, EmptyMap, Sorted
<1>5. ASSUME NEW b \in DOMAIN file.map \cap DOMAIN file.idx
      PROVE  IsLoadedMap(LoadMap(file, mm, b))
  <2>1. file.map[b] \in Seq(MapEntry) /\ file.idx[b] \in Seq(IdxLine)
    BY DEF IsContainer
  <2>2. /\ ParseMapEntries(file.map[b]) \in Seq(MapEntry)
        /\ Sorted(ParseMapEntries(file.map[b]))
        /\ \A i \in 1 .. Len(ParseMapEntries(file.map[b])) :
              ParseMapEntries(file.map[b])[i].length > 0
    BY <2>1, ParsedEntriesSorted
  <2>3. ParseIdx(file.idx[b], mm.image_stream_arn) \in Seq(TargetKind)
    BY <2>1, ParsedIdxTyped
  <2> QED BY <2>2, <2>3 DEF IsLoadedMap, LoadMap
<1> HIDE DEF parsed, base
<1>6. CASE ~file.has_turtle \/ ~parsed.ok
  <2>1. o.ok = FALSE
    BY <1>1, <1>6 DEF OpenReader, parsed, Err, IsContainer
  <2> QED BY <2>1
<1>7. CASE ~(~file.has_turtle \/ ~parsed.ok)
  <2>1. IsMeta(parsed.val) /\ parsed.val.map_meta.mapped \in BOOLEAN
    BY <1>1, <1>7 DEF IsMeta
  <2>2. o = IF ~mm.mapped THEN Ok(NewReader(file, parsed.val, EmptyMap))
            ELSE IF base \notin DOMAIN file.map \cap DOMAIN file.idx THEN Err("Zip")
            ELSE Ok(NewReader(file, parsed.val, LoadMap(file, mm, base)))
    BY <1>7 DEF OpenReader, parsed, base
  <2> HIDE DEF o
  <2>3. CASE ~mm.mapped
    <3>1. IsReader(NewReader(file, parsed.val, EmptyMap))
      BY <2>1, <1>3, <1>4
    <3> QED BY <3>1, <2>2, <2>3 DEF Ok
  <2>4. CASE mm.mapped /\ base \notin DOMAIN file.map \cap DOMAIN file.idx
    BY <2>2, <2>4 DEF Err
  <2>5. CASE mm.mapped /\ base \in DOMAIN file.map \cap DOMAIN file.idx
    <3>1. IsReader(NewReader(file, parsed.val, LoadMap(file, mm, base)))
      BY <2>1, <2>5, <1>3, <1>5
    <3> QED BY <3>1, <2>2, <2>5 DEF Ok
  <2>6. mm.mapped \in BOOLEAN
    BY <2>1
  <2> QED BY <2>3, <2>4, <2>5, <2>6
<1> QED BY <1>6, <1>7
=============================================================================
