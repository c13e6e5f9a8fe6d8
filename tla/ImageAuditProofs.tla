-------------------------- MODULE ImageAuditProofs --------------------------
(***************************************************************************)
(* audit_image for every set of containers and any stored hashes: it works *)
(* on a sound reader, feeds its hashers the content, and reports exactly   *)
(* the unreadable regions and the diverging digests.                       *)
(***************************************************************************)
EXTENDS ImageAudit, ReadProofs

----------------------------------------------------------------------------
(* Selections                                                              *)

\* The filter of the stored hashes selects from them, in their order.
LEMMA ArrangeSelects ==
    ASSUME NEW s, NEW n \in Nat, NEW S \in SUBSET (1 .. n), NEW R,
           \A i, j \in S : <<i, j>> \in R <=> i < j
    PROVE  /\ Selects(Arrange(s, S, R), s, S)
           /\ Len(Arrange(s, S, R)) = Cardinality(S)
           /\ Cardinality(S) \in Nat
           /\ Arrange(s, S, R) = [k \in 1 .. Cardinality(S) |-> Arrange(s, S, R)[k]]
           /\ \A k \in 1 .. Cardinality(S) : \E i \in S : Arrange(s, S, R)[k] = s[i]
<1>1. IsFiniteSet(S)
  <2>1. IsFiniteSet(1 .. n)
    BY FS_Interval
  <2> QED BY <2>1, FS_Subset
<1>2. StrictOrder(R, S)
  BY DEF StrictOrder
<1> DEFINE c == Cardinality(S)
           a == Arrange(s, S, R)
<1>3. PICK at \in [1 .. c -> S] : IsPlacing(at, a, c, s, S, R)
  BY <1>1, <1>2, ArrangePlaces
<1>4. c \in Nat
  BY <1>1, FS_CardinalityType
<1> HIDE DEF a, c
<1>5. Len(a) = c /\ a = [k \in 1 .. c |-> a[k]]
  BY <1>3, <1>4 DEF IsPlacing
<1>6. \A k \in 1 .. c : a[k] = s[at[k]] /\ at[k] \in S
  BY <1>3 DEF IsPlacing
<1>7. \A k, l \in 1 .. c : k < l => at[k] < at[l]
  BY <1>3, <1>6 DEF IsPlacing
<1>8. Selects(a, s, S)
  <2>1. \E f \in [1 .. c -> S] :
           /\ \A i \in S : \E k \in 1 .. c : f[k] = i
           /\ \A k, l \in 1 .. c : k < l => f[k] < f[l]
           /\ \A k \in 1 .. c : a[k] = s[f[k]]
    BY <1>3, <1>6, <1>7 DEF IsPlacing
  <2> QED BY <2>1, <1>5 DEF Selects
<1> QED BY <1>4, <1>5, <1>6, <1>8 DEF a, c

\* Nothing is selected from no positions, and nothing else.
LEMMA SelectsNothing ==
    ASSUME NEW s
    PROVE  Selects(<<>>, s, {})
<1> DEFINE at == [k \in 1 .. Len(<<>>) |-> k]
<1>1. Len(<<>>) = 0
  OBVIOUS
<1>2. at \in [1 .. Len(<<>>) -> {}]
  BY <1>1
<1> HIDE DEF at
<1> QED BY <1>1, <1>2 DEF Selects

\* A selection is continued with a later element.
LEMMA SelectsAppend ==
    ASSUME NEW T, NEW chosen \in Seq(T), NEW s, NEW S \in SUBSET Nat, Selects(chosen, s, S),
           NEW j \in Nat, \A i \in S : i < j, s[j] \in T
    PROVE  Selects(Append(chosen, s[j]), s, S \cup {j})
<1> DEFINE n == Len(chosen)
           longer == Append(chosen, s[j])
<1>1. n \in Nat
  OBVIOUS
<1>2. /\ Len(longer) = n + 1
      /\ longer[n + 1] = s[j]
      /\ \A k \in 1 .. n : longer[k] = chosen[k]
  OBVIOUS
<1> HIDE DEF longer
<1>3. PICK at \in [1 .. n -> S] :
         /\ \A i \in S : \E k \in 1 .. n : at[k] = i
         /\ \A k, l \in 1 .. n : k < l => at[k] < at[l]
         /\ \A k \in 1 .. n : chosen[k] = s[at[k]]
  BY DEF Selects
<1> DEFINE at2 == [k \in 1 .. n + 1 |-> IF k = n + 1 THEN j ELSE at[k]]
<1> HIDE DEF n
<1>4. \A k \in 1 .. n + 1 : k = n + 1 \/ k \in 1 .. n
  BY <1>1
<1>5. /\ \A k \in 1 .. n : k \in 1 .. n + 1 /\ k # n + 1
      /\ n + 1 \in 1 .. n + 1
  BY <1>1
<1>6. /\ at2 \in [1 .. n + 1 -> S \cup {j}]
      /\ at2[n + 1] = j
      /\ \A k \in 1 .. n : at2[k] = at[k]
  BY <1>3, <1>4, <1>5
<1> HIDE DEF at2
<1>7. \A i \in S \cup {j} : \E k \in 1 .. n + 1 : at2[k] = i
  BY <1>3, <1>5, <1>6
<1>8. ASSUME NEW k \in 1 .. n + 1, NEW l \in 1 .. n + 1, k < l
      PROVE  at2[k] < at2[l]
  <2>1. k \in 1 .. n
    BY <1>1, <1>8
  <2>2. CASE l = n + 1
    BY <2>1, <2>2, <1>3, <1>6
  <2>3. CASE l \in 1 .. n
    BY <2>1, <2>3, <1>3, <1>6, <1>8
  <2> QED BY <2>2, <2>3, <1>4
<1>9. \A k \in 1 .. n + 1 : longer[k] = s[at2[k]]
  BY <1>2, <1>3, <1>4, <1>6
<1>10. Len(longer) = n + 1
  BY <1>2 DEF n
<1> QED BY <1>6, <1>7, <1>8, <1>9, <1>10 DEF Selects, longer

\* The mismatches among the jobs are those among the stored hashes that have
\* a job.
LEMMA SelectsThrough ==
    ASSUME NEW hashes, NEW C \in SUBSET (1 .. Len(hashes)), Len(hashes) \in Nat,
           NEW js, Len(js) \in Nat, Selects(js, hashes, C), NEW content,
           NEW J, \A j : j \in J <=> j \in 1 .. Len(js) /\ js[j].of # content,
           NEW D, \A i : i \in D <=> i \in C /\ hashes[i].of # content,
           NEW fs, Selects(fs, MismatchesOf(js), J)
    PROVE  Selects(fs, MismatchesOf(hashes), D)
<1>1. PICK p \in [1 .. Len(js) -> C] :
         /\ \A i \in C : \E k \in 1 .. Len(js) : p[k] = i
         /\ \A k, l \in 1 .. Len(js) : k < l => p[k] < p[l]
         /\ \A k \in 1 .. Len(js) : js[k] = hashes[p[k]]
  BY DEF Selects
<1>2. PICK q \in [1 .. Len(fs) -> J] :
         /\ \A j \in J : \E k \in 1 .. Len(fs) : q[k] = j
         /\ \A k, l \in 1 .. Len(fs) : k < l => q[k] < q[l]
         /\ \A k \in 1 .. Len(fs) : fs[k] = MismatchesOf(js)[q[k]]
  BY DEF Selects
<1> DEFINE at == [k \in 1 .. Len(fs) |-> p[q[k]]]
<1>3. \A k \in 1 .. Len(fs) : q[k] \in 1 .. Len(js) /\ js[q[k]].of # content
  BY <1>2
<1>4. \A k \in 1 .. Len(fs) : p[q[k]] \in D
  BY <1>1, <1>3
<1>5. at \in [1 .. Len(fs) -> D] /\ \A k \in 1 .. Len(fs) : at[k] = p[q[k]]
  BY <1>4
<1> HIDE DEF at
<1>6. ASSUME NEW i \in D
      PROVE  \E k \in 1 .. Len(fs) : at[k] = i
  <2>1. PICK j \in 1 .. Len(js) : p[j] = i
    BY <1>1
  <2>2. j \in J
    BY <2>1, <1>1
  <2>3. PICK k \in 1 .. Len(fs) : q[k] = j
    BY <2>2, <1>2
  <2> QED BY <2>1, <2>3, <1>5
<1>7. ASSUME NEW k \in 1 .. Len(fs), NEW l \in 1 .. Len(fs), k < l
      PROVE  at[k] < at[l]
  BY <1>1, <1>2, <1>3, <1>5, <1>7
<1>8. ASSUME NEW k \in 1 .. Len(fs)
      PROVE  fs[k] = MismatchesOf(hashes)[at[k]]
  <2>1. fs[k] = HashMismatch(js[q[k]].algorithm)
    BY <1>2, <1>3 DEF MismatchesOf
  <2>2. at[k] \in 1 .. Len(hashes) /\ js[q[k]] = hashes[at[k]]
    BY <1>1, <1>3, <1>5
  <2>3. MismatchesOf(hashes)[at[k]] = HashMismatch(hashes[at[k]].algorithm)
    BY <2>2 DEF MismatchesOf
  <2> QED BY <2>1, <2>2, <2>3
<1>9. \E f \in [1 .. Len(fs) -> D] :
         /\ \A i \in D : \E k \in 1 .. Len(fs) : f[k] = i
         /\ \A k, l \in 1 .. Len(fs) : k < l => f[k] < f[l]
         /\ \A k \in 1 .. Len(fs) : fs[k] = MismatchesOf(hashes)[f[k]]
  BY <1>5, <1>6, <1>7, <1>8
<1> QED BY <1>9 DEF Selects

----------------------------------------------------------------------------
(* The report of the unreadable regions                                    *)

\* What the collecting step reports.
RegionReport ==
    [k \in 1 .. Len(UnreadableRegions(rd.loaded_map)) |->
        HashUnreadable(UnreadableRegions(rd.loaded_map)[k])]

\* unreadable_regions lists the entries of that kind in the order of the map.
LEMMA UnreadableListed ==
    ASSUME NEW m, IsLoadedMap(m)
    PROVE  /\ Cardinality(Unreadable(m)) \in Nat
           /\ Len(UnreadableRegions(m)) = Cardinality(Unreadable(m))
           /\ \E at \in [1 .. Cardinality(Unreadable(m)) -> Unreadable(m)] :
                 /\ \A i \in Unreadable(m) : \E k \in 1 .. Cardinality(Unreadable(m)) : at[k] = i
                 /\ \A k, l \in 1 .. Cardinality(Unreadable(m)) : k < l => at[k] < at[l]
                 /\ \A k \in 1 .. Cardinality(Unreadable(m)) :
                       UnreadableRegions(m)[k]
                          = <<m.entries[at[k]].map_offset, m.entries[at[k]].length>>
<1> DEFINE U == Unreadable(m)
           R == Ascending(U)
           c == Cardinality(U)
           es == Arrange(m.entries, U, R)
<1>1. Len(m.entries) \in Nat /\ U \in SUBSET (1 .. Len(m.entries))
  BY DEF IsLoadedMap, Unreadable
<1>2. UnreadableRegions(m) = [k \in 1 .. c |-> <<es[k].map_offset, es[k].length>>]
  BY DEF UnreadableRegions
<1>3. \A i, j \in U : <<i, j>> \in R <=> i < j
  BY DEF Ascending
<1> HIDE DEF R, U
<1>4. Selects(es, m.entries, U) /\ Len(es) = c /\ c \in Nat
  BY <1>1, <1>3, ArrangeSelects
<1>5. PICK at \in [1 .. c -> U] :
         /\ \A i \in U : \E k \in 1 .. c : at[k] = i
         /\ \A k, l \in 1 .. c : k < l => at[k] < at[l]
         /\ \A k \in 1 .. c : es[k] = m.entries[at[k]]
  BY <1>4 DEF Selects
<1> HIDE DEF c, es
<1>6. Len(UnreadableRegions(m)) = c
  BY <1>2, <1>4
<1>7. \A k \in 1 .. c :
         UnreadableRegions(m)[k] = <<m.entries[at[k]].map_offset, m.entries[at[k]].length>>
  BY <1>2, <1>5
<1> QED BY <1>4, <1>5, <1>6, <1>7 DEF c, U

\* Over a well-formed map the report has one finding for each unreadable entry,
\* in map order.
LEMMA RegionReportRight ==
    ASSUME IsReader(rd), WellMapped(rd.loaded_map, rd.image_stream_size)
    PROVE  IsRegionReport(RegionReport)
<1> DEFINE m == rd.loaded_map
           U == Unreadable(m)
           c == Cardinality(U)
           rr == RegionReport
           regions == UnreadableRegions(m)
           Of(e) == HashUnreadable(<<e.map_offset, e.length>>)
<1>1. IsLoadedMap(m)
  BY DEF IsReader
<1>2. c \in Nat /\ Len(regions) = c
  BY <1>1, UnreadableListed
<1>3. PICK at \in [1 .. c -> U] :
         /\ \A i \in U : \E k \in 1 .. c : at[k] = i
         /\ \A k, l \in 1 .. c : k < l => at[k] < at[l]
         /\ \A k \in 1 .. c : regions[k] = <<m.entries[at[k]].map_offset, m.entries[at[k]].length>>
  BY <1>1, UnreadableListed
<1>4. rr = [k \in 1 .. c |-> HashUnreadable(regions[k])]
  BY <1>2 DEF RegionReport
<1>5. Len(m.entries) \in Nat /\ U = {i \in 1 .. Len(m.entries) : KindOf(m, m.entries[i]) = UnreadableTile}
  BY <1>1 DEF IsLoadedMap, Unreadable
<1>6. UnreadableEntries = {m.entries[i] : i \in U}
  BY <1>5 DEF UnreadableEntries
<1>7. ASSUME NEW i \in U, NEW j \in U, i < j
      PROVE  m.entries[i].map_offset < m.entries[j].map_offset
  <2>1. i \in 1 .. Len(m.entries) /\ j \in 1 .. Len(m.entries)
    BY <1>5
  <2>2. EndOf(m.entries[i]) <= m.entries[j].map_offset
    BY <2>1, <1>7 DEF WellMapped
  <2>3. /\ EndOf(m.entries[i]) \in Nat /\ m.entries[i].map_offset < EndOf(m.entries[i])
        /\ m.entries[i].map_offset \in Nat
    BY <2>1, <1>1, EntryNumbers
  <2>4. m.entries[j].map_offset \in Nat
    BY <2>1, <1>1, EntryNumbers
  <2> QED BY <2>2, <2>3, <2>4
<1>8. U \in SUBSET (1 .. Len(m.entries)) /\ IsFiniteSet(U)
  <2>1. IsFiniteSet(1 .. Len(m.entries))
    BY <1>5, FS_Interval
  <2> QED BY <2>1, <1>5, FS_Subset
<1> HIDE DEF m, U, c, regions, rr
<1>9. Cardinality(UnreadableEntries) = c
  <2> DEFINE f == [i \in U |-> m.entries[i]]
  <2>1. \A i, j \in U : f[i] = f[j] => i = j
    <3> SUFFICES ASSUME NEW i \in U, NEW j \in U, i # j
                 PROVE  m.entries[i] # m.entries[j]
      OBVIOUS
    <3>1. i \in Nat /\ j \in Nat
      BY <1>8
    <3>2. m.entries[i].map_offset \in Nat /\ m.entries[j].map_offset \in Nat
      BY <1>1, <1>8, EntryNumbers
    <3>3. CASE i < j
      BY <3>2, <3>3, <1>7
    <3>4. CASE j < i
      BY <3>2, <3>4, <1>7
    <3> QED BY <3>1, <3>3, <3>4
  <2>2. f \in Bijection(U, UnreadableEntries)
    BY <2>1, <1>6 DEF Bijection, Injection, IsInjective, Surjection
  <2>3. ExistsBijection(U, UnreadableEntries)
    BY <2>2 DEF ExistsBijection
  <2> QED BY <2>3, <1>8, FS_Bijection DEF c
<1>10. Len(rr) = c /\ \A k \in 1 .. c : rr[k] = Of(m.entries[at[k]])
  <2>1. Len(rr) = c /\ \A k \in 1 .. c : rr[k] = HashUnreadable(regions[k])
    BY <1>2, <1>4
  <2>2. ASSUME NEW k \in 1 .. c
        PROVE  rr[k] = Of(m.entries[at[k]])
    <3>1. regions[k] = <<m.entries[at[k]].map_offset, m.entries[at[k]].length>>
      BY <1>3
    <3> QED BY <3>1, <2>1
  <2> QED BY <2>1, <2>2
<1>11. {rr[k] : k \in 1 .. c} = {Of(e) : e \in UnreadableEntries}
  <2>1. ASSUME NEW k \in 1 .. c
        PROVE  rr[k] \in {Of(e) : e \in UnreadableEntries}
    BY <1>3, <1>6, <1>10
  <2>2. ASSUME NEW e \in UnreadableEntries
        PROVE  \E k \in 1 .. c : Of(e) = rr[k]
    <3>1. PICK i \in U : e = m.entries[i]
      BY <1>6
    <3>2. PICK k \in 1 .. c : at[k] = i
      BY <1>3
    <3> QED BY <3>1, <3>2, <1>10
  <2> HIDE DEF Of
  <2> QED BY <2>1, <2>2
<1>12. ASSUME NEW k \in 1 .. c, NEW l \in 1 .. c, k < l
       PROVE  rr[k].region[1] < rr[l].region[1]
  <2>1. at[k] \in U /\ at[l] \in U /\ at[k] < at[l]
    BY <1>3, <1>12
  <2>2. m.entries[at[k]].map_offset < m.entries[at[l]].map_offset
    BY <2>1, <1>7
  <2>3. \A e : Of(e).region[1] = e.map_offset
    BY DEF HashUnreadable
  <2>4. rr[k] = Of(m.entries[at[k]]) /\ rr[l] = Of(m.entries[at[l]])
    BY <1>10
  <2> HIDE DEF Of
  <2> QED BY <2>2, <2>3, <2>4
<1> QED BY <1>9, <1>10, <1>11, <1>12 DEF IsRegionReport, rr

----------------------------------------------------------------------------
(* The inductive invariant                                                 *)

\* What the hashers have seen, until they are compared.
ContentSeen ==
    /\ stage \in {"open", "collect"} => idx = 0 /\ fed = <<>>
    /\ stage = "feed" => Len(fed) <= rd.image_stream_size
    /\ HashersSeeContent
    /\ stage = "compare" /\ WellStored(rd, file.plain) => fed = file.plain

\* The findings so far are those of the regions, and behind them those of the
\* jobs that have been compared.
MismatchesSoFar == SubSeq(anomalies, Len(RegionReport) + 1, Len(anomalies))

FindingsSoFar ==
    stage \in {"feed", "compare"} =>
        /\ jobs = JobsOf(rd.image_hashes)
        /\ Len(RegionReport) <= Len(anomalies)
        /\ SubSeq(anomalies, 1, Len(RegionReport)) = RegionReport
        /\ stage = "feed" => MismatchesSoFar = <<>>
        /\ stage = "compare" =>
              /\ idx <= Len(jobs)
              /\ Selects(MismatchesSoFar, MismatchesOf(jobs), {j \in 1 .. idx : jobs[j].of # fed})

Finding ==
    {HashUnreadable(region) : region \in U64s \X U64s}
      \cup {HashMismatch(algorithm) : algorithm \in STRING}

Inv ==
    /\ TypeOK
    /\ anomalies \in Seq(Finding)
    /\ ContentSeen
    /\ FindingsSoFar
    /\ FindingsExact

\* The invariant holds before the image is opened.
LEMMA InvInit ==
    ASSUME Init
    PROVE  Inv
<1>1. TypeOK /\ anomalies \in Seq(Finding)
  BY EmptySeq DEF Init, TypeOK, Opened
<1>2. ContentSeen /\ FindingsSoFar /\ FindingsExact
  BY DEF Init, ContentSeen, HashersSeeContent, FindingsSoFar, FindingsExact, Pending
<1> QED BY <1>1, <1>2 DEF Inv

----------------------------------------------------------------------------
(* Types                                                                   *)

\* The jobs are the stored hashes of a supported algorithm.
LEMMA JobsSelected ==
    ASSUME NEW hashes \in Seq(Digest)
    PROVE  /\ JobsOf(hashes) \in Seq(Digest)
           /\ Computable(hashes) \in SUBSET (1 .. Len(hashes))
           /\ Selects(JobsOf(hashes), hashes, Computable(hashes))
<1> DEFINE C == Computable(hashes)
           R == Ascending(C)
           c == Cardinality(C)
           a == Arrange(hashes, C, R)
<1>1. Len(hashes) \in Nat /\ C \in SUBSET (1 .. Len(hashes))
  BY DEF Computable
<1>2. \A i, j \in C : <<i, j>> \in R <=> i < j
  BY DEF Ascending
<1>3. JobsOf(hashes) = a
  BY DEF JobsOf
<1>4. \A i \in C : hashes[i] \in Digest
  BY <1>1
<1> HIDE DEF C, R
<1>5. /\ Selects(a, hashes, C)
      /\ c \in Nat
      /\ a = [k \in 1 .. c |-> a[k]]
      /\ \A k \in 1 .. c : \E i \in C : a[k] = hashes[i]
  <2>1. Selects(a, hashes, C) /\ Len(a) = c /\ c \in Nat
    BY <1>1, <1>2, ArrangeSelects
  <2>2. a = [k \in 1 .. c |-> a[k]]
    BY <1>1, <1>2, ArrangeSelects
  <2> HIDE DEF a, c
  <2>3. PICK at \in [1 .. c -> C] : \A k \in 1 .. c : a[k] = hashes[at[k]]
    BY <2>1 DEF Selects
  <2>4. \A k \in 1 .. c : \E i \in C : a[k] = hashes[i]
    BY <2>3
  <2> QED BY <2>1, <2>2, <2>4
<1> HIDE DEF a, c
<1>6. \A k \in 1 .. c : a[k] \in Digest
  BY <1>4, <1>5
<1>7. a \in Seq(Digest)
  BY <1>5, <1>6
<1> QED BY <1>1, <1>3, <1>5, <1>7 DEF C

\* The report of the regions is made of findings.
LEMMA RegionReportTyped ==
    ASSUME IsReader(rd)
    PROVE  RegionReport \in Seq(Finding) /\ Len(RegionReport) \in Nat
<1> DEFINE m == rd.loaded_map
           c == Cardinality(Unreadable(m))
           regions == UnreadableRegions(m)
<1>1. IsLoadedMap(m)
  BY DEF IsReader
<1>2. /\ c \in Nat /\ Len(regions) = c
      /\ \E at \in [1 .. c -> Unreadable(m)] :
            \A k \in 1 .. c :
               regions[k] = <<m.entries[at[k]].map_offset, m.entries[at[k]].length>>
  BY <1>1, UnreadableListed
<1>3. \A i \in Unreadable(m) : m.entries[i] \in MapEntry
  BY <1>1 DEF IsLoadedMap, Unreadable
<1>4. RegionReport = [k \in 1 .. c |-> HashUnreadable(regions[k])]
  BY <1>2 DEF RegionReport
<1> HIDE DEF c, regions
<1>5. ASSUME NEW k \in 1 .. c
      PROVE  HashUnreadable(regions[k]) \in Finding
  <2>1. PICK i \in Unreadable(m) : regions[k] = <<m.entries[i].map_offset, m.entries[i].length>>
    BY <1>2
  <2>2. m.entries[i].map_offset \in U64s /\ m.entries[i].length \in U64s
    BY <1>3 DEF MapEntry
  <2>3. regions[k] \in U64s \X U64s
    BY <2>1, <2>2
  <2> QED BY <2>3 DEF Finding
<1>6. RegionReport \in Seq(Finding)
  BY <1>2, <1>4, <1>5
<1> QED BY <1>6

\* A finding about a hash.
LEMMA MismatchTyped ==
    ASSUME NEW h \in Digest
    PROVE  HashMismatch(h.algorithm) \in Finding
<1>1. h.algorithm \in STRING
  BY DEF Digest
<1> QED BY <1>1 DEF Finding

\* One turn of the feeding loop appends bytes, and no more than are declared.
LEMMA FeedTyped ==
    ASSUME IsReader(rd), idx \in Nat, fed \in Seq(Byte), Len(fed) <= rd.image_stream_size,
           ReadChunk(rd, idx).ok,
           NEW take, take = Least(Len(ReadChunk(rd, idx).val), rd.image_stream_size - Len(fed))
    PROVE  /\ fed \o Slice(ReadChunk(rd, idx).val, 0, take) \in Seq(Byte)
           /\ Len(fed \o Slice(ReadChunk(rd, idx).val, 0, take)) <= rd.image_stream_size
<1> DEFINE val == ReadChunk(rd, idx).val
           piece == Slice(val, 0, take)
<1>1. val \in Seq(Byte) /\ Len(val) \in Nat
  BY ReadChunkTyped
<1>2. rd.image_stream_size \in Nat /\ Len(fed) \in Nat
  BY ReaderNumbers
<1>3. take \in Nat /\ take <= Len(val) /\ take <= rd.image_stream_size - Len(fed)
  BY <1>1, <1>2 DEF Least
<1> HIDE DEF val
<1>4. piece \in Seq(Byte) /\ Len(piece) = take
  <2>1. \A s \in Seq(Byte), b \in Nat : b <= Len(s) =>
           Slice(s, 0, b) \in Seq(Byte) /\ Len(Slice(s, 0, b)) = b - 0
    BY SliceTyped
  <2> QED BY <2>1, <1>1, <1>3
<1> HIDE DEF piece
<1>5. fed \o piece \in Seq(Byte) /\ Len(fed \o piece) = Len(fed) + Len(piece)
  BY <1>4, ConcatProperties
<1> QED BY <1>2, <1>3, <1>4, <1>5 DEF piece, val

\* Type correctness is kept by every step.
LEMMA TypeStep ==
    ASSUME Inv, [Next]_vars
    PROVE  TypeOK' /\ anomalies' \in Seq(Finding)
<1> USE DEF Inv
<1>0. TypeOK /\ anomalies \in Seq(Finding) /\ (stage = "feed" => Len(fed) <= rd.image_stream_size)
  BY DEF ContentSeen
<1>1. CASE Open
  <2>1. IsContainer(file)
    BY FilesAssumption DEF TypeOK
  <2>2. OpenReader(file).ok \in BOOLEAN /\ (OpenReader(file).ok => IsReader(OpenReader(file).val))
    BY <2>1, OpenEstablishesReader
  <2>3. CASE OpenReader(file).ok
    BY <2>2, <2>3, <1>0, <1>1 DEF Open, TypeOK, Opened
  <2>4. CASE ~OpenReader(file).ok
    BY <2>4, <1>0, <1>1 DEF Open, TypeOK, Opened, Return, Failure, Pending
  <2> QED BY <2>3, <2>4
<1>2. CASE Collect
  <2>1. IsReader(rd)
    BY <1>0, <1>2 DEF Collect, TypeOK, Opened
  <2>2. anomalies' = RegionReport
    BY <1>2 DEF Collect, RegionReport
  <2>3. anomalies' \in Seq(Finding)
    BY <2>1, <2>2, RegionReportTyped
  <2>4. CASE jobs' = <<>>
    BY <2>3, <2>4, <1>0, <1>2 DEF Collect, TypeOK, Opened, Return, Report, Pending
  <2>5. CASE jobs' # <<>>
    <3>1. Selects(jobs', rd.image_hashes, Computable(rd.image_hashes))
      <4>1. rd.image_hashes \in Seq(Digest) /\ jobs' = JobsOf(rd.image_hashes)
        BY <2>1, <1>2 DEF IsReader, Collect
      <4> QED BY <4>1, JobsSelected
    <3> QED BY <3>1, <2>1, <2>3, <2>5, <1>0, <1>2 DEF Collect, TypeOK, Opened
  <2> QED BY <2>4, <2>5
<1>3. CASE Feed
  <2>1. IsReader(rd) /\ stage = "feed" /\ idx \in Nat /\ fed \in Seq(Byte)
    BY <1>0, <1>3 DEF Feed, TypeOK, Opened
  <2>2. CASE ReadChunk(rd, idx).ok
    <3>1. fed' \in Seq(Byte)
      BY <2>1, <2>2, <1>0, <1>3, FeedTyped DEF Feed
    <3>2. idx' \in Nat /\ UNCHANGED <<file, stage, rd, jobs, anomalies, result>>
      BY <2>1, <2>2, <1>3 DEF Feed
    <3> QED BY <3>1, <3>2, <2>1, <1>0 DEF TypeOK, Opened
  <2>3. CASE ~ReadChunk(rd, idx).ok
    BY <2>3, <1>0, <1>3 DEF Feed, TypeOK, Opened, Return, Failure, Pending
  <2> QED BY <2>2, <2>3
<1>4. CASE FeedFault
  BY <1>0, <1>4 DEF FeedFault, TypeOK, Opened, Return, Failure, Pending
<1>5. CASE FeedEnd
  BY <1>0, <1>5 DEF FeedEnd, TypeOK, Opened
<1>6. CASE Compare
  <2>1. IsReader(rd) /\ stage = "compare" /\ idx \in Nat /\ anomalies \in Seq(Finding)
    BY <1>0, <1>6 DEF Compare, TypeOK, Opened
  <2>2. jobs \in Seq(Digest)
    <3>1. rd.image_hashes \in Seq(Digest)
      BY <2>1 DEF IsReader
    <3> QED BY <3>1, <2>1, JobsSelected DEF FindingsSoFar
  <2>3. idx + 1 \in 1 .. Len(jobs)
    BY <2>1, <2>2, <1>6 DEF Compare
  <2>4. HashMismatch(jobs[idx + 1].algorithm) \in Finding
    BY <2>2, <2>3, MismatchTyped
  <2>5. anomalies' \in Seq(Finding)
    BY <2>1, <2>4, <1>6 DEF Compare
  <2>6. idx' \in Nat /\ UNCHANGED <<file, stage, rd, jobs, fed, result>>
    BY <2>1, <1>6 DEF Compare
  <2> QED BY <2>5, <2>6, <1>0 DEF TypeOK, Opened
<1>7. CASE CompareEnd
  BY <1>0, <1>7 DEF CompareEnd, TypeOK, Opened, Return, Report, Pending
<1>8. CASE UNCHANGED vars
  BY <1>0, <1>8 DEF TypeOK, Opened, vars
<1> QED BY <1>1, <1>2, <1>3, <1>4, <1>5, <1>6, <1>7, <1>8 DEF Next, Verify

----------------------------------------------------------------------------
(* The hashers                                                             *)

\* One turn of the feeding loop on a well-stored stream: it does not fail, and
\* the content fed grows by the next chunk, without its padding.
LEMMA FeedAdvances ==
    ASSUME IsReader(rd), WellStored(rd, file.plain), file.plain \in Seq(Byte),
           idx \in Nat, idx < NumChunks(rd),
           fed = SubSeq(file.plain, 1, Least(idx * rd.chunk_size, rd.image_stream_size)),
           NEW take, take = Least(Len(ReadChunk(rd, idx).val), rd.image_stream_size - Len(fed))
    PROVE  fed \o Slice(ReadChunk(rd, idx).val, 0, take)
             = SubSeq(file.plain, 1, Least((idx + 1) * rd.chunk_size, rd.image_stream_size))
<1> DEFINE cs == rd.chunk_size
           size == rd.image_stream_size
           plain == file.plain
           val == ReadChunk(rd, idx).val
           start == idx * cs
           n == ChunkLen(rd, idx)
<1>1. cs \in Nat \ {0} /\ size \in Nat /\ Len(plain) = size
  BY ReaderNumbers DEF WellStored
<1>2. start \in Nat /\ (idx + 1) * cs = start + cs /\ start < size
  BY <1>1, ChunkStarts DEF NumChunks
<1>3. n = Least(cs, size - start)
  BY DEF ChunkLen
<1> HIDE DEF start, n
<1>4. n \in Nat /\ n <= cs
  BY <1>1, <1>2, <1>3 DEF Least
<1>5. HoldsChunk(rd, plain, idx, ReadChunk(rd, idx))
  <2>1. idx \in 0 .. NumChunks(rd) - 1
    <3>1. NumChunks(rd) \in Nat
      BY <1>1, ChunkStarts DEF NumChunks
    <3> QED BY <3>1
  <2> QED BY <2>1, <1>4, ChunkCorrect DEF n
<1>6. /\ val \in Seq(Byte) /\ Len(val) \in Nat /\ Len(val) >= n /\ Len(val) <= cs
      /\ \A i \in 1 .. n : val[i] = plain[start + i]
  BY <1>5 DEF HoldsChunk, n, start
<1> HIDE DEF val, cs, size, plain
<1>7. Least(start, size) = start
  BY <1>1, <1>2 DEF Least
<1>8. fed = SubSeq(plain, 1, start) /\ Len(fed) = start
  <2>1. fed = SubSeq(plain, 1, start)
    BY <1>7 DEF plain, start, size, cs
  <2>2. plain \in Seq(Byte) /\ start <= Len(plain)
    BY <1>1, <1>2 DEF plain
  <2> QED BY <2>1, <2>2, <1>2, PrefixTyped
<1>9. take = n
  <2>1. take = Least(Len(val), size - start)
    BY <1>8 DEF val, size
  <2>2. \A len \in Nat : Least(cs, size - start) <= len /\ len <= cs =>
           Least(len, size - start) = Least(cs, size - start)
    BY <1>1, <1>2 DEF Least
  <2>3. Least(cs, size - start) <= Len(val)
    BY <1>3, <1>6
  <2> QED BY <2>1, <2>2, <2>3, <1>3, <1>6
<1> DEFINE piece == Slice(val, 0, take)
<1>10. piece \in Seq(Byte) /\ Len(piece) = n /\ \A i \in 1 .. n : piece[i] = plain[start + i]
  <2>1. piece = SubSeq(val, 1, n)
    <3>1. \A s, b : Slice(s, 0, b) = SubSeq(s, 1, b)
      BY DEF Slice
    <3> QED BY <3>1, <1>9
  <2>2. /\ SubSeq(val, 1, n) \in Seq(Byte)
        /\ Len(SubSeq(val, 1, n)) = n
        /\ \A i \in 1 .. n : SubSeq(val, 1, n)[i] = val[i]
    BY <1>4, <1>6, PrefixTyped
  <2> HIDE DEF piece
  <2> QED BY <2>1, <2>2, <1>6
<1> HIDE DEF piece
<1>11. start + n <= Len(plain) /\ Least(start + cs, size) = start + n
  BY <1>1, <1>2, <1>3 DEF Least
<1>12. SubSeq(plain, 1, start) \o piece = SubSeq(plain, 1, start + n)
  BY <1>2, <1>4, <1>10, <1>11, PrefixGrows DEF plain
<1>13. fed \o piece = SubSeq(plain, 1, Least((idx + 1) * cs, size))
  BY <1>2, <1>8, <1>11, <1>12
<1> QED BY <1>13 DEF piece, val, plain, cs, size

\* The hashers keep seeing the content.
LEMMA ContentStep ==
    ASSUME Inv, [Next]_vars
    PROVE  ContentSeen'
<1>1. TypeOK /\ ContentSeen
  BY DEF Inv
<1>2. file.plain \in Seq(Byte)
  BY <1>1, FilesAssumption DEF TypeOK, IsContainer
<1>3. CASE Open
  BY <1>1, <1>3 DEF Open, ContentSeen, HashersSeeContent, Return
<1>4. CASE Collect
  <2>1. stage' \in {"feed", "done"} /\ UNCHANGED <<file, rd, idx, fed>> /\ idx = 0 /\ fed = <<>>
    BY <1>1, <1>4 DEF Collect, ContentSeen, Return
  <2>2. IsReader(rd)
    BY <1>1, <1>4 DEF Collect, TypeOK, Opened
  <2>3. rd.image_stream_size \in Nat /\ rd.chunk_size \in Nat
    BY <2>2, ReaderNumbers
  <2>4. Least(0 * rd.chunk_size, rd.image_stream_size) = 0
    BY <2>3 DEF Least
  <2>5. SubSeq(file.plain, 1, 0) = <<>>
    BY SubSeqEmpty
  <2> QED BY <2>1, <2>3, <2>4, <2>5 DEF ContentSeen, HashersSeeContent
<1>5. CASE Feed
  <2>1. /\ IsReader(rd) /\ stage = "feed" /\ idx \in Nat /\ fed \in Seq(Byte)
        /\ Len(fed) <= rd.image_stream_size /\ idx < NumChunks(rd)
        /\ WellStored(rd, file.plain) =>
              fed = SubSeq(file.plain, 1, Least(idx * rd.chunk_size, rd.image_stream_size))
    BY <1>1, <1>5 DEF Feed, TypeOK, Opened, ContentSeen, HashersSeeContent
  <2>2. CASE ReadChunk(rd, idx).ok
    <3> DEFINE take == Least(Len(ReadChunk(rd, idx).val), rd.image_stream_size - Len(fed))
               longer == fed \o Slice(ReadChunk(rd, idx).val, 0, take)
    <3>1. fed' = longer /\ idx' = idx + 1 /\ UNCHANGED <<file, stage, rd>>
      BY <2>2, <1>5 DEF Feed
    <3>2. Len(longer) <= rd.image_stream_size
      BY <2>1, <2>2, FeedTyped
    <3>3. WellStored(rd, file.plain) =>
             longer = SubSeq(file.plain, 1, Least((idx + 1) * rd.chunk_size, rd.image_stream_size))
      BY <2>1, <1>2, FeedAdvances
    <3> HIDE DEF longer
    <3> QED BY <3>1, <3>2, <3>3, <2>1 DEF ContentSeen, HashersSeeContent
  <2>3. CASE ~ReadChunk(rd, idx).ok
    BY <2>3, <1>5 DEF Feed, ContentSeen, HashersSeeContent, Return
  <2> QED BY <2>2, <2>3
<1>6. CASE FeedFault
  BY <1>6 DEF FeedFault, ContentSeen, HashersSeeContent, Return
<1>7. CASE FeedEnd
  <2>1. /\ IsReader(rd) /\ stage = "feed" /\ idx \in Nat /\ idx >= NumChunks(rd)
        /\ WellStored(rd, file.plain) =>
              fed = SubSeq(file.plain, 1, Least(idx * rd.chunk_size, rd.image_stream_size))
        /\ stage' = "compare" /\ UNCHANGED <<file, rd, fed>>
    BY <1>1, <1>7 DEF FeedEnd, TypeOK, Opened, ContentSeen, HashersSeeContent
  <2>2. ASSUME WellStored(rd, file.plain)
        PROVE  fed = file.plain
    <3>1. /\ rd.chunk_size \in Nat \ {0} /\ rd.image_stream_size \in Nat
          /\ Len(file.plain) = rd.image_stream_size
      BY <2>1, <2>2, ReaderNumbers DEF WellStored
    <3>2. idx * rd.chunk_size \in Nat /\ idx * rd.chunk_size >= rd.image_stream_size
      BY <2>1, <3>1, ChunkStarts DEF NumChunks
    <3>3. Least(idx * rd.chunk_size, rd.image_stream_size) = Len(file.plain)
      BY <3>1, <3>2 DEF Least
    <3> QED BY <3>3, <2>1, <2>2, <1>2, SubSeqFull
  <2> QED BY <2>1, <2>2 DEF ContentSeen, HashersSeeContent
<1>8. CASE Compare
  BY <1>1, <1>8 DEF Compare, ContentSeen, HashersSeeContent
<1>9. CASE CompareEnd
  BY <1>9 DEF CompareEnd, ContentSeen, HashersSeeContent, Return
<1>10. CASE UNCHANGED vars
  BY <1>1, <1>10 DEF vars, ContentSeen, HashersSeeContent
<1> QED BY <1>3, <1>4, <1>5, <1>6, <1>7, <1>8, <1>9, <1>10 DEF Next, Verify

----------------------------------------------------------------------------
(* The findings                                                            *)

\* A sequence that grows keeps what it has, and so does its rest.
LEMMA AppendSuffix ==
    ASSUME NEW T, NEW s \in Seq(T), NEW x \in T, NEW n \in 0 .. Len(s)
    PROVE  /\ SubSeq(s, n + 1, Len(s)) \in Seq(T)
           /\ SubSeq(Append(s, x), 1, n) = SubSeq(s, 1, n)
           /\ SubSeq(Append(s, x), n + 1, Len(Append(s, x))) = Append(SubSeq(s, n + 1, Len(s)), x)
<1> DEFINE t == Append(s, x)
           l == Len(s)
           rest == SubSeq(s, n + 1, l)
           rest2 == SubSeq(t, n + 1, l + 1)
<1>1. l \in Nat /\ n \in Nat /\ n <= l
  OBVIOUS
<1>2. /\ t \in Seq(T) /\ Len(t) = l + 1 /\ t[l + 1] = x
      /\ \A i \in 1 .. l : t[i] = s[i]
  OBVIOUS
<1>3. \A i \in 1 .. l : s[i] \in T
  OBVIOUS
<1>4. \A i \in 1 .. l + 1 : t[i] \in T
  BY <1>2
<1> HIDE DEF t, l
<1>5. /\ rest \in Seq(T) /\ Len(rest) = l - n
      /\ \A i \in 1 .. l - n : rest[i] = s[n + i]
  <2>1. \A i \in n + 1 .. l : s[i] \in T
    BY <1>1, <1>3
  <2>2. /\ rest \in Seq(T)
        /\ Len(rest) = IF n + 1 <= l THEN l - (n + 1) + 1 ELSE 0
        /\ \A i \in 1 .. l - (n + 1) + 1 : rest[i] = s[(n + 1) + i - 1]
    BY <2>1, <1>1, SubSeqProperties
  <2> HIDE DEF rest
  <2>3. Len(rest) = l - n
    BY <2>2, <1>1
  <2>4. ASSUME NEW i \in 1 .. l - n PROVE rest[i] = s[n + i]
    <3>1. i \in 1 .. l - (n + 1) + 1 /\ (n + 1) + i - 1 = n + i
      BY <1>1
    <3>2. rest[i] = s[(n + 1) + i - 1]
      BY <3>1, <2>2
    <3> QED BY <3>1, <3>2
  <2> QED BY <2>2, <2>3, <2>4
<1>6. /\ rest2 \in Seq(T) /\ Len(rest2) = l + 1 - n
      /\ \A i \in 1 .. l + 1 - n : rest2[i] = t[n + i]
  <2>1. \A i \in n + 1 .. l + 1 : t[i] \in T
    BY <1>1, <1>4
  <2>2. /\ rest2 \in Seq(T)
        /\ Len(rest2) = IF n + 1 <= l + 1 THEN (l + 1) - (n + 1) + 1 ELSE 0
        /\ \A i \in 1 .. (l + 1) - (n + 1) + 1 : rest2[i] = t[(n + 1) + i - 1]
    BY <2>1, <1>1, SubSeqProperties
  <2> HIDE DEF rest2
  <2>3. Len(rest2) = l + 1 - n
    BY <2>2, <1>1
  <2>4. ASSUME NEW i \in 1 .. l + 1 - n PROVE rest2[i] = t[n + i]
    <3>1. i \in 1 .. (l + 1) - (n + 1) + 1 /\ (n + 1) + i - 1 = n + i
      BY <1>1
    <3>2. rest2[i] = t[(n + 1) + i - 1]
      BY <3>1, <2>2
    <3> QED BY <3>1, <3>2
  <2> QED BY <2>2, <2>3, <2>4
<1> HIDE DEF rest, rest2
<1>7. rest2 = Append(rest, x)
  <2>1. /\ Append(rest, x) \in Seq(T) /\ Len(Append(rest, x)) = (l - n) + 1
        /\ Append(rest, x)[(l - n) + 1] = x
        /\ \A i \in 1 .. l - n : Append(rest, x)[i] = rest[i]
    BY <1>1, <1>5
  <2>2. ASSUME NEW i \in 1 .. l + 1 - n
        PROVE  rest2[i] = Append(rest, x)[i]
    <3>1. CASE i \in 1 .. l - n
      <4>1. n + i \in 1 .. l
        BY <3>1, <1>1
      <4> QED BY <3>1, <4>1, <2>1, <1>2, <1>5, <1>6
    <3>2. CASE i = (l - n) + 1
      <4>1. n + i = l + 1
        BY <3>2, <1>1
      <4> QED BY <3>2, <4>1, <2>1, <1>2, <1>6
    <3>3. i \in 1 .. l - n \/ i = (l - n) + 1
      <4>1. i \in Int /\ 1 <= i /\ i <= l + 1 - n
        BY <1>1
      <4> QED BY <4>1, <1>1
    <3> QED BY <3>1, <3>2, <3>3
  <2>3. Len(rest2) = Len(Append(rest, x))
    BY <2>1, <1>1, <1>6
  <2> QED BY <2>1, <2>2, <2>3, <1>6, SeqEqual
<1>8. SubSeq(t, 1, n) = SubSeq(s, 1, n)
  <2>1. SubSeq(s, 1, n) \in Seq(T) /\ Len(SubSeq(s, 1, n)) = n /\ \A i \in 1 .. n : SubSeq(s, 1, n)[i] = s[i]
    BY <1>1, PrefixTyped DEF l
  <2>2. n <= Len(t)
    BY <1>1, <1>2
  <2>3. SubSeq(t, 1, n) \in Seq(T) /\ Len(SubSeq(t, 1, n)) = n /\ \A i \in 1 .. n : SubSeq(t, 1, n)[i] = t[i]
    BY <1>1, <1>2, <2>2, PrefixTyped
  <2>4. \A i \in 1 .. n : t[i] = s[i]
    BY <1>1, <1>2
  <2> QED BY <2>1, <2>3, <2>4, SeqEqual
<1> QED BY <1>2, <1>5, <1>7, <1>8 DEF t, l, rest, rest2

\* One comparison continues the mismatches when the job's digest is of another
\* content.
LEMMA CompareAdvances ==
    ASSUME NEW js \in Seq(Digest), NEW k \in Nat, k < Len(js), NEW content,
           NEW fs \in Seq(Finding),
           Selects(fs, MismatchesOf(js), {j \in 1 .. k : js[j].of # content})
    PROVE  Selects(IF content # js[k + 1].of THEN Append(fs, HashMismatch(js[k + 1].algorithm)) ELSE fs,
                   MismatchesOf(js), {j \in 1 .. k + 1 : js[j].of # content})
<1> DEFINE S == {j \in 1 .. k : js[j].of # content}
           S2 == {j \in 1 .. k + 1 : js[j].of # content}
<1>1. k + 1 \in 1 .. Len(js) /\ \A j \in 1 .. k + 1 : j \in 1 .. k \/ j = k + 1
  OBVIOUS
<1>2. \A j \in 1 .. k : j \in 1 .. k + 1
  OBVIOUS
<1>3. CASE content = js[k + 1].of
  <2>1. S2 = S
    BY <1>1, <1>2, <1>3
  <2> QED BY <2>1, <1>3
<1>4. CASE content # js[k + 1].of
  <2>1. S2 = S \cup {k + 1}
    <3>1. k + 1 \in 1 .. k + 1
      OBVIOUS
    <3> QED BY <3>1, <1>1, <1>2, <1>4
  <2>2. MismatchesOf(js)[k + 1] = HashMismatch(js[k + 1].algorithm)
    BY <1>1 DEF MismatchesOf
  <2>3. HashMismatch(js[k + 1].algorithm) \in Finding
    BY <1>1, MismatchTyped
  <2>4. S \in SUBSET Nat /\ \A j \in S : j < k + 1
    OBVIOUS
  <2> DEFINE ms == MismatchesOf(js)
             j == k + 1
  <2> HIDE DEF S, S2, ms, j
  <2>5. Selects(Append(fs, MismatchesOf(js)[k + 1]), MismatchesOf(js), S \cup {k + 1})
    <3>1. S \in SUBSET Nat /\ Selects(fs, ms, S) /\ j \in Nat /\ (\A i \in S : i < j) /\ ms[j] \in Finding
      BY <2>2, <2>3, <2>4 DEF S, ms, j
    <3>2. Selects(Append(fs, ms[j]), ms, S \cup {j})
      BY <3>1, SelectsAppend
    <3> QED BY <3>2 DEF ms, j
  <2> QED BY <2>1, <2>2, <2>5, <1>4 DEF S2
<1> QED BY <1>3, <1>4

\* The findings so far stay in the order of regions, then jobs.
LEMMA FindingsStep ==
    ASSUME Inv, [Next]_vars
    PROVE  FindingsSoFar'
<1>1. TypeOK /\ anomalies \in Seq(Finding) /\ FindingsSoFar
  BY DEF Inv
<1>2. CASE Open
  BY <1>1, <1>2 DEF Open, FindingsSoFar, Return
<1>3. CASE Collect
  <2>1. IsReader(rd)
    BY <1>1, <1>3 DEF Collect, TypeOK, Opened
  <2>2. anomalies' = RegionReport /\ jobs' = JobsOf(rd.image_hashes) /\ rd' = rd
        /\ stage' \in {"feed", "done"}
    BY <1>3 DEF Collect, RegionReport, Return
  <2>3. RegionReport' = RegionReport
    BY <2>2 DEF RegionReport
  <2>4. RegionReport \in Seq(Finding) /\ Len(RegionReport) \in Nat
    BY <2>1, RegionReportTyped
  <2>5. SubSeq(RegionReport, 1, Len(RegionReport)) = RegionReport
    BY <2>4, SubSeqFull
  <2>6. SubSeq(RegionReport, Len(RegionReport) + 1, Len(RegionReport)) = <<>>
    BY <2>4, SubSeqEmpty
  <2> QED BY <2>2, <2>3, <2>4, <2>5, <2>6 DEF FindingsSoFar, MismatchesSoFar
<1>4. CASE Feed \/ FeedFault
  <2>1. UNCHANGED <<rd, jobs, anomalies>> /\ stage = "feed" /\ stage' \in {"feed", "done"}
    BY <1>4 DEF Feed, FeedFault, Return
  <2>2. RegionReport' = RegionReport
    BY <2>1 DEF RegionReport
  <2> QED BY <2>1, <2>2, <1>1 DEF FindingsSoFar, MismatchesSoFar
<1>5. CASE FeedEnd
  <2>1. UNCHANGED <<rd, jobs, fed, anomalies>> /\ stage = "feed" /\ stage' = "compare" /\ idx' = 0
    BY <1>5 DEF FeedEnd
  <2>2. RegionReport' = RegionReport
    BY <2>1 DEF RegionReport
  <2>3. {j \in 1 .. 0 : jobs[j].of # fed} = {}
    OBVIOUS
  <2>4. jobs \in Seq(Digest)
    <3>1. rd.image_hashes \in Seq(Digest)
      BY <2>1, <1>1 DEF TypeOK, Opened, IsReader
    <3> QED BY <3>1, <2>1, <1>1, JobsSelected DEF FindingsSoFar
  <2>5. 0 <= Len(jobs)
    BY <2>4
  <2>6. Selects(<<>>, MismatchesOf(jobs), {j \in 1 .. 0 : jobs[j].of # fed})
    BY <2>3, SelectsNothing
  <2> QED BY <2>1, <2>2, <2>5, <2>6, <1>1 DEF FindingsSoFar, MismatchesSoFar
<1>6. CASE Compare
  <2>1. /\ UNCHANGED <<stage, rd, jobs, fed>> /\ stage = "compare" /\ idx' = idx + 1
        /\ idx \in Nat /\ idx < Len(jobs)
        /\ jobs = JobsOf(rd.image_hashes)
        /\ IsReader(rd)
    BY <1>1, <1>6 DEF Compare, FindingsSoFar, TypeOK, Opened
  <2>2. RegionReport' = RegionReport
    BY <2>1 DEF RegionReport
  <2>3. jobs \in Seq(Digest)
    BY <2>1, JobsSelected DEF IsReader
  <2> DEFINE x == HashMismatch(jobs[idx + 1].algorithm)
             n == Len(RegionReport)
             D == {j \in 1 .. idx + 1 : jobs[j].of # fed}
  <2>4. x \in Finding
    <3>1. jobs[idx + 1] \in Digest
      BY <2>1, <2>3
    <3> QED BY <3>1, MismatchTyped
  <2>5. n \in 0 .. Len(anomalies)
    BY <2>1, <1>1, RegionReportTyped DEF FindingsSoFar
  <2>6. /\ SubSeq(anomalies, 1, n) = RegionReport
        /\ Selects(MismatchesSoFar, MismatchesOf(jobs), {j \in 1 .. idx : jobs[j].of # fed})
    BY <2>1, <1>1 DEF FindingsSoFar
  <2> HIDE DEF n, x
  <2>7. /\ MismatchesSoFar \in Seq(Finding)
        /\ SubSeq(Append(anomalies, x), 1, n) = SubSeq(anomalies, 1, n)
        /\ SubSeq(Append(anomalies, x), n + 1, Len(Append(anomalies, x))) = Append(MismatchesSoFar, x)
    BY <2>4, <2>5, <1>1, AppendSuffix DEF MismatchesSoFar, n
  <2>8. Selects(IF fed # jobs[idx + 1].of THEN Append(MismatchesSoFar, x) ELSE MismatchesSoFar,
                MismatchesOf(jobs), D)
    BY <2>1, <2>3, <2>6, <2>7, CompareAdvances DEF x
  <2>9. idx + 1 <= Len(jobs)
    BY <2>1, <2>3
  <2> DEFINE Holds(a) ==
        /\ n <= Len(a)
        /\ SubSeq(a, 1, n) = RegionReport
        /\ Selects(SubSeq(a, n + 1, Len(a)), MismatchesOf(jobs), D)
  <2>10. Holds(anomalies')
    <3>1. CASE fed # jobs[idx + 1].of
      <4>1. anomalies' = Append(anomalies, x)
        BY <3>1, <1>6 DEF Compare, x
      <4>2. n <= Len(Append(anomalies, x))
        BY <2>5, <1>1
      <4> HIDE DEF D
      <4> QED BY <3>1, <4>1, <4>2, <2>6, <2>7, <2>8
    <3>2. CASE ~(fed # jobs[idx + 1].of)
      <4>1. anomalies' = anomalies
        BY <3>2, <1>6 DEF Compare
      <4>2. n <= Len(anomalies) /\ MismatchesSoFar = SubSeq(anomalies, n + 1, Len(anomalies))
        BY <2>5 DEF MismatchesSoFar, n
      <4> HIDE DEF D
      <4> QED BY <3>2, <4>1, <4>2, <2>6, <2>8
    <3> QED BY <3>1, <3>2
  <2>11. MismatchesSoFar' = SubSeq(anomalies', n + 1, Len(anomalies'))
    BY <2>2 DEF MismatchesSoFar, n
  <2>12. D = {j \in 1 .. idx' : jobs'[j].of # fed'}
    BY <2>1
  <2> HIDE DEF D
  <2> QED BY <2>1, <2>2, <2>9, <2>10, <2>11, <2>12 DEF FindingsSoFar, n
<1>7. CASE CompareEnd
  BY <1>7 DEF CompareEnd, FindingsSoFar, Return
<1>8. CASE UNCHANGED vars
  <2>1. RegionReport' = RegionReport /\ MismatchesSoFar' = MismatchesSoFar
    BY <1>8 DEF vars, RegionReport, MismatchesSoFar
  <2> QED BY <2>1, <1>1, <1>8 DEF vars, FindingsSoFar
<1> QED BY <1>2, <1>3, <1>4, <1>5, <1>6, <1>7, <1>8 DEF Next, Verify

\* What an audit that returns reports, given the findings it returns with.
LEMMA ReportExact ==
    ASSUME IsReader(rd), WellMapped(rd.loaded_map, rd.image_stream_size),
           NEW fs \in Seq(Finding), Len(RegionReport) <= Len(fs),
           SubSeq(fs, 1, Len(RegionReport)) = RegionReport,
           IsMismatchReport(SubSeq(fs, Len(RegionReport) + 1, Len(fs)))
    PROVE  \E cut \in 0 .. Len(fs) :
              /\ IsRegionReport(SubSeq(fs, 1, cut))
              /\ IsMismatchReport(SubSeq(fs, cut + 1, Len(fs)))
<1>1. Len(RegionReport) \in 0 .. Len(fs)
  BY RegionReportTyped
<1>2. IsRegionReport(SubSeq(fs, 1, Len(RegionReport)))
  BY RegionReportRight
<1> QED BY <1>1, <1>2

\* Every return of the audit is exact.
LEMMA ExactStep ==
    ASSUME Inv, [Next]_vars
    PROVE  FindingsExact'
<1>1. /\ TypeOK /\ anomalies \in Seq(Finding) /\ ContentSeen /\ FindingsSoFar /\ FindingsExact
      /\ stage # "done" => result = Pending
  BY DEF Inv, TypeOK
<1>2. CASE result'.res # "ok"
  BY <1>2 DEF FindingsExact
<1>3. CASE UNCHANGED <<file, rd, result>>
  <2>1. \A fs : IsRegionReport(fs)' = IsRegionReport(fs)
    BY <1>3 DEF IsRegionReport, UnreadableEntries
  <2>2. \A fs : IsMismatchReport(fs)' = IsMismatchReport(fs)
    BY <1>3 DEF IsMismatchReport
  <2> QED BY <2>1, <2>2, <1>1, <1>3 DEF FindingsExact
<1>4. CASE Collect /\ jobs' = <<>>
  <2>1. /\ IsReader(rd) /\ UNCHANGED <<file, rd>> /\ jobs' = JobsOf(rd.image_hashes)
        /\ anomalies' = RegionReport /\ result' = Report(RegionReport)
    BY <1>1, <1>4 DEF Collect, TypeOK, Opened, RegionReport, Return
  <2>2. RegionReport \in Seq(Finding) /\ Len(RegionReport) \in Nat
    BY <2>1, RegionReportTyped
  <2>3. Computable(rd.image_hashes) = {}
    <3>1. Selects(<<>>, rd.image_hashes, Computable(rd.image_hashes))
      BY <2>1, <1>4, JobsSelected DEF IsReader
    <3>2. Len(<<>>) = 0
      OBVIOUS
    <3> QED BY <3>1, <3>2 DEF Selects
  <2>4. IsMismatchReport(<<>>)
    <3>1. {i \in {} : rd.image_hashes[i].of # file.plain} = {}
      OBVIOUS
    <3> QED BY <3>1, <2>3, SelectsNothing DEF IsMismatchReport
  <2>5. /\ SubSeq(RegionReport, 1, Len(RegionReport)) = RegionReport
        /\ SubSeq(RegionReport, Len(RegionReport) + 1, Len(RegionReport)) = <<>>
    BY <2>2, SubSeqFull, SubSeqEmpty
  <2>6. ASSUME WellMapped(rd.loaded_map, rd.image_stream_size)
        PROVE  \E cut \in 0 .. Len(RegionReport) :
                  /\ IsRegionReport(SubSeq(RegionReport, 1, cut))
                  /\ IsMismatchReport(SubSeq(RegionReport, cut + 1, Len(RegionReport)))
    <3>1. IsMismatchReport(SubSeq(RegionReport, Len(RegionReport) + 1, Len(RegionReport)))
      BY <2>4, <2>5
    <3>2. Len(RegionReport) <= Len(RegionReport)
      BY <2>2
    <3> QED BY <3>1, <3>2, <2>1, <2>2, <2>5, <2>6, ReportExact
  <2>7. result'.findings = RegionReport
    BY <2>1 DEF Report
  <2>8. (\A fs : IsRegionReport(fs)' = IsRegionReport(fs))
        /\ (\A fs : IsMismatchReport(fs)' = IsMismatchReport(fs))
    BY <2>1 DEF IsRegionReport, UnreadableEntries, IsMismatchReport
  <2> QED BY <2>1, <2>6, <2>7, <2>8 DEF FindingsExact
<1>5. CASE CompareEnd
  <2>1. /\ IsReader(rd) /\ UNCHANGED <<file, rd>> /\ stage = "compare" /\ idx \in Nat
        /\ idx >= Len(jobs) /\ result' = Report(anomalies)
    BY <1>1, <1>5 DEF CompareEnd, TypeOK, Opened, Return
  <2>2. /\ jobs = JobsOf(rd.image_hashes) /\ idx <= Len(jobs)
        /\ Len(RegionReport) <= Len(anomalies)
        /\ SubSeq(anomalies, 1, Len(RegionReport)) = RegionReport
        /\ Selects(MismatchesSoFar, MismatchesOf(jobs), {j \in 1 .. idx : jobs[j].of # fed})
    BY <2>1, <1>1 DEF FindingsSoFar
  <2>3. rd.image_hashes \in Seq(Digest)
    BY <2>1 DEF IsReader
  <2>4. jobs \in Seq(Digest) /\ Len(jobs) \in Nat /\ Len(rd.image_hashes) \in Nat
    BY <2>2, <2>3, JobsSelected
  <2>5. idx = Len(jobs)
    BY <2>1, <2>2, <2>4
  <2>6. ASSUME WellStored(rd, file.plain), WellMapped(rd.loaded_map, rd.image_stream_size)
        PROVE  \E cut \in 0 .. Len(anomalies) :
                  /\ IsRegionReport(SubSeq(anomalies, 1, cut))
                  /\ IsMismatchReport(SubSeq(anomalies, cut + 1, Len(anomalies)))
    <3>1. fed = file.plain
      BY <2>1, <2>6, <1>1 DEF ContentSeen
    <3>2. Selects(MismatchesSoFar, MismatchesOf(jobs), {j \in 1 .. Len(jobs) : jobs[j].of # file.plain})
      BY <2>2, <2>5, <3>1
    <3>3. /\ Selects(jobs, rd.image_hashes, Computable(rd.image_hashes))
          /\ Computable(rd.image_hashes) \in SUBSET (1 .. Len(rd.image_hashes))
      BY <2>2, <2>3, JobsSelected
    <3>4. IsMismatchReport(MismatchesSoFar)
      <4> DEFINE hashes == rd.image_hashes
                 C == Computable(hashes)
                 content == file.plain
                 fs == MismatchesSoFar
                 J == {j \in 1 .. Len(jobs) : jobs[j].of # content}
                 D == {i \in C : hashes[i].of # content}
      <4>1. /\ C \in SUBSET (1 .. Len(hashes)) /\ Len(hashes) \in Nat /\ Len(jobs) \in Nat
            /\ Selects(jobs, hashes, C)
            /\ Selects(fs, MismatchesOf(jobs), J)
        BY <3>2, <3>3, <2>4
      <4> HIDE DEF hashes, C, content, fs
      <4>2. Selects(fs, MismatchesOf(hashes), D)
        <5>1. /\ \A j : j \in J <=> j \in 1 .. Len(jobs) /\ jobs[j].of # content
              /\ \A i : i \in D <=> i \in C /\ hashes[i].of # content
          OBVIOUS
        <5> HIDE DEF J, D
        <5> QED BY <4>1, <5>1, SelectsThrough
      <4> QED BY <4>2 DEF IsMismatchReport, hashes, C, content, fs
    <3> QED BY <3>4, <2>1, <2>2, <2>6, <1>1, ReportExact DEF MismatchesSoFar
  <2>7. result'.findings = anomalies
    BY <2>1 DEF Report
  <2>8. (\A fs : IsRegionReport(fs)' = IsRegionReport(fs))
        /\ (\A fs : IsMismatchReport(fs)' = IsMismatchReport(fs))
    BY <2>1 DEF IsRegionReport, UnreadableEntries, IsMismatchReport
  <2> QED BY <2>1, <2>6, <2>7, <2>8 DEF FindingsExact
<1>6. CASE Open
  <2>1. result'.res # "ok"
    BY <1>1, <1>6 DEF Open, Return, Failure, Pending
  <2> QED BY <2>1, <1>2
<1>7. CASE Collect /\ jobs' # <<>>
  BY <1>3, <1>7 DEF Collect
<1>8. CASE Feed
  <2>1. CASE ReadChunk(rd, idx).ok
    BY <2>1, <1>3, <1>8 DEF Feed
  <2>2. CASE ~ReadChunk(rd, idx).ok
    <3>1. result'.res # "ok"
      BY <2>2, <1>8 DEF Feed, Return, Failure
    <3> QED BY <3>1, <1>2
  <2> QED BY <2>1, <2>2
<1>9. CASE FeedFault
  <2>1. result'.res # "ok"
    BY <1>9 DEF FeedFault, Return, Failure
  <2> QED BY <2>1, <1>2
<1>10. CASE FeedEnd \/ Compare \/ UNCHANGED vars
  BY <1>3, <1>10 DEF FeedEnd, Compare, vars
<1> QED BY <1>4, <1>5, <1>6, <1>7, <1>8, <1>9, <1>10 DEF Next, Verify

----------------------------------------------------------------------------
\* The invariants of audit_image hold for every set of containers, with any
\* stored hashes, and wherever the medium fails.
LEMMA AuditInvariant == Spec => []Inv
<1>1. Init => Inv
  BY InvInit
<1>2. Inv /\ [Next]_vars => Inv'
  BY TypeStep, ContentStep, FindingsStep, ExactStep DEF Inv
<1> QED BY <1>1, <1>2, PTL DEF Spec

\* The audit works on a reader whose geometry, chunk tables and map are sound,
\* whatever the container holds, and has returned exactly when it is done; the jobs
\* that it hashes and compares for are the declared hashes of a supported algorithm,
\* one at least, each once and in the order declared.
THEOREM AuditTypeCorrect == Spec => []TypeOK
<1>1. Inv => TypeOK
  BY DEF Inv
<1> QED BY <1>1, AuditInvariant, PTL

\* What the hashers are updated with is the content of a well-stored stream, every
\* chunk once and in order, and without the padding of the last one.
THEOREM AuditHashesContent == Spec => []HashersSeeContent
<1>1. Inv => HashersSeeContent
  BY DEF Inv, ContentSeen
<1> QED BY <1>1, AuditInvariant, PTL

\* audit_image returns one finding for each unreadable region, in map order, and
\* then one for each supported digest that diverges, in the order declared, and no
\* other.
THEOREM AuditFindingsExact == Spec => []FindingsExact
<1>1. Inv => FindingsExact
  BY DEF Inv
<1> QED BY <1>1, AuditInvariant, PTL
=============================================================================
