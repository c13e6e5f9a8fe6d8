----------------------- MODULE LogicalContainerProofs -----------------------
(***************************************************************************)
(* LogicalContainer for every set of volumes: what opens as a collection   *)
(* has an entry for each of its files, reading one returns that file's     *)
(* content, and container_kind agrees with the openers.                    *)
(***************************************************************************)
EXTENDS LogicalContainer, EncryptedStreamProofs

----------------------------------------------------------------------------
(* Names                                                                   *)

\* str::trim_start_matches leaves a text that does not begin with a slash.
LEMMA TrimTyped ==
    ASSUME NEW s \in Seq(STRING)
    PROVE  /\ TrimSlashes(s) \in Seq(STRING)
           /\ TrimSlashes(s) # <<>> => TrimSlashes(s)[1] # "/"
           /\ \A i \in 1 .. Len(TrimSlashes(s)) :
                 \E j \in 1 .. Len(s) : TrimSlashes(s)[i] = s[j]
<1> DEFINE rest == {i \in 1 .. Len(s) : s[i] # "/"}
           f == CHOOSE i \in rest : \A j \in rest : i <= j
           t == SubSeq(s, f, Len(s))
<1>1. TrimSlashes(s) = IF rest = {} THEN <<>> ELSE t
  BY DEF TrimSlashes
<1>2. CASE rest = {}
  BY <1>1, <1>2
<1>3. CASE rest # {}
  <2>1. Len(s) \in Nat /\ rest \subseteq 1 .. Len(s)
    OBVIOUS
  <2>2. f \in rest
    BY <2>1, <1>3, LeastTaken
  <2> HIDE DEF f
  <2>3. f \in 1 .. Len(s) /\ s[f] # "/"
    BY <2>2
  <2> DEFINE a == f - 1
  <2>4. a \in Nat /\ a + 1 = f /\ a < Len(s)
    BY <2>1, <2>3
  <2> HIDE DEF a
  <2>5. t = Slice(s, a, Len(s))
    BY <2>4 DEF Slice
  <2> HIDE DEF t
  <2>6. /\ t \in Seq(STRING) /\ Len(t) = Len(s) - a
        /\ \A i \in 1 .. Len(s) - a : t[i] = s[a + i]
    <3> DEFINE n == Len(s)
    <3>1. a \in Nat /\ n \in Nat /\ a <= n /\ n <= Len(s) /\ t = Slice(s, a, n)
      BY <2>1, <2>4, <2>5
    <3> HIDE DEF n
    <3>2. /\ t \in Seq(STRING) /\ Len(t) = n - a
          /\ \A i \in 1 .. n - a : t[i] = s[a + i]
      BY <3>1, SliceTyped
    <3> QED BY <3>2 DEF n
  <2>7. t[1] = s[f]
    BY <2>1, <2>4, <2>6
  <2>8. \A i \in 1 .. Len(t) : a + i \in 1 .. Len(s) /\ t[i] = s[a + i]
    BY <2>1, <2>4, <2>6
  <2> QED BY <2>3, <2>6, <2>7, <2>8, <1>1, <1>3
<1> QED BY <1>2, <1>3

\* There is nothing left to trim.
LEMMA TrimAgain ==
    ASSUME NEW s \in Seq(STRING)
    PROVE  TrimSlashes(TrimSlashes(s)) = TrimSlashes(s)
<1> DEFINE t == TrimSlashes(s)
           rest == {i \in 1 .. Len(t) : t[i] # "/"}
           f == CHOOSE i \in rest : \A j \in rest : i <= j
<1>1. t \in Seq(STRING) /\ (t # <<>> => t[1] # "/")
  BY TrimTyped
<1> HIDE DEF t
<1>2. TrimSlashes(t) = IF rest = {} THEN <<>> ELSE SubSeq(t, f, Len(t))
  BY DEF TrimSlashes
<1>3. CASE t = <<>>
  <2>1. rest = {}
    BY <1>3
  <2> QED BY <2>1, <1>2, <1>3 DEF t
<1>4. CASE t # <<>>
  <2>1. Len(t) \in Nat /\ 1 \in 1 .. Len(t)
    BY <1>1, <1>4
  <2>2. 1 \in rest /\ rest \subseteq 1 .. Len(t)
    BY <2>1, <1>1, <1>4
  <2>3. f \in rest /\ f <= 1
    BY <2>1, <2>2, LeastTaken
  <2> HIDE DEF f
  <2>4. f = 1
    BY <2>2, <2>3
  <2>5. SubSeq(t, 1, Len(t)) = t
    BY <1>1, SubSeqFull
  <2> QED BY <2>2, <2>4, <2>5, <1>2 DEF t
<1> QED BY <1>3, <1>4

\* A text goes on as it begins.
LEMMA ConcatHead ==
    ASSUME NEW T, NEW s \in Seq(T), NEW t \in Seq(T), s # <<>>
    PROVE  s \o t \in Seq(T) /\ s \o t # <<>> /\ (s \o t)[1] = s[1]
<1>1. Len(s) \in Nat \ {0} /\ Len(t) \in Nat
  OBVIOUS
<1>2. 1 \in 1 .. Len(s) + Len(t) /\ 1 <= Len(s)
  BY <1>1
<1>3. s \o t \in Seq(T) /\ Len(s \o t) = Len(s) + Len(t) /\ (s \o t)[1] = s[1]
  BY <1>2, ConcatProperties
<1> QED BY <1>1, <1>3

\* The names tried for an ARN are texts.
LEMMA CandidatesTyped ==
    ASSUME NEW a, Spelled[a].authority \in Seq(STRING), Spelled[a].path \in Seq(STRING)
    PROVE  /\ PathTail(a) \in Seq(STRING)
           /\ Candidates(a)[1] = PathTail(a)
           /\ Candidates(a)[2] = TrimSlashes(PathTail(a))
           /\ Candidates(a)[3] # <<>> /\ Candidates(a)[3][1] = Encoded
<1>1. PathTail(a) \in Seq(STRING)
  BY DEF PathTail
<1>2. /\ Candidates(a)[1] = PathTail(a)
      /\ Candidates(a)[2] = TrimSlashes(PathTail(a))
      /\ Candidates(a)[3] = UrlencodeArn(a)
  BY DEF Candidates
<1>3. UrlencodeArn(a) # <<>> /\ UrlencodeArn(a)[1] = Encoded
  <2> DEFINE T == STRING \cup {Encoded}
             p == Spelled[a].authority
             q == Spelled[a].path
             e == <<Encoded>>
  <2>1. e \in Seq(T) /\ e # <<>> /\ e[1] = Encoded
    OBVIOUS
  <2>2. p \in Seq(T) /\ q \in Seq(T)
    OBVIOUS
  <2> HIDE DEF T, p, q, e
  <2>3. e \o p \in Seq(T) /\ e \o p # <<>> /\ (e \o p)[1] = e[1]
    BY <2>1, <2>2, ConcatHead
  <2>4. e \o p \o q # <<>> /\ (e \o p \o q)[1] = (e \o p)[1]
    <3> DEFINE u == e \o p
    <3>1. u \in Seq(T) /\ u # <<>>
      BY <2>3
    <3> HIDE DEF u
    <3>2. u \o q # <<>> /\ (u \o q)[1] = u[1]
      BY <3>1, <2>2, ConcatHead
    <3> QED BY <3>2 DEF u
  <2>5. UrlencodeArn(a) = e \o p \o q
    BY DEF UrlencodeArn, e, p, q
  <2> QED BY <2>1, <2>3, <2>4, <2>5
<1> QED BY <1>1, <1>2, <1>3

----------------------------------------------------------------------------
(* The metadata                                                            *)

\* parse_logical_files lists the files of the turtle, and none without an ARN.
LEMMA LogicalFilesParsed ==
    ASSUME NEW v, IsVolume(v), ParseLogicalFiles(v.turtle).ok
    PROVE  LET parsed == ParseLogicalFiles(v.turtle)
           IN  /\ NoArn \notin Arns(v)
               /\ Len(parsed.val) \in Nat
               /\ parsed.val # <<>> => Len(parsed.val) # 0
               /\ \A i \in 1 .. Len(parsed.val) :
                     /\ parsed.val[i].arn \in Arns(v)
                     /\ \E j \in 1 .. Len(v.turtle) :
                           /\ "aff4:FileImage" \in v.turtle[j].words
                           /\ parsed.val[i].arn = v.turtle[j].iri
                           /\ parsed.val[i].hashes = v.turtle[j].hashes
<1> DEFINE blocks == v.turtle
           about == WithWord(blocks, "aff4:FileImage")
           nodes == Arrange(blocks, about, Ascending(about))
           c == Cardinality(about)
           Meta(b) == [arn |-> b.iri,
                       original_file_name |-> IF b.name.ok THEN b.name.val ELSE b.iri,
                       size |-> IF b.size = NoNumber THEN 0 ELSE b.size,
                       hashes |-> b.hashes,
                       last_written |-> b.lastWritten]
           val == [i \in 1 .. Len(nodes) |-> Meta(nodes[i])]
<1>1. Len(blocks) \in Nat
  BY DEF IsVolume
<1>2. about \in SUBSET (1 .. Len(blocks)) /\ \A i \in about : "aff4:FileImage" \in blocks[i].words
  BY DEF WithWord
<1>3. IsFiniteSet(about)
  <2>1. IsFiniteSet(1 .. Len(blocks))
    BY <1>1, FS_Interval
  <2> QED BY <2>1, <1>2, FS_Subset
<1> HIDE DEF about
<1>4. StrictOrder(Ascending(about), about)
  <2>1. \A i \in about : i \in Int
    BY <1>1, <1>2
  <2> QED BY <2>1 DEF StrictOrder, Ascending
<1>5. /\ nodes = [k \in 1 .. c |-> nodes[k]]
      /\ \A k \in 1 .. c : \E i \in about : nodes[k] = blocks[i]
  BY <1>3, <1>4, ArrangeOrdered
<1>6. \A i \in about : \E k \in 1 .. c : nodes[k] = blocks[i]
  <2>1. PICK at \in [1 .. c -> about] : IsPlacing(at, nodes, c, blocks, about, Ascending(about))
    BY <1>3, <1>4, ArrangePlaces
  <2> HIDE DEF nodes, c
  <2> QED BY <2>1 DEF IsPlacing
<1>7. c \in Nat
  BY <1>3, FS_CardinalityType
<1> HIDE DEF nodes, c
<1>8. Len(nodes) = c
  BY <1>5, <1>7
<1>9. /\ \A i \in 1 .. Len(nodes) : nodes[i].iri # NoArn
      /\ ParseLogicalFiles(blocks) = Ok(val)
  BY DEF ParseLogicalFiles, about, nodes, Err, Ok
<1>10. ParseLogicalFiles(blocks).val = val
  BY <1>9 DEF Ok
<1>11. Len(val) = c /\ (val # <<>> => c # 0)
  BY <1>7, <1>8
<1>12. ASSUME NEW i \in 1 .. c
       PROVE  /\ val[i].arn \in Arns(v)
              /\ \E j \in 1 .. Len(blocks) :
                    /\ "aff4:FileImage" \in blocks[j].words
                    /\ val[i].arn = blocks[j].iri
                    /\ val[i].hashes = blocks[j].hashes
  <2>1. PICK j \in about : nodes[i] = blocks[j]
    BY <1>5
  <2>2. j \in 1 .. Len(blocks) /\ "aff4:FileImage" \in blocks[j].words
    BY <1>2
  <2>3. val[i].arn = blocks[j].iri /\ val[i].hashes = blocks[j].hashes
    BY <2>1, <1>8
  <2>4. blocks[j].iri \in Arns(v)
    BY <2>2 DEF Arns
  <2> QED BY <2>2, <2>3, <2>4
<1>13. NoArn \notin Arns(v)
  <2> SUFFICES ASSUME NEW i \in about PROVE blocks[i].iri # NoArn
    BY DEF Arns, WithWord, about
  <2>1. PICK k \in 1 .. c : nodes[k] = blocks[i]
    BY <1>6
  <2> QED BY <2>1, <1>8, <1>9
<1> HIDE DEF val
<1> QED BY <1>7, <1>10, <1>11, <1>12, <1>13

----------------------------------------------------------------------------
(* The resolution of an ARN                                                *)

\* max_by_key finds an entry among those that it compares.
LEMMA LongestTaken ==
    ASSUME NEW n \in Nat, NEW names, \A i \in 1 .. n : names[i] \in Seq(STRING),
           NEW S \in SUBSET (1 .. n), S # {}
    PROVE  \E i \in S : LongestOf(names, S) = names[i]
<1> DEFINE w(i) == Width(names[i])
           R == {p \in S \X S : w(p[1]) < w(p[2]) \/ (w(p[1]) = w(p[2]) /\ p[1] < p[2])}
           c == Cardinality(S)
           Last(i) == \A j \in S \ {i} : w(j) < w(i) \/ (w(j) = w(i) /\ j < i)
<1>1. \A i \in S : i \in Int /\ w(i) \in Nat
  <2> SUFFICES ASSUME NEW i \in S PROVE i \in Int /\ w(i) \in Nat
    OBVIOUS
  <2>1. i \in 1 .. n /\ Len(names[i]) \in Nat
    OBVIOUS
  <2> DEFINE E == {j \in 1 .. Len(names[i]) : names[i][j] = Encoded}
  <2>2. E \in SUBSET (1 .. Len(names[i]))
    OBVIOUS
  <2> HIDE DEF E
  <2>3. IsFiniteSet(1 .. Len(names[i]))
    BY <2>1, FS_Interval
  <2>4. Cardinality(E) \in Nat
    BY <2>2, <2>3, FS_Subset, FS_CardinalityType
  <2>5. Len(names[i]) + 12 * Cardinality(E) \in Nat
    BY <2>1, <2>4
  <2> QED BY <2>1, <2>5 DEF Width, E
<1> HIDE DEF w
<1>2. IsFiniteSet(S)
  <2>1. IsFiniteSet(1 .. n)
    BY FS_Interval
  <2> QED BY <2>1, FS_Subset
<1>3. StrictOrder(R, S)
  BY <1>1 DEF StrictOrder
<1>4. c \in Nat /\ c # 0
  BY <1>2, FS_CardinalityType, FS_EmptySet
<1>5. PICK at \in [1 .. c -> S] : IsPlacing(at, Arrange(names, S, R), c, names, S, R)
  BY <1>2, <1>3, ArrangePlaces
<1>6. \A i, j \in S : <<i, j>> \in R => w(i) < w(j) \/ (w(i) = w(j) /\ i < j)
  OBVIOUS
<1> HIDE DEF R, c
<1>7. c \in 1 .. c /\ at[c] \in S
  BY <1>4
<1>8. Last(at[c])
  <2> SUFFICES ASSUME NEW j \in S, j # at[c]
               PROVE  w(j) < w(at[c]) \/ (w(j) = w(at[c]) /\ j < at[c])
    OBVIOUS
  <2>1. PICK k \in 1 .. c : at[k] = j
    BY <1>5 DEF IsPlacing
  <2>2. k < c
    BY <2>1, <1>4
  <2>3. <<j, at[c]>> \in R
    BY <2>1, <2>2, <1>5, <1>7 DEF IsPlacing
  <2> QED BY <2>3, <1>6, <1>7
<1> DEFINE m == CHOOSE i \in S : Last(i)
<1>9. m \in S
  BY <1>7, <1>8
<1>10. LongestOf(names, S) = names[m]
  BY DEF LongestOf, w
<1> QED BY <1>9, <1>10

\* The segment of a file is the name of an entry of the archive.
LEMMA SegmentExists ==
    ASSUME NEW v, IsVolume(v), NEW arn, ResolveSegment(NamesOf(v), arn).ok
    PROVE  \E k \in 1 .. Len(v.entries) :
              v.entries[k].name = ResolveSegment(NamesOf(v), arn).val
<1> DEFINE names == NamesOf(v)
           n == Len(v.entries)
           exact == {c \in 1 .. 3 : \E i \in 1 .. Len(names) : names[i] = Candidates(arn)[c]}
           first == CHOOSE c \in exact : \A d \in exact : c <= d
           S == SuffixMatches(names, arn)
           o == ResolveSegment(names, arn)
<1>1. n \in Nat /\ Len(names) = n /\ \A i \in 1 .. n : names[i] = v.entries[i].name
  BY DEF IsVolume, NamesOf
<1>2. \A i \in 1 .. n : names[i] \in Seq(STRING)
  BY <1>1 DEF IsVolume
<1>3. exact \subseteq 1 .. 3 /\ S \in SUBSET (1 .. n)
  BY <1>1 DEF SuffixMatches
<1>4. o = IF exact # {} THEN Ok(Candidates(arn)[first])
          ELSE IF S # {} THEN Ok(LongestOf(names, S)) ELSE Err("BadFormat")
  BY DEF ResolveSegment
<1>5. CASE exact # {}
  <2>1. first \in exact
    BY <1>3, <1>5, LeastTaken
  <2> HIDE DEF first
  <2>2. PICK i \in 1 .. Len(names) : names[i] = Candidates(arn)[first]
    BY <2>1
  <2>3. o.val = Candidates(arn)[first]
    BY <1>4, <1>5 DEF Ok
  <2> QED BY <2>2, <2>3, <1>1
<1>6. CASE exact = {}
  <2> HIDE DEF exact, S, names
  <2>1. S # {} /\ o.val = LongestOf(names, S)
    BY <1>4, <1>6 DEF Ok, Err, names
  <2>2. PICK i \in S : LongestOf(names, S) = names[i]
    BY <2>1, <1>1, <1>2, <1>3, LongestTaken
  <2>3. i \in 1 .. n /\ names[i] = v.entries[i].name
    BY <1>1, <1>3
  <2> QED BY <2>1, <2>2, <2>3 DEF names
<1> QED BY <1>5, <1>6

\* Of two files of one naming convention, the first is not found under the name of
\* the second by a convention that is tried before: its name would be the same.
LEMMA NamesApart ==
    ASSUME NEW a, Spelled[a].authority \in Seq(STRING), Spelled[a].path \in Seq(STRING),
           NEW b, Spelled[b].authority \in Seq(STRING), Spelled[b].path \in Seq(STRING),
           NEW c \in 1 .. 3, NEW tried \in 1 .. 3, tried <= c,
           Candidates(b)[c] = Candidates(a)[tried],
           \A i \in 1 .. Len(PathTail(a)) : PathTail(a)[i] # Encoded
    PROVE  Candidates(b)[c] = Candidates(a)[c]
<1>1. /\ PathTail(a) \in Seq(STRING) /\ PathTail(b) \in Seq(STRING)
      /\ Candidates(a)[1] = PathTail(a) /\ Candidates(b)[1] = PathTail(b)
      /\ Candidates(a)[2] = TrimSlashes(PathTail(a))
      /\ Candidates(b)[2] = TrimSlashes(PathTail(b))
      /\ Candidates(b)[3] # <<>> /\ Candidates(b)[3][1] = Encoded
  BY CandidatesTyped
<1>2. CASE tried = c
  BY <1>2
<1>3. CASE c = 2 /\ tried = 1
  <2>1. TrimSlashes(PathTail(b)) = PathTail(a)
    BY <1>1, <1>3
  <2>2. TrimSlashes(TrimSlashes(PathTail(b))) = TrimSlashes(PathTail(b))
    BY <1>1, TrimAgain
  <2> QED BY <2>1, <2>2, <1>1, <1>3
<1>4. CASE c = 3 /\ tried \in {1, 2}
  <2> DEFINE s == Candidates(a)[tried]
  <2>1. \A i \in 1 .. Len(s) : s[i] # Encoded
    <3>1. \A i \in 1 .. Len(TrimSlashes(PathTail(a))) :
             \E j \in 1 .. Len(PathTail(a)) : TrimSlashes(PathTail(a))[i] = PathTail(a)[j]
      BY <1>1, TrimTyped
    <3>2. \A i \in 1 .. Len(TrimSlashes(PathTail(a))) : TrimSlashes(PathTail(a))[i] # Encoded
      BY <3>1
    <3>3. s = PathTail(a) \/ s = TrimSlashes(PathTail(a))
      BY <1>1, <1>4
    <3> HIDE DEF s
    <3> QED BY <3>2, <3>3
  <2>2. s \in Seq(STRING)
    BY <1>1, <1>4, TrimTyped
  <2>3. s # <<>> /\ s[1] = Encoded
    BY <1>1, <1>4
  <2> HIDE DEF s
  <2>4. 1 \in 1 .. Len(s)
    BY <2>2, <2>3
  <2> QED BY <2>1, <2>3, <2>4
<1> QED BY <1>2, <1>3, <1>4

\* In a volume whose files all follow one convention, the segment of a file holds
\* what was stored of that file.
LEMMA SegmentIsItsOwn ==
    ASSUME NEW v, IsVolume(v), NoArn \notin Arns(v), Consistent(v),
           NEW a \in Arns(v), ResolveSegment(NamesOf(v), a).ok,
           NEW k \in 1 .. Len(v.entries),
           v.entries[k].name = ResolveSegment(NamesOf(v), a).val
    PROVE  v.entries[k].content = v.captured[a]
<1> DEFINE names == NamesOf(v)
           n == Len(v.entries)
           exact == {c \in 1 .. 3 : \E i \in 1 .. Len(names) : names[i] = Candidates(a)[c]}
           first == CHOOSE c \in exact : \A d \in exact : c <= d
<1>1. n \in Nat /\ Len(names) = n /\ \A i \in 1 .. n : names[i] = v.entries[i].name
  BY DEF IsVolume, NamesOf
<1>2. \A b \in Arns(v) : Spelled[b].authority \in Seq(STRING) /\ Spelled[b].path \in Seq(STRING)
  BY DEF IsVolume
<1>3. PICK c \in 1 .. 3 :
         /\ \A b, d \in Arns(v) : b # d => Candidates(b)[c] # Candidates(d)[c]
         /\ \A b \in Arns(v) : \E i \in 1 .. n :
               v.entries[i] = [name |-> Candidates(b)[c], content |-> v.captured[b]]
         /\ \A i, j \in 1 .. n : v.entries[i].name = v.entries[j].name => i = j
         /\ \A i \in 1 .. n :
               \/ \E b \in Arns(v) : v.entries[i].name = Candidates(b)[c]
               \/ \A b \in Arns(v), d \in 1 .. 3 : v.entries[i].name # Candidates(b)[d]
  BY DEF Consistent, StoredUnder
<1>4. PICK own \in 1 .. n :
         v.entries[own] = [name |-> Candidates(a)[c], content |-> v.captured[a]]
  BY <1>3
<1>5. v.entries[own].name = Candidates(a)[c] /\ v.entries[own].content = v.captured[a]
  BY <1>4
<1>6. c \in exact /\ exact \subseteq 1 .. 3
  BY <1>1, <1>5
<1>7. first \in exact /\ first <= c
  BY <1>6, LeastTaken
<1>8. ResolveSegment(names, a).val = Candidates(a)[first]
  BY <1>6 DEF ResolveSegment, Ok
<1> HIDE DEF first, exact
<1>9. first \in 1 .. 3
  BY <1>6, <1>7
<1>10. PICK b \in Arns(v) : v.entries[k].name = Candidates(b)[c]
  BY <1>3, <1>8, <1>9
<1>11. \A i \in 1 .. Len(PathTail(a)) : PathTail(a)[i] # Encoded
  BY DEF Consistent, SchemeFree
<1>12. Candidates(b)[c] = Candidates(a)[first]
  BY <1>8, <1>10
<1>13. Candidates(b)[c] = Candidates(a)[c]
  BY <1>2, <1>7, <1>9, <1>11, <1>12, NamesApart
<1>14. k = own
  BY <1>3, <1>5, <1>10, <1>13
<1> QED BY <1>5, <1>14

----------------------------------------------------------------------------
(* The decryption inside                                                   *)

\* The decryption that open_encrypted runs is decrypt_reader's, undisturbed: the
\* container takes its steps or leaves it alone.
THEOREM LogicalRunsDecryption == LSpec => Spec
<1>1. LInit => Init
  BY DEF LInit
<1>2. [LNext]_<<vars, container>> => [Next]_vars
  <2> SUFFICES ASSUME [LNext]_<<vars, container>> PROVE [Next]_vars
    OBVIOUS
  <2>1. CASE Decrypt \/ DecryptFault
    BY <2>1 DEF Decrypt, DecryptFault, Next
  <2>2. CASE OpenPlain \/ OpenEncrypted \/ OpenInner
    BY <2>2 DEF OpenPlain, OpenEncrypted, OpenInner
  <2>3. CASE \E i \in 1 .. Len(files) : ReadFile(i) \/ ReadFails(i)
    BY <2>3 DEF ReadFile, ReadFails
  <2>4. CASE UNCHANGED <<vars, container>>
    BY <2>4
  <2> QED BY <2>1, <2>2, <2>3, <2>4 DEF LNext
<1> QED BY <1>1, <1>2, PTL DEF LSpec, Spec

----------------------------------------------------------------------------
(* The container                                                           *)

\* The files of an open container are what its volume says, and the volume is the
\* archive itself unless it was decrypted.
Opened ==
    phase = "open" =>
        /\ IsVolume(volume)
        /\ OpenLogical(volume).ok
        /\ files = OpenLogical(volume).val
        /\ step = "open" => volume = file

\* What was read of a file is the content of an entry of its segment's name.
ReadOfSegment ==
    read.res = "ok" =>
        /\ phase = "open"
        /\ read.file \in 1 .. Len(files)
        /\ \E k \in 1 .. Len(volume.entries) :
              /\ volume.entries[k].name = files[read.file].segment
              /\ read.content = volume.entries[k].content

\* Only an encrypted stream is decrypted.
DecryptsEncrypted ==
    step \in {"segment", "chunk"} => WithWord(file.turtle, "aff4:EncryptedStream") # {}

LInv ==
    /\ phase \in {"closed", "decrypting", "open", "refused"}
    /\ Opened
    /\ ReadOfSegment
    /\ DecryptsEncrypted

\* What opens has a file, and an entry for each file it lists.
LEMMA OpensWhole ==
    ASSUME NEW v, IsVolume(v), OpenLogical(v).ok, NEW fs, fs = OpenLogical(v).val
    PROVE  /\ v.has_turtle /\ ParseLogicalFiles(v.turtle).ok
           /\ ParseLogicalFiles(v.turtle).val # <<>>
           /\ fs # <<>>
           /\ NoArn \notin Arns(v)
           /\ \A i \in 1 .. Len(fs) :
                 /\ fs[i].arn \in Arns(v)
                 /\ ResolveSegment(NamesOf(v), fs[i].arn).ok
                 /\ fs[i].segment = ResolveSegment(NamesOf(v), fs[i].arn).val
                 /\ \E j \in 1 .. Len(v.turtle) :
                       /\ "aff4:FileImage" \in v.turtle[j].words
                       /\ fs[i].arn = v.turtle[j].iri
                       /\ fs[i].hashes = v.turtle[j].hashes
<1> DEFINE parsed == ParseLogicalFiles(v.turtle)
           n == Len(parsed.val)
           S(i) == ResolveSegment(NamesOf(v), parsed.val[i].arn)
<1>1. /\ v.has_turtle /\ parsed.ok /\ parsed.val # <<>>
      /\ \A i \in 1 .. n : S(i).ok
      /\ fs = [i \in 1 .. n |->
                  [arn |-> parsed.val[i].arn, segment |-> S(i).val,
                   original_file_name |-> parsed.val[i].original_file_name,
                   size |-> parsed.val[i].size,
                   hashes |-> parsed.val[i].hashes, last_written |-> parsed.val[i].last_written]]
  BY DEF OpenLogical, Ok, Err
<1>2. /\ NoArn \notin Arns(v)
      /\ n \in Nat /\ n # 0
      /\ \A i \in 1 .. n :
            /\ parsed.val[i].arn \in Arns(v)
            /\ \E j \in 1 .. Len(v.turtle) :
                  /\ "aff4:FileImage" \in v.turtle[j].words
                  /\ parsed.val[i].arn = v.turtle[j].iri
                  /\ parsed.val[i].hashes = v.turtle[j].hashes
  BY <1>1, LogicalFilesParsed
<1> HIDE DEF parsed, n
<1>3. Len(fs) = n /\ fs # <<>>
  BY <1>1, <1>2
<1>4. \A i \in 1 .. n :
         /\ fs[i].arn = parsed.val[i].arn /\ fs[i].segment = S(i).val
         /\ fs[i].hashes = parsed.val[i].hashes
  BY <1>1
<1>5. \A i \in 1 .. n :
         /\ ResolveSegment(NamesOf(v), fs[i].arn).ok
         /\ fs[i].segment = ResolveSegment(NamesOf(v), fs[i].arn).val
  BY <1>1, <1>4
<1>6. \A i \in 1 .. n :
         /\ fs[i].arn \in Arns(v)
         /\ \E j \in 1 .. Len(v.turtle) :
               /\ "aff4:FileImage" \in v.turtle[j].words
               /\ fs[i].arn = v.turtle[j].iri
               /\ fs[i].hashes = v.turtle[j].hashes
  <2> TAKE i \in 1 .. n
  <2>1. PICK j \in 1 .. Len(v.turtle) :
           /\ "aff4:FileImage" \in v.turtle[j].words
           /\ parsed.val[i].arn = v.turtle[j].iri
           /\ parsed.val[i].hashes = v.turtle[j].hashes
    BY <1>2
  <2>2. fs[i].arn = v.turtle[j].iri /\ fs[i].hashes = v.turtle[j].hashes /\ fs[i].arn \in Arns(v)
    BY <2>1, <1>2, <1>4
  <2> QED BY <2>1, <2>2
<1>7. v.has_turtle /\ ParseLogicalFiles(v.turtle).ok /\ ParseLogicalFiles(v.turtle).val # <<>>
  BY <1>1 DEF parsed
<1> QED BY <1>2, <1>3, <1>5, <1>6, <1>7

\* No volume is open and no file has been read.
LEMMA LInvInit == LInit => LInv
BY DEF LInit, Init, LInv, Opened, ReadOfSegment, DecryptsEncrypted, NoRead

\* Opening a volume establishes what is said of open containers.
LEMMA OpenedBy ==
    ASSUME LInv, NEW v, IsVolume(v), OpenReaderOn(v), phase # "open",
           UNCHANGED <<vars, read>>, step = "open" => v = file
    PROVE  LInv'
<1>1. \/ /\ OpenLogical(v).ok /\ phase' = "open" /\ volume' = v /\ files' = OpenLogical(v).val
      \/ phase' = "refused"
  BY DEF OpenReaderOn
<1>2. UNCHANGED <<step, file, read>> /\ read.res # "ok"
  BY DEF vars, LInv, ReadOfSegment
<1>3. (phase' = "open") => /\ IsVolume(volume') /\ OpenLogical(volume').ok
                           /\ files' = OpenLogical(volume').val
                           /\ (step = "open" => volume' = file)
  BY <1>1
<1>4. Opened'
  BY <1>2, <1>3 DEF Opened
<1>5. ReadOfSegment' /\ DecryptsEncrypted'
  BY <1>2 DEF LInv, ReadOfSegment, DecryptsEncrypted
<1> QED BY <1>1, <1>4, <1>5 DEF LInv

\* A container that is not opened, or refused, or left alone.
LEMMA LeftClosed ==
    ASSUME LInv, phase' \in {"decrypting", "refused"}, read' = read, read.res # "ok",
           DecryptsEncrypted'
    PROVE  LInv'
BY DEF LInv, Opened, ReadOfSegment

\* Opening lists a volume's own files, read_file reads a listed one, and decryption touches neither.
LEMMA LInvStep ==
    ASSUME LInv, TypeOK, [LNext]_<<vars, container>>
    PROVE  LInv'
<1>1. file \in Files /\ IsVolume(file)
  BY VolumeAssumption DEF TypeOK
<1>2. phase # "open" => read.res # "ok"
  BY DEF LInv, ReadOfSegment
<1>3. UNCHANGED vars => DecryptsEncrypted'
  BY DEF vars, LInv, DecryptsEncrypted
<1>4. CASE OpenPlain
  <2>1. CASE OpenReaderOn(file)
    BY <2>1, <1>1, <1>4, OpenedBy DEF OpenPlain
  <2>2. CASE Refuse
    BY <2>2, <1>2, <1>3, <1>4, LeftClosed DEF OpenPlain, Refuse
  <2> QED BY <2>1, <2>2, <1>4 DEF OpenPlain
<1>5. CASE OpenEncrypted
  BY <1>2, <1>3, <1>5, LeftClosed DEF OpenEncrypted
<1>6. CASE Decrypt \/ DecryptFault
  <2>1. /\ phase = "decrypting" /\ UNCHANGED container /\ Next
    BY <1>6 DEF Decrypt, DecryptFault, Next
  <2>2. DecryptsEncrypted'
    <3>1. CASE Open /\ step' # "done"
      <4>1. ParseEncryptedMeta(file.turtle).ok /\ UNCHANGED file
        BY <3>1 DEF Open, Return
      <4>2. WithWord(file.turtle, "aff4:EncryptedStream") # {}
        BY <4>1 DEF ParseEncryptedMeta, Err
      <4> QED BY <4>1, <4>2 DEF DecryptsEncrypted
    <3>2. CASE step' = "done"
      BY <3>2 DEF DecryptsEncrypted
    <3>3. CASE ~Open /\ step' # "done"
      <4>1. UNCHANGED file /\ step \in {"segment", "chunk"}
        BY <3>3, <2>1 DEF Next, Advance, LoadSegment, Finished, DecryptChunk, NextSegment, Fault,
                          Return
      <4> QED BY <4>1 DEF LInv, DecryptsEncrypted
    <3> QED BY <3>1, <3>2, <3>3
  <2> QED BY <2>1, <2>2, <1>2, LeftClosed DEF container
<1>7. CASE OpenInner
  <2>1. phase = "decrypting" /\ step = "done" /\ UNCHANGED <<vars, read>>
    BY <1>7 DEF OpenInner
  <2>2. CASE outcome.bytes \in DOMAIN Volumes /\ OpenReaderOn(Volumes[outcome.bytes])
    <3>1. IsVolume(Volumes[outcome.bytes])
      BY <2>2, VolumeAssumption
    <3> QED BY <2>1, <2>2, <3>1, OpenedBy
  <2>3. CASE Refuse
    BY <2>1, <2>3, <1>2, <1>3, LeftClosed DEF Refuse
  <2> QED BY <2>2, <2>3, <1>7 DEF OpenInner
<1>8. CASE \E i \in 1 .. Len(files) : ReadFile(i) \/ ReadFails(i)
  <2>1. PICK i \in 1 .. Len(files) : ReadFile(i) \/ ReadFails(i)
    BY <1>8
  <2>2. phase = "open" /\ UNCHANGED <<vars, phase, volume, files>>
    BY <2>1 DEF ReadFile, ReadFails
  <2>3. step' = step /\ file' = file
    BY <2>2 DEF vars
  <2>4. Opened'
    BY <2>2, <2>3 DEF LInv, Opened
  <2>5. ReadOfSegment'
    <3>1. CASE ReadFile(i)
      <4>1. PICK k \in 1 .. Len(volume.entries) :
               /\ volume.entries[k].name = files[i].segment
               /\ read' = [file |-> i, res |-> "ok", content |-> volume.entries[k].content]
        BY <3>1 DEF ReadFile
      <4> QED BY <4>1, <2>2 DEF ReadOfSegment
    <3>2. CASE ReadFails(i)
      <4>1. read'.res = "err"
        BY <3>2 DEF ReadFails
      <4> QED BY <4>1 DEF ReadOfSegment
    <3> QED BY <3>1, <3>2, <2>1
  <2> QED BY <2>2, <2>4, <2>5, <1>3 DEF LInv
<1>9. CASE UNCHANGED <<vars, container>>
  BY <1>9 DEF LInv, Opened, ReadOfSegment, DecryptsEncrypted, vars, container
<1> QED BY <1>4, <1>5, <1>6, <1>7, <1>8, <1>9 DEF LNext

----------------------------------------------------------------------------
(* The properties                                                          *)

\* A volume that open lets through lists some file, each with an entry of the archive.
LEMMA InvariantTypes ==
    ASSUME LInv
    PROVE  LTypeOK
<1> SUFFICES ASSUME phase = "open"
             PROVE  /\ files # <<>>
                    /\ \A i \in 1 .. Len(files) :
                          \E k \in 1 .. Len(volume.entries) :
                             volume.entries[k].name = files[i].segment
  BY DEF LInv, LTypeOK
<1>1. IsVolume(volume) /\ OpenLogical(volume).ok /\ files = OpenLogical(volume).val
  BY DEF LInv, Opened
<1>2. files # <<>>
  BY <1>1, OpensWhole
<1>3. ASSUME NEW i \in 1 .. Len(files)
      PROVE  \E k \in 1 .. Len(volume.entries) : volume.entries[k].name = files[i].segment
  <2>1. /\ ResolveSegment(NamesOf(volume), files[i].arn).ok
        /\ files[i].segment = ResolveSegment(NamesOf(volume), files[i].arn).val
    BY <1>1, OpensWhole
  <2>2. \E k \in 1 .. Len(volume.entries) :
           volume.entries[k].name = ResolveSegment(NamesOf(volume), files[i].arn).val
    BY <2>1, <1>1, SegmentExists
  <2> QED BY <2>1, <2>2
<1> QED BY <1>2, <1>3

\* On a volume whose names can be told apart the entry read is the listed file's own.
LEMMA InvariantContent ==
    ASSUME LInv
    PROVE  FilesAreTheirOwn
<1> SUFFICES ASSUME phase = "open", Consistent(volume), read.res = "ok"
             PROVE  /\ read.content = volume.captured[files[read.file].arn]
                    /\ \A k \in 1 .. Len(files[read.file].hashes) :
                          files[read.file].hashes[k].of = read.content
  BY DEF FilesAreTheirOwn, OwnContent
<1>1. IsVolume(volume) /\ OpenLogical(volume).ok /\ files = OpenLogical(volume).val
  BY DEF LInv, Opened
<1> DEFINE i == read.file
           a == files[i].arn
<1>2. /\ i \in 1 .. Len(files)
      /\ \E k \in 1 .. Len(volume.entries) :
            volume.entries[k].name = files[i].segment /\ read.content = volume.entries[k].content
  BY DEF LInv, ReadOfSegment
<1> HIDE DEF i
<1>3. PICK k \in 1 .. Len(volume.entries) :
         volume.entries[k].name = files[i].segment /\ read.content = volume.entries[k].content
  BY <1>2
<1> HIDE DEF a
<1>4. /\ NoArn \notin Arns(volume)
      /\ a \in Arns(volume)
      /\ ResolveSegment(NamesOf(volume), a).ok
      /\ files[i].segment = ResolveSegment(NamesOf(volume), a).val
      /\ \E j \in 1 .. Len(volume.turtle) :
            /\ "aff4:FileImage" \in volume.turtle[j].words
            /\ a = volume.turtle[j].iri
            /\ files[i].hashes = volume.turtle[j].hashes
  <2>1. /\ NoArn \notin Arns(volume)
        /\ \A n \in 1 .. Len(files) :
              /\ files[n].arn \in Arns(volume)
              /\ ResolveSegment(NamesOf(volume), files[n].arn).ok
              /\ files[n].segment = ResolveSegment(NamesOf(volume), files[n].arn).val
              /\ \E j \in 1 .. Len(volume.turtle) :
                    /\ "aff4:FileImage" \in volume.turtle[j].words
                    /\ files[n].arn = volume.turtle[j].iri
                    /\ files[n].hashes = volume.turtle[j].hashes
    BY <1>1, OpensWhole
  <2>2. a = files[i].arn
    BY DEF a
  <2>3. PICK j \in 1 .. Len(volume.turtle) :
           /\ "aff4:FileImage" \in volume.turtle[j].words
           /\ files[i].arn = volume.turtle[j].iri
           /\ files[i].hashes = volume.turtle[j].hashes
    BY <2>1, <1>2
  <2> QED BY <2>1, <2>2, <2>3, <1>2
<1>5. read.content = volume.captured[a]
  BY <1>1, <1>3, <1>4, SegmentIsItsOwn
<1>6. PICK j \in 1 .. Len(volume.turtle) :
         /\ "aff4:FileImage" \in volume.turtle[j].words
         /\ a = volume.turtle[j].iri
         /\ files[i].hashes = volume.turtle[j].hashes
  BY <1>4
<1>7. \A l \in 1 .. Len(volume.turtle[j].hashes) :
         volume.turtle[j].hashes[l].of = volume.captured[volume.turtle[j].iri]
  BY <1>6 DEF Consistent, DigestsCover
<1>8. \A l \in 1 .. Len(files[i].hashes) : files[i].hashes[l].of = read.content
  BY <1>5, <1>6, <1>7
<1> QED BY <1>5, <1>8 DEF i, a

\* What an opener accepts has the node that container_kind looks for.
LEMMA InvariantKind ==
    ASSUME LInv, TypeOK
    PROVE  KindFitsOpener
<1>1. ASSUME phase = "open", step = "open"
      PROVE  ContainerKind(file) = Ok("Logical")
  <2>1. IsVolume(file) /\ OpenLogical(file).ok
    BY <1>1 DEF LInv, Opened
  <2>2. /\ file.has_turtle /\ ParseLogicalFiles(file.turtle).ok
        /\ ParseLogicalFiles(file.turtle).val # <<>>
    BY <2>1, OpensWhole
  <2> QED BY <2>2 DEF ContainerKind
<1>2. ASSUME step \in {"segment", "chunk"}
      PROVE  ContainerKind(file) # Ok("Disk")
  <2> DEFINE logical == ParseLogicalFiles(file.turtle)
             disk == ParseTurtle(file.turtle)
             kind == ContainerKind(file)
  <2>1. WithWord(file.turtle, "aff4:EncryptedStream") # {}
    BY <1>2 DEF LInv, DecryptsEncrypted
  <2>2. disk = Err("Encrypted")
    BY <2>1 DEF ParseTurtle
  <2>3. disk.ok = FALSE /\ disk.err = "Encrypted"
    BY <2>2 DEF Err
  <2> HIDE DEF logical, disk
  <2>4. \/ kind = Err("Zip")
        \/ ~logical.ok /\ kind = logical
        \/ kind = Ok("Logical")
        \/ kind = Ok("Encrypted")
    BY <2>3 DEF ContainerKind, logical, disk
  <2>5. Ok("Disk").ok /\ Ok("Disk").val = "Disk" /\ ~Err("Zip").ok
        /\ Ok("Logical").val = "Logical" /\ Ok("Encrypted").val = "Encrypted"
    BY DEF Ok, Err
  <2> QED BY <2>4, <2>5
<1> QED BY <1>1, <1>2 DEF KindFitsOpener

\* The invariant of the container holds, on any medium.
LEMMA LogicalInvariant == LSpec => [](LInv /\ TypeOK)
<1>1. LInit => LInv
  BY LInvInit
<1>2. LInv /\ TypeOK /\ [LNext]_<<vars, container>> => LInv'
  BY LInvStep
<1>3. LSpec => []TypeOK
  BY LogicalRunsDecryption, DecryptTypeCorrect, PTL
<1> QED BY <1>1, <1>2, <1>3, PTL DEF LSpec

\* What LogicalContainer::open and open_encrypted let through is never empty, and
\* read_file finds an entry for every file that is listed.
THEOREM LogicalTypeCorrect == LSpec => []LTypeOK
<1>1. LInv /\ TypeOK => LTypeOK
  BY InvariantTypes
<1> QED BY <1>1, LogicalInvariant, PTL

\* read_file returns the content of the very file that the entry describes, in any
\* volume whose files are stored by one of the three conventions, of any number of
\* files with any names, decrypted or not.
THEOREM LogicalFilesAreTheirOwn == LSpec => []FilesAreTheirOwn
<1>1. LInv /\ TypeOK => FilesAreTheirOwn
  BY InvariantContent
<1> QED BY <1>1, LogicalInvariant, PTL

\* container_kind answers "Logical" for whatever opens as a collection, and never
\* "Disk" for what decrypts.
THEOREM LogicalKindFits == LSpec => []KindFitsOpener
<1>1. LInv /\ TypeOK => KindFitsOpener
  BY InvariantKind
<1> QED BY <1>1, LogicalInvariant, PTL
=============================================================================
