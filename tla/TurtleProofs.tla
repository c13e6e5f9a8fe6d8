---------------------------- MODULE TurtleProofs ----------------------------
(***************************************************************************)
(* The parsers of core/src/meta.rs search blocks by a word or an ARN they  *)
(* contain.  If the blocks show a graph, of any number of nodes between    *)
(* any others, they learn what they would learn of the graph.              *)
(***************************************************************************)
EXTENDS TurtleDocument, ReaderProofs

\* The places of n nodes are in their order.
Increasing(place, n) ==
    /\ place \in [1 .. n -> Nat]
    /\ \A i, j \in 1 .. n : i < j => place[i] < place[j]

Placed(place, S) == {place[i] : i \in S}

----------------------------------------------------------------------------
(* Searches and filters see only the order                                 *)

\* The first of some blocks is at the place of the first of their nodes.
LEMMA FirstAtPlace ==
    ASSUME NEW bs, NEW g, NEW n \in Nat, NEW place, Increasing(place, n),
           NEW S \in SUBSET (1 .. n), S # {}
    PROVE  \E i \in S : FirstOf(g, S) = g[i] /\ FirstOf(bs, Placed(place, S)) = bs[place[i]]
<1> DEFINE f == CHOOSE i \in S : \A j \in S : i <= j
           T == Placed(place, S)
           h == CHOOSE k \in T : \A l \in T : k <= l
<1>1. f \in S /\ \A j \in S : f <= j
  BY LeastTaken
<1>2. FirstOf(g, S) = g[f] /\ FirstOf(bs, T) = bs[h]
  BY DEF FirstOf
<1> HIDE DEF f
<1>3. place[f] \in T /\ place[f] \in Nat
  BY <1>1 DEF Placed, Increasing
<1>4. ASSUME NEW l \in T PROVE place[f] <= l
  <2>1. PICK j \in S : l = place[j]
    BY DEF Placed
  <2>2. f = j \/ f < j
    BY <1>1
  <2> QED BY <2>1, <2>2, <1>1, <1>3 DEF Increasing
<1>5. T \subseteq Nat
  BY DEF Placed, Increasing
<1> HIDE DEF T
<1>6. h \in T /\ \A l \in T : h <= l
  BY <1>3, <1>4
<1> HIDE DEF h
<1>7. h = place[f]
  BY <1>3, <1>4, <1>5, <1>6
<1> QED BY <1>1, <1>2, <1>7 DEF T

\* No two nodes share a place.
LEMMA PlacesApart ==
    ASSUME NEW n \in Nat, NEW place, Increasing(place, n), NEW S, S \subseteq 1 .. n
    PROVE  /\ IsFiniteSet(S) /\ IsFiniteSet(Placed(place, S))
           /\ Cardinality(Placed(place, S)) = Cardinality(S)
<1> DEFINE f == [i \in S |-> place[i]]
<1>1. IsFiniteSet(S)
  <2>1. IsFiniteSet(1 .. n) /\ S \in SUBSET (1 .. n)
    BY FS_Interval
  <2> QED BY <2>1, FS_Subset
<1>2. f \in Bijection(S, Placed(place, S))
  <2>1. f \in [S -> Placed(place, S)]
    BY DEF Placed
  <2>2. \A i, j \in S : f[i] = f[j] => i = j
    <3> SUFFICES ASSUME NEW i \in S, NEW j \in S, i # j PROVE place[i] # place[j]
      OBVIOUS
    <3>1. i < j \/ j < i
      OBVIOUS
    <3>2. place[i] \in Nat /\ place[j] \in Nat
      BY DEF Increasing
    <3> QED BY <3>1, <3>2 DEF Increasing
  <2>3. \A k \in Placed(place, S) : \E i \in S : f[i] = k
    BY DEF Placed
  <2> QED BY <2>1, <2>2, <2>3 DEF Bijection, Injection, Surjection, IsInjective
<1> HIDE DEF f
<1>3. ExistsBijection(S, Placed(place, S))
  BY <1>2 DEF ExistsBijection
<1> QED BY <1>1, <1>3, FS_Bijection

LEMMA AscendingOrders ==
    ASSUME NEW S, S \subseteq Nat
    PROVE  StrictOrder(Ascending(S), S)
BY DEF StrictOrder, Ascending

\* u has the elements of g at some positions in S, and v those of bs at their places.
SamePlaces(u, g, v, bs, place, S) ==
    \E c \in Nat : \E at \in [1 .. c -> S] :
        u = [k \in 1 .. c |-> g[at[k]]] /\ v = [k \in 1 .. c |-> bs[place[at[k]]]]

\* A filter keeps the nodes' order: its k-th block is at the place of its k-th node.
LEMMA FilteredAtPlaces ==
    ASSUME NEW bs, NEW g, NEW n \in Nat, NEW place, Increasing(place, n),
           NEW S \in SUBSET (1 .. n)
    PROVE  SamePlaces(Arrange(g, S, Ascending(S)), g,
                      Arrange(bs, Placed(place, S), Ascending(Placed(place, S))), bs, place, S)
<1> DEFINE T == Placed(place, S)
           R == Ascending(S)
           Q == Ascending(T)
           c == Cardinality(S)
           at == [k \in 1 .. c |-> CHOOSE i \in S : Cardinality(Below(S, R, i)) = k - 1]
<1>1. IsFiniteSet(S) /\ IsFiniteSet(T) /\ Cardinality(T) = c
  BY PlacesApart
<1>2. S \subseteq Nat /\ T \subseteq Nat
  BY DEF Placed, Increasing
<1>3. StrictOrder(R, S) /\ StrictOrder(Q, T)
  BY <1>2, AscendingOrders
<1>4. c \in Nat
  BY <1>1, <1>3, EveryRankTaken
<1>5. \A k \in 1 .. c : at[k] \in S /\ Cardinality(Below(S, R, at[k])) = k - 1
  <2> TAKE k \in 1 .. c
  <2>1. \E i \in S : Cardinality(Below(S, R, i)) = k - 1
    BY <1>1, <1>3, EveryRankTaken
  <2> QED BY <2>1
<1>6. Arrange(g, S, R) = [k \in 1 .. c |-> g[at[k]]]
  BY DEF Arrange, Below
<1> DEFINE bt == [k \in 1 .. c |-> CHOOSE p \in T : Cardinality(Below(T, Q, p)) = k - 1]
<1>7. Arrange(bs, T, Q) = [k \in 1 .. c |-> bs[bt[k]]]
  BY <1>1 DEF Arrange, Below
<1>8. \A k \in 1 .. c : bt[k] \in T /\ Cardinality(Below(T, Q, bt[k])) = k - 1
  <2> TAKE k \in 1 .. c
  <2>1. \E p \in T : Cardinality(Below(T, Q, p)) = k - 1
    BY <1>1, <1>3, EveryRankTaken
  <2> QED BY <2>1
<1>9. at \in [1 .. c -> S]
  BY <1>5
<1> HIDE DEF at, bt
<1>10. ASSUME NEW i \in S
       PROVE  Cardinality(Below(T, Q, place[i])) = Cardinality(Below(S, R, i))
  <2>1. Below(S, R, i) = {j \in S : j < i}
    BY DEF Below, Ascending
  <2>2. Below(T, Q, place[i]) = Placed(place, {j \in S : j < i})
    <3>1. place[i] \in T /\ place[i] \in Nat
      BY DEF Placed, Increasing
    <3>2. Below(T, Q, place[i]) = {p \in T : p < place[i]}
      BY <3>1 DEF Below, Ascending
    <3>3. \A j \in S : place[j] < place[i] <=> j < i
      <4> SUFFICES ASSUME NEW j \in S PROVE place[j] < place[i] <=> j < i
        OBVIOUS
      <4>1. place[j] \in Nat /\ place[i] \in Nat /\ j \in 1 .. n /\ i \in 1 .. n
        BY DEF Increasing
      <4>2. j < i \/ j = i \/ i < j
        BY <4>1
      <4>3. /\ j < i => place[j] < place[i]
            /\ i < j => place[i] < place[j]
        BY <4>1 DEF Increasing
      <4> QED BY <4>1, <4>2, <4>3
    <3> QED BY <3>2, <3>3 DEF Placed
  <2>3. {j \in S : j < i} \subseteq 1 .. n
    OBVIOUS
  <2> QED BY <2>1, <2>2, <2>3, PlacesApart
<1>11. ASSUME NEW k \in 1 .. c PROVE bt[k] = place[at[k]]
  <2>1. bt[k] \in T /\ place[at[k]] \in T
    BY <1>5, <1>8 DEF Placed
  <2>2. Cardinality(Below(T, Q, bt[k])) = k - 1 /\ Cardinality(Below(T, Q, place[at[k]])) = k - 1
    BY <1>5, <1>8, <1>10
  <2>3. \A p, q \in T : <<p, q>> \in Q => Cardinality(Below(T, Q, p)) < Cardinality(Below(T, Q, q))
    BY <1>1, <1>3, EveryRankTaken
  <2>4. <<bt[k], place[at[k]]>> \notin Q /\ <<place[at[k]], bt[k]>> \notin Q
    BY <2>1, <2>2, <2>3, <1>4
  <2> QED BY <2>1, <2>4, <1>3 DEF StrictOrder
<1>12. Arrange(bs, T, Q) = [k \in 1 .. c |-> bs[place[at[k]]]]
  BY <1>7, <1>11
<1> QED BY <1>4, <1>6, <1>9, <1>12 DEF SamePlaces

----------------------------------------------------------------------------
(* Blocks that show a graph                                                *)

SoughtArns(g) == UNION {{g[i].dependentStream, g[i].keyBag} : i \in 1 .. Len(g)}

\* What Shows says, by parts.
LEMMA ShownParts ==
    ASSUME NEW bs, NEW g, NEW place, Shows(bs, g, place)
    PROVE  /\ Increasing(place, Len(g))
           /\ \A i \in 1 .. Len(g) :
                 place[i] \in 1 .. Len(bs) /\ AnswersAs(bs[place[i]], g[i], SoughtArns(g))
           /\ \A k \in 1 .. Len(bs) : k \in Placed(place, 1 .. Len(g)) \/ bs[k].words = {}
BY DEF Shows, Increasing, Placed, SoughtArns

\* A node's block answers as the node.
LEMMA SameStatements ==
    ASSUME NEW b, NEW c, NEW arns, AnswersAs(b, c, arns)
    PROVE  /\ b.words = c.words /\ b.iri = c.iri /\ b.size = c.size
           /\ b.chunkSize = c.chunkSize /\ b.chunksInSegment = c.chunksInSegment
           /\ b.dependentStream = c.dependentStream /\ b.hashes = c.hashes
           /\ b.name = c.name /\ b.lastWritten = c.lastWritten /\ b.keyBag = c.keyBag
           /\ b.iterations = c.iterations /\ b.keySize = c.keySize
           /\ b.salt = c.salt /\ b.wrappedKey = c.wrappedKey
BY DEF AnswersAs, Statements

\* The blocks with a word are those of the nodes with it.
LEMMA ShownWord ==
    ASSUME NEW bs, NEW g, NEW place, Shows(bs, g, place), NEW w
    PROVE  /\ WithWord(g, w) \subseteq 1 .. Len(g)
           /\ WithWord(bs, w) = Placed(place, WithWord(g, w))
<1>1. \A i \in 1 .. Len(g) : place[i] \in 1 .. Len(bs) /\ bs[place[i]].words = g[i].words
  BY ShownParts, SameStatements
<1>2. ASSUME NEW k \in WithWord(bs, w) PROVE k \in Placed(place, WithWord(g, w))
  <2>1. k \in 1 .. Len(bs) /\ w \in bs[k].words
    BY DEF WithWord
  <2>2. k \in Placed(place, 1 .. Len(g))
    BY <2>1, ShownParts
  <2> QED BY <2>1, <2>2, <1>1 DEF Placed, WithWord
<1>3. ASSUME NEW k \in Placed(place, WithWord(g, w)) PROVE k \in WithWord(bs, w)
  BY <1>1 DEF Placed, WithWord
<1> QED BY <1>2, <1>3 DEF WithWord

\* So are those that are looked for by an ARN.
LEMMA ShownArn ==
    ASSUME NEW bs, NEW g, NEW place, Shows(bs, g, place),
           NEW w \in {"ImageStream", "KeyBag"}, NEW a \in SoughtArns(g)
    PROVE  WithWord(bs, w) \cap WithArn(bs, a)
              = Placed(place, WithWord(g, w) \cap WithArn(g, a))
<1>1. WithWord(bs, w) = Placed(place, WithWord(g, w))
  BY ShownWord
<1>2. ASSUME NEW i \in WithWord(g, w)
      PROVE  i \in 1 .. Len(g) /\ (place[i] \in WithArn(bs, a) <=> i \in WithArn(g, a))
  <2>1. i \in 1 .. Len(g) /\ w \in g[i].words
    BY DEF WithWord
  <2>2. place[i] \in 1 .. Len(bs) /\ AnswersAs(bs[place[i]], g[i], SoughtArns(g))
    BY <2>1, ShownParts
  <2>3. a \in bs[place[i]].arns <=> a \in g[i].arns
    BY <2>1, <2>2 DEF AnswersAs
  <2> QED BY <2>1, <2>2, <2>3 DEF WithArn
<1> QED BY <1>1, <1>2 DEF Placed

\* What is sought comes from a node.
LEMMA ShownSought ==
    ASSUME NEW g, NEW i \in 1 .. Len(g)
    PROVE  g[i].dependentStream \in SoughtArns(g) /\ g[i].keyBag \in SoughtArns(g)
BY DEF SoughtArns

\* An ImageStream's block is parsed as the node.
LEMMA SameStream ==
    ASSUME NEW b, NEW c, NEW arns, AnswersAs(b, c, arns), NEW mm
    PROVE  ParseImageStreamBlock(b, mm) = ParseImageStreamBlock(c, mm)
<1>1. /\ b.words = c.words /\ b.iri = c.iri /\ b.size = c.size
      /\ b.chunkSize = c.chunkSize /\ b.chunksInSegment = c.chunksInSegment
      /\ b.hashes = c.hashes
  BY SameStatements
<1>2. DetectCompression(b) = DetectCompression(c)
  BY <1>1 DEF DetectCompression
<1> QED BY <1>1, <1>2 DEF ParseImageStreamBlock

\* The first node among some and the first of their blocks.
LEMMA ShownFirst ==
    ASSUME NEW bs, NEW g, Len(g) \in Nat, NEW place, Shows(bs, g, place),
           NEW S \in SUBSET (1 .. Len(g)), S # {}
    PROVE  \E i \in S : /\ FirstOf(g, S) = g[i]
                        /\ AnswersAs(FirstOf(bs, Placed(place, S)), g[i], SoughtArns(g))
<1>1. PICK n \in Nat : n = Len(g)
  OBVIOUS
<1>2. Increasing(place, n) /\ S \in SUBSET (1 .. n)
  BY <1>1, ShownParts
<1>3. PICK i \in S : FirstOf(g, S) = g[i] /\ FirstOf(bs, Placed(place, S)) = bs[place[i]]
  BY <1>2, FirstAtPlace
<1> QED BY <1>3, ShownParts

LEMMA PlacedEmpty ==
    ASSUME NEW place, NEW S
    PROVE  Placed(place, S) = {} <=> S = {}
BY DEF Placed

\* The ImageStream that a map is given is the one the graph gives it.
LEMMA ShownMap ==
    ASSUME NEW bs, NEW g, Len(g) \in Nat, NEW place, Shows(bs, g, place),
           NEW i \in 1 .. Len(g), NEW b, AnswersAs(b, g[i], SoughtArns(g))
    PROVE  ParseMapTurtle(bs, b) = ParseMapTurtle(g, g[i])
<1> DEFINE a == g[i].dependentStream
           C == DependentBlocks(g, a)
           D == DependentBlocks(bs, a)
<1>1. /\ b.words = g[i].words /\ b.iri = g[i].iri /\ b.size = g[i].size
      /\ b.dependentStream = a
  BY SameStatements
<1>2. a \in SoughtArns(g)
  BY ShownSought
<1>3. D = Placed(place, C) /\ C \subseteq 1 .. Len(g)
  BY <1>2, ShownArn, ShownWord DEF DependentBlocks
<1>4. D = {} <=> C = {}
  BY <1>3, PlacedEmpty
<1>5. ASSUME C # {}, NEW mm
      PROVE  ParseImageStreamBlock(FirstOf(bs, D), mm) = ParseImageStreamBlock(FirstOf(g, C), mm)
  <2>1. PICK j \in C : /\ FirstOf(g, C) = g[j]
                       /\ AnswersAs(FirstOf(bs, D), g[j], SoughtArns(g))
    BY <1>3, <1>5, ShownFirst
  <2> QED BY <2>1, SameStream
<1> HIDE DEF C, D, a
<1>6. CASE C = {}
  BY <1>1, <1>4, <1>6 DEF ParseMapTurtle, C, D, a
<1>7. CASE C # {}
  BY <1>1, <1>4, <1>5, <1>7 DEF ParseMapTurtle, C, D, a
<1> QED BY <1>6, <1>7

\* parse_turtle learns the disk image of the graph from the blocks that show it.
LEMMA ShownDisk ==
    ASSUME NEW bs, NEW g, Len(g) \in Nat, NEW place, Shows(bs, g, place)
    PROVE  ParseTurtle(bs) = ParseTurtle(g)
<1>1. \A w : /\ WithWord(bs, w) = Placed(place, WithWord(g, w))
             /\ WithWord(bs, w) = {} <=> WithWord(g, w) = {}
             /\ WithWord(g, w) \subseteq 1 .. Len(g)
  BY ShownWord, PlacedEmpty
<1>2. ASSUME NEW w, WithWord(g, w) # {}
      PROVE  \E i \in 1 .. Len(g) :
                /\ FirstOf(g, WithWord(g, w)) = g[i]
                /\ AnswersAs(FirstOf(bs, WithWord(bs, w)), g[i], SoughtArns(g))
  BY <1>1, <1>2, ShownFirst
<1>3. ASSUME WithWord(g, "aff4:Map") # {}
      PROVE  ParseMapTurtle(bs, FirstOf(bs, WithWord(bs, "aff4:Map")))
                = ParseMapTurtle(g, FirstOf(g, WithWord(g, "aff4:Map")))
  BY <1>2, <1>3, ShownMap
<1>4. ASSUME WithWord(g, "ImageStream") # {}
      PROVE  ParseImageStreamBlock(FirstOf(bs, WithWord(bs, "ImageStream")), NoMap)
                = ParseImageStreamBlock(FirstOf(g, WithWord(g, "ImageStream")), NoMap)
  BY <1>2, <1>4, SameStream
<1> QED BY <1>1, <1>3, <1>4 DEF ParseTurtle

\* parse_encrypted_meta learns its encrypted stream and key bag.
LEMMA ShownEncrypted ==
    ASSUME NEW bs, NEW g, Len(g) \in Nat, NEW place, Shows(bs, g, place)
    PROVE  ParseEncryptedMeta(bs) = ParseEncryptedMeta(g)
<1> DEFINE E == WithWord(g, "aff4:EncryptedStream")
           F == WithWord(bs, "aff4:EncryptedStream")
           s == FirstOf(g, E)
           t == FirstOf(bs, F)
           B == KeyBagBlocks(g, s.keyBag)
           C == KeyBagBlocks(bs, s.keyBag)
           k == FirstOf(g, B)
           l == FirstOf(bs, C)
<1>1. F = Placed(place, E) /\ E \subseteq 1 .. Len(g) /\ (F = {} <=> E = {})
  BY ShownWord, PlacedEmpty
<1>2. CASE E = {}
  BY <1>1, <1>2 DEF ParseEncryptedMeta
<1>3. CASE E # {}
  <2>1. PICK i \in E : s = g[i] /\ AnswersAs(t, g[i], SoughtArns(g))
    BY <1>1, <1>3, ShownFirst
  <2>2. /\ t.iri = s.iri /\ t.chunkSize = s.chunkSize /\ t.chunksInSegment = s.chunksInSegment
        /\ t.size = s.size /\ t.keyBag = s.keyBag
    BY <2>1, SameStatements
  <2>3. s.keyBag \in SoughtArns(g)
    BY <2>1, <1>1, ShownSought
  <2>4. /\ C = Placed(place, B) /\ B \subseteq 1 .. Len(g)
        /\ C = {} <=> B = {}
    <3>1. /\ B = WithWord(g, "KeyBag") \cap WithArn(g, s.keyBag)
          /\ C = WithWord(bs, "KeyBag") \cap WithArn(bs, s.keyBag)
      BY DEF KeyBagBlocks
    <3>2. B \subseteq 1 .. Len(g)
      BY <3>1, ShownWord
    <3> HIDE DEF B, C, s
    <3>3. C = Placed(place, B)
      BY <3>1, <2>3, ShownArn
    <3> QED BY <3>2, <3>3, PlacedEmpty
  <2>5. ASSUME B # {}
        PROVE  /\ l.words = k.words /\ l.iterations = k.iterations /\ l.keySize = k.keySize
               /\ l.salt = k.salt /\ l.wrappedKey = k.wrappedKey
    <3>1. PICK j \in B : k = g[j] /\ AnswersAs(l, g[j], SoughtArns(g))
      BY <2>4, <2>5, ShownFirst
    <3> QED BY <3>1, SameStatements
  <2>6. B # {} => (UsableKeyBag(l) <=> UsableKeyBag(k))
    BY <2>5 DEF UsableKeyBag
  <2> QED BY <2>2, <2>4, <2>5, <2>6, <1>1, <1>3 DEF ParseEncryptedMeta
<1> QED BY <1>2, <1>3

\* parse_logical_files learns its files, each once and in the order of the nodes.
LEMMA ShownFiles ==
    ASSUME NEW bs, NEW g, Len(g) \in Nat, NEW place, Shows(bs, g, place)
    PROVE  ParseLogicalFiles(bs) = ParseLogicalFiles(g)
<1> DEFINE S == WithWord(g, "aff4:FileImage")
           T == WithWord(bs, "aff4:FileImage")
           u == Arrange(g, S, Ascending(S))
           v == Arrange(bs, T, Ascending(T))
<1>1. T = Placed(place, S) /\ S \subseteq 1 .. Len(g)
  BY ShownWord
<1>2. PICK c \in Nat : \E at \in [1 .. c -> S] :
         u = [k \in 1 .. c |-> g[at[k]]] /\ v = [k \in 1 .. c |-> bs[place[at[k]]]]
  <2>1. PICK n \in Nat : n = Len(g)
    OBVIOUS
  <2>2. Increasing(place, n) /\ S \in SUBSET (1 .. n)
    BY <1>1, <2>1, ShownParts
  <2> HIDE DEF S
  <2>3. SamePlaces(u, g, Arrange(bs, Placed(place, S), Ascending(Placed(place, S))), bs, place, S)
    BY <2>2, FilteredAtPlaces
  <2> QED BY <2>3, <1>1 DEF SamePlaces
<1>3. PICK at \in [1 .. c -> S] :
         u = [k \in 1 .. c |-> g[at[k]]] /\ v = [k \in 1 .. c |-> bs[place[at[k]]]]
  BY <1>2
<1> HIDE DEF u, v
<1>4. Len(u) = c /\ Len(v) = c
  BY <1>3
<1>5. \A k \in 1 .. c : /\ v[k].iri = u[k].iri /\ v[k].name = u[k].name /\ v[k].size = u[k].size
                        /\ v[k].hashes = u[k].hashes /\ v[k].lastWritten = u[k].lastWritten
  <2> TAKE k \in 1 .. c
  <2>1. at[k] \in 1 .. Len(g) /\ u[k] = g[at[k]] /\ v[k] = bs[place[at[k]]]
    BY <1>1, <1>3
  <2>2. AnswersAs(v[k], u[k], SoughtArns(g))
    BY <2>1, ShownParts
  <2> QED BY <2>2, SameStatements
<1> HIDE DEF S, T
<1> QED BY <1>4, <1>5 DEF ParseLogicalFiles, u, v, S, T

----------------------------------------------------------------------------
(* The documents                                                           *)

GraphTyped == graph \in Seq({Described(node) : node \in Nodes})

LEMMA GraphInvariant == Spec => []GraphTyped
<1>1. Init => GraphTyped
  BY DEF Init, GraphTyped
<1>2. GraphTyped /\ [Next]_vars => GraphTyped'
  <2> SUFFICES ASSUME GraphTyped, [Next]_vars PROVE GraphTyped'
    OBVIOUS
  <2>1. ASSUME NEW node \in Nodes, WriteNode(node) PROVE GraphTyped'
    <3>1. graph' = Append(graph, Described(node))
      BY <2>1 DEF WriteNode
    <3> QED BY <3>1 DEF GraphTyped
  <2>2. CASE UNCHANGED vars
    BY <2>2 DEF vars, GraphTyped
  <2> QED BY <2>1, <2>2 DEF Next
<1> QED BY <1>1, <1>2, PTL DEF Spec

\* Whatever document a producer has written, with any number of nodes in any order: if each
\* node has its block, the three parsers learn what the graph says.  What is left to the
\* text is BlocksAreTheNodes; that the searches by word and by ARN then find the
\* right node's block is this theorem.
THEOREM ParsersLearnTheGraph ==
    Spec => [](BlocksAreTheNodes => /\ DiskMetaIsTheGraphs
                                    /\ FilesAreTheGraphs
                                    /\ EncryptedMetaIsTheGraphs)
<1>1. GraphTyped => (BlocksAreTheNodes => /\ DiskMetaIsTheGraphs
                                          /\ FilesAreTheGraphs
                                          /\ EncryptedMetaIsTheGraphs)
  <2> SUFFICES ASSUME GraphTyped, BlocksAreTheNodes, Separated
               PROVE  /\ ParseTurtle(blocks) = ParseTurtle(graph)
                      /\ ParseLogicalFiles(blocks) = ParseLogicalFiles(graph)
                      /\ ParseEncryptedMeta(blocks) = ParseEncryptedMeta(graph)
    BY DEF DiskMetaIsTheGraphs, FilesAreTheGraphs, EncryptedMetaIsTheGraphs
  <2>1. Len(graph) \in Nat
    BY DEF GraphTyped
  <2>2. PICK place : Shows(blocks, graph, place)
    BY DEF BlocksAreTheNodes
  <2> QED BY <2>1, <2>2, ShownDisk, ShownFiles, ShownEncrypted
<1> QED BY <1>1, GraphInvariant, PTL

\* A node answers to no ARN but its subject.
OwnArn(g) == \A i \in 1 .. Len(g) : g[i].arns = {g[i].iri}

LEMMA GraphOwnArn == GraphTyped => OwnArn(graph)
<1> SUFFICES ASSUME GraphTyped, NEW i \in 1 .. Len(graph)
             PROVE  graph[i].arns = {graph[i].iri}
  BY DEF OwnArn
<1>1. PICK node \in Nodes : graph[i] = Described(node)
  BY ElementOfSeq DEF GraphTyped
<1> QED BY <1>1 DEF Described

\* Of nodes that do, a map gets the stream that it names.
LEMMA NamedInGraph ==
    ASSUME NEW g, Len(g) \in Nat, OwnArn(g),
           ParseTurtle(g).ok, ParseTurtle(g).val.map_meta.mapped
    PROVE  ParseTurtle(g).val.stream_arn = ParseTurtle(g).val.map_meta.image_stream_arn
<1> DEFINE b == FirstOf(g, WithWord(g, "aff4:Map"))
           C == DependentBlocks(g, b.dependentStream)
           s == FirstOf(g, C)
           mm == [mapped |-> TRUE, map_arn |-> b.iri, image_stream_arn |-> b.dependentStream,
                  gap_ff |-> "SymbolicStreamFF" \in b.words, size |-> b.size]
<1>1. \A e : ~Err(e).ok
  BY DEF Err
<1>2. ASSUME NEW c, NEW m, ParseImageStreamBlock(c, m).ok
      PROVE  /\ ParseImageStreamBlock(c, m).val.stream_arn = c.iri
             /\ ParseImageStreamBlock(c, m).val.map_meta = m
  BY <1>1, <1>2 DEF ParseImageStreamBlock, Ok
<1>3. ParseTurtle(g) = ParseMapTurtle(g, b)
  <2>1. ~NoMap.mapped
    BY DEF NoMap
  <2>2. \A c : ParseImageStreamBlock(c, NoMap).ok => ~ParseImageStreamBlock(c, NoMap).val.map_meta.mapped
    BY <1>2, <2>1
  <2> QED BY <2>2, <1>1 DEF ParseTurtle
<1>4. C # {} /\ ParseMapTurtle(g, b) = ParseImageStreamBlock(s, mm)
  BY <1>1, <1>3 DEF ParseMapTurtle
<1>5. /\ ParseTurtle(g).val.stream_arn = s.iri
      /\ ParseTurtle(g).val.map_meta.image_stream_arn = b.dependentStream
  BY <1>2, <1>3, <1>4
<1>6. C \subseteq 1 .. Len(g) /\ \A i \in C : b.dependentStream \in g[i].arns
  BY DEF DependentBlocks, WithWord, WithArn
<1>7. PICK i \in C : s = g[i]
  BY <1>4, <1>6, FirstOfTaken
<1>8. b.dependentStream = s.iri
  BY <1>6, <1>7 DEF OwnArn
<1> QED BY <1>5, <1>8

\* What the runs turtle_dependent and turtle_names refute of every document holds of those
\* whose blocks show the graph: a map gets the stream that it names and not one with a
\* longer name, and the names of files are as they were recorded.
THEOREM NamesHoldWhereShown ==
    Spec => [](Separated /\ BlocksAreTheNodes => DependentStreamIsNamed /\ NamesAsRecorded)
<1>1. GraphTyped => (Separated /\ BlocksAreTheNodes => DependentStreamIsNamed /\ NamesAsRecorded)
  <2> SUFFICES ASSUME GraphTyped, Separated, BlocksAreTheNodes
               PROVE  DependentStreamIsNamed /\ NamesAsRecorded
    OBVIOUS
  <2>1. Len(graph) \in Nat
    BY DEF GraphTyped
  <2>2. PICK place : Shows(blocks, graph, place)
    BY DEF BlocksAreTheNodes
  <2>3. ParseTurtle(blocks) = ParseTurtle(graph) /\ ParseLogicalFiles(blocks) = ParseLogicalFiles(graph)
    BY <2>1, <2>2, ShownDisk, ShownFiles
  <2>4. DependentStreamIsNamed
    BY <2>1, <2>3, NamedInGraph, GraphOwnArn DEF DependentStreamIsNamed
  <2>5. NamesAsRecorded
    BY <2>3 DEF NamesAsRecorded
  <2> QED BY <2>4, <2>5
<1> QED BY <1>1, GraphInvariant, PTL
=============================================================================
