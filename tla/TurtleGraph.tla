----------------------------- MODULE TurtleGraph -----------------------------
(***************************************************************************)
(* The graph that an information.turtle describes, how a producer writes   *)
(* it as text, and what it says without regard to the text.                *)
(*                                                                         *)
(* A node is its iri (symbols), its rdf:types and props, a sequence of     *)
(* <<predicate, object, ..>>.  A style is                                  *)
(*   link, comma, end   the symbols between two predicates, between two    *)
(*                      objects, and after a node;                         *)
(*   quoted             whether an integer is "5"^^xsd:integer.            *)
(***************************************************************************)
EXTENDS TurtleText

Iri(symbols) == [term |-> "iri", is |-> symbols]
Integer(n) == [term |-> "int", is |-> n]
Literal(symbols) == [term |-> "literal", is |-> symbols]
Digits(hex) == [term |-> "literal", is |-> <<hex>>]
HashOf(hex, algorithm) == [term |-> "hash", is |-> hex, algorithm |-> algorithm]
PrefixedName(word) == [term |-> "name", is |-> <<word>>]

Node(iri, types, props) == [iri |-> iri, types |-> types, props |-> props]

----------------------------------------------------------------------------
(* The text                                                                *)

TermText(style, t) ==
    CASE t.term = "iri" -> <<"<">> \o t.is \o <<">">>
      [] t.term = "literal" -> <<"\"">> \o t.is \o <<"\"", "^^xsd:string">>
      [] t.term = "hash" -> <<"\"", t.is, "\"", "^^aff4:", t.algorithm>>
      [] t.term = "name" -> t.is
      [] t.term = "int" -> IF style.quoted THEN <<"\"", ToString(t.is), "\"", "^^xsd:integer">>
                           ELSE <<ToString(t.is)>>

\* Texts in a row, with `between` between them.
Joined(texts, between) ==
    LET joined[ts \in Seq(Texts)] ==
            IF Len(ts) = 1 THEN ts[1] ELSE ts[1] \o between \o joined[Tail(ts)]
    IN  joined[texts]

PropText(style, prop) ==
    <<prop[1], " ">> \o Joined([i \in 1 .. Len(prop) - 1 |-> TermText(style, prop[i + 1])], style.comma)

TypeProp(node) == <<"rdf:type">> \o [i \in 1 .. Len(node.types) |-> PrefixedName(node.types[i])]

NodeText(style, node) ==
    LET props == <<TypeProp(node)>> \o node.props
    IN  <<"<">> \o node.iri \o <<">", " ">>
          \o Joined([i \in 1 .. Len(props) |-> PropText(style, props[i])], style.link) \o style.end

Prefix(name, iri) == <<"@prefix", " ", name, " ", "<", iri, ">", " ", ".", "\n">>

----------------------------------------------------------------------------
(* What the graph says                                                     *)

Objects(node, predicate) ==
    LET props == SelectSeq(node.props, LAMBDA p : p[1] = predicate)
    IN  IF props = <<>> THEN <<>> ELSE Tail(props[1])

\* The number, when there is one that is a u64.
Number(node, predicate) ==
    LET n == Objects(node, predicate)
    IN  IF n = <<>> \/ n[1].is \notin U64s THEN NoNumber ELSE n[1].is

Spelling(node, predicate) ==
    LET v == Objects(node, predicate) IN IF v = <<>> THEN Missing ELSE Ok(Spell(v[1].is))

ArnAt(node, predicate) ==
    LET arn == Spelling(node, predicate) IN IF arn.ok THEN arn.val ELSE NoArn

\* Is it the hex of some bytes?
Encodes(literal) == literal.ok /\ literal.val \in {h \in DOMAIN Hex : Hex[h].even}

HashesOf(node) ==
    LET hashes == Objects(node, "aff4:hash")
    IN  [i \in 1 .. Len(hashes) |-> [algorithm |-> hashes[i].algorithm, of |-> Hex[hashes[i].is].means]]

\* A node as the block whose answers are its own statements.  The only ARN that
\* it answers to is its subject.
Described(node) ==
    LET words == {node.types[i] : i \in 1 .. Len(node.types)}
                   \cup {ArnAt(node, "aff4:compressionMethod"), ArnAt(node, "aff4:mapGapDefaultStream")}
        salt == Spelling(node, "aff4:salt")
        wrapped == Spelling(node, "aff4:wrappedKey")
    IN  [words |-> Mentions(words, Marker \cup VolumeMarker),
         arns |-> {Spell(node.iri)},
         iri |-> Spell(node.iri),
         size |-> Number(node, "aff4:size"),
         chunkSize |-> Number(node, "aff4:chunkSize"),
         chunksInSegment |-> Number(node, "aff4:chunksInSegment"),
         dependentStream |-> ArnAt(node, "aff4:dependentStream"),
         hashes |-> HashesOf(node),
         name |-> Spelling(node, "aff4:originalFileName"),
         lastWritten |-> Spelling(node, "aff4:lastWritten"),
         keyBag |-> ArnAt(node, "aff4:keyBag"),
         iterations |-> Number(node, "aff4:iterations"),
         keySize |-> Number(node, "aff4:keySizeInBytes"),
         salt |-> IF Encodes(salt) THEN Hex[salt.val].means ELSE NoSalt,
         wrappedKey |-> IF Encodes(wrapped) THEN [hex |-> TRUE] @@ Hex[wrapped.val].means
                        ELSE [hex |-> FALSE]]

\* The answers that are a node's own: all but the ARNs that a block contains.
Statements == {"words", "iri", "size", "chunkSize", "chunksInSegment", "dependentStream", "hashes", "name",
               "lastWritten", "keyBag", "iterations", "keySize", "salt", "wrappedKey"}

\* The block answers as the node does; among the nodes that are looked for by an ARN, also
\* as to the arns.
AnswersAs(block, node, arns) ==
    /\ \A f \in Statements : block[f] = node[f]
    /\ node.words \cap {"ImageStream", "KeyBag"} # {} =>
          \A a \in arns : a \in block.arns <=> a \in node.arns

\* The blocks show the graph: those at some places, in its order, answer as its nodes do,
\* and the others (prefixes, what follows the last dot) have no marker.
Shows(blocks, graph, place) ==
    LET arns == UNION {{graph[i].dependentStream, graph[i].keyBag} : i \in 1 .. Len(graph)}
    IN  /\ place \in [1 .. Len(graph) -> Nat]
        /\ \A i, j \in 1 .. Len(graph) : i < j => place[i] < place[j]
        /\ \A i \in 1 .. Len(graph) :
              place[i] \in 1 .. Len(blocks) /\ AnswersAs(blocks[place[i]], graph[i], arns)
        /\ \A k \in 1 .. Len(blocks) : k \in {place[i] : i \in 1 .. Len(graph)} \/ blocks[k].words = {}
=============================================================================
