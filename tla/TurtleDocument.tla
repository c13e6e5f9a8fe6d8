---------------------------- MODULE TurtleDocument ----------------------------
(***************************************************************************)
(* A producer writes information.turtle node after node, in a style of its *)
(* own, and the parsers of core/src/meta.rs read what is there.  They      *)
(* match text, where the document is a graph: a node's answers come from   *)
(* the characters between two " . ".                                       *)
(***************************************************************************)
EXTENDS TurtleGraph

CONSTANTS Nodes,    \* nodes that a producer may write, each once
          Styles,   \* how it may write them
          MaxNodes  \* how many

ASSUME DocumentAssumption == MaxNodes \in Nat

VARIABLES style,    \* of this producer
          nodes,    \* what it has described so far
          graph,    \* the same, as blocks whose answers are right
          text,     \* what it has written
          blocks    \* the text, as the blocks that the parsers find

vars == <<style, nodes, graph, text, blocks>>

Init ==
    /\ style \in Styles
    /\ nodes = <<>>
    /\ graph = <<>>
    /\ text = Prefix("rdf:", "http://www.w3.org/1999/02/22-rdf-syntax-ns#")
    /\ blocks = VolumeBlocks(text)

WriteNode(node) ==
    /\ Len(nodes) < MaxNodes
    /\ \A i \in 1 .. Len(nodes) : nodes[i] # node
    /\ nodes' = Append(nodes, node)
    /\ graph' = Append(graph, Described(node))
    /\ text' = text \o NodeText(style, node)
    /\ blocks' = VolumeBlocks(text')
    /\ UNCHANGED style

Next == \E node \in Nodes : WriteNode(node)

Spec == Init /\ [][Next]_vars

-----------------------------------------------------------------------------
(* Properties                                                              *)

\* Whatever is written, what the parsers learn of it are well-typed answers:
\* no number that is no u64, no marker it does not know.
TypeOK ==
    /\ style \in Styles
    /\ \A i \in 1 .. Len(nodes) : nodes[i] \in Nodes
    /\ \A i \in 1 .. Len(blocks) :
          LET b == blocks[i]
          IN  /\ b.words \subseteq Marker \cup VolumeMarker
              /\ {b.size, b.chunkSize, b.chunksInSegment, b.iterations, b.keySize}
                    \subseteq U64s \cup {NoNumber}
              /\ {b.iri, b.dependentStream, b.keyBag} \cup b.arns \subseteq STRING

LiteralsOf(node) ==
    {t \in UNION {{node.props[i][j] : j \in 2 .. Len(node.props[i])} : i \in 1 .. Len(node.props)} :
        t.term = "literal"}

\* The text shows the graph: no literal has a character, or a word, that the
\* parsers take for one of the document, and no stream's or key bag's ARN is part
\* of that of another.
Separated ==
    /\ \A i \in 1 .. Len(nodes) : \A t \in LiteralsOf(nodes[i]) :
          /\ Symbols(t.is) \cap {";", "\n", "\r", "\t", "\""} = {}
          /\ ~Occurs(<<" ", ".", " ">>, t.is)
          /\ Mentions(Symbols(t.is), Marker \cup VolumeMarker) = {}
    /\ \A i, j \in 1 .. Len(nodes) :
          i # j /\ nodes[i].types = nodes[j].types => ~Occurs(nodes[i].iri, nodes[j].iri)

\* Of such a text the parsers find one block for each node, behind that of the
\* prefix, which answers as the node does: nothing leaks in from its neighbours,
\* and no answer is cut short or lost, wherever the node stands.
BlocksAreTheNodes == Separated => Shows(blocks, graph, [i \in 1 .. Len(graph) |-> i + 1])

\* Of a graph whose text shows it, parse_turtle learns the disk that the graph
\* describes: the geometry, the codec and the digests of the right node, in any
\* order of the nodes, in any of the styles, whatever else is described beside it.
DiskMetaIsTheGraphs == Separated => ParseTurtle(blocks) = ParseTurtle(graph)

\* And parse_logical_files its files: names with spaces, attached or detached
\* commas between digests, a size that is missing or no u64.
FilesAreTheGraphs ==
    Separated => ParseLogicalFiles(blocks) = ParseLogicalFiles(graph)

\* And parse_encrypted_meta the stream, its key bag, and of the key bag the salt
\* and the wrapped key, if they decode.
EncryptedMetaIsTheGraphs ==
    Separated => ParseEncryptedMeta(blocks) = ParseEncryptedMeta(graph)

\* The doc comment of LogicalEntry (logical.rs): original_file_name is the captured
\* file's path as recorded.
NamesAsRecorded ==
    LET files == ParseLogicalFiles(blocks)
    IN  files.ok => files.val = ParseLogicalFiles(graph).val

\* The comment in parse_map_turtle (meta.rs): the block found is that of the
\* ImageStream matching the dependentStream ARN.  At least when there is one.
DependentStreamIsNamed ==
    LET parsed == ParseTurtle(blocks)
        named == parsed.val.map_meta.image_stream_arn
    IN  /\ parsed.ok
        /\ parsed.val.map_meta.mapped
        /\ \E i \in 1 .. Len(nodes) : Spell(nodes[i].iri) = named
        => parsed.val.stream_arn = named
=============================================================================
