------------------------------ MODULE Metadata ------------------------------
(***************************************************************************)
(* core/src/meta.rs: information.turtle as far as a disk image needs it.   *)
(*                                                                         *)
(* The reader never builds an RDF graph: it cuts the text in blocks at     *)
(* " . " and asks of a block which words it contains and what follows a    *)
(* predicate.  A turtle is therefore a sequence of blocks, and a block the *)
(* record of the answers:                                                  *)
(*   words   the marker words its text contains;                           *)
(*   arns    the ARNs its text contains, as substrings: a block about      *)
(*           aff4://ab also contains aff4://a;                             *)
(*   iri     the first <...> of the block (NoArn when there is none);      *)
(*   size, chunkSize, chunksInSegment   the integer after the predicate,   *)
(*           NoNumber when it is missing or no u64;                        *)
(*   dependentStream   the IRI after that predicate, or NoArn;             *)
(*   hashes  the aff4:hash digests, in order.                              *)
(***************************************************************************)
EXTENDS Integers, Sequences, FiniteSets

NoArn == ""
NoNumber == -1

Marker == {"aff4:EncryptedStream", "aff4:Map", "ImageStream", "SymbolicStreamFF",
           "snappy", "deflate", "lz4"}

Compression == {"Null", "Deflate", "Snappy", "Lz4"}

\* A Result of Rust: a value, or the Aff4Error variant that replaces it.
Ok(v) == [ok |-> TRUE, val |-> v]
Err(e) == [ok |-> FALSE, err |-> e]

\* `blocks.iter().find(..)` over the blocks at the positions S: the first one.
FirstOf(blocks, S) == blocks[CHOOSE i \in S : \A j \in S : i <= j]

WithWord(blocks, w) == {i \in 1 .. Len(blocks) : w \in blocks[i].words}
WithArn(blocks, arn) == {i \in 1 .. Len(blocks) : arn \in blocks[i].arns}

\* The first match in this order decides, whatever else the block mentions.
DetectCompression(block) ==
    IF "snappy" \in block.words THEN "Snappy"
    ELSE IF "deflate" \in block.words THEN "Deflate"
    ELSE IF "lz4" \in block.words THEN "Lz4"
    ELSE "Null"

NoMap == [mapped |-> FALSE, map_arn |-> NoArn, image_stream_arn |-> NoArn, gap_ff |-> FALSE,
          size |-> 0]

\* `mm` is the Map's part: it replaces the virtual size of the stream.
ParseImageStreamBlock(block, mm) ==
    IF \/ block.iri = NoArn
       \/ block.chunkSize \in {NoNumber, 0}
       \/ block.chunksInSegment \in {NoNumber, 0}
       \/ block.size = NoNumber
    THEN Err("BadFormat")
    ELSE Ok([stream_arn |-> block.iri,
             virtual_size |-> IF mm.mapped THEN mm.size ELSE block.size,
             image_stream_size |-> block.size,
             chunk_size |-> block.chunkSize,
             chunks_per_segment |-> block.chunksInSegment,
             compression |-> DetectCompression(block),
             image_hashes |-> block.hashes,
             map_meta |-> mm])

\* The dependent ImageStream block is the first that mentions the word and
\* contains the ARN anywhere in its text, not the one whose subject it is.
DependentBlocks(blocks, dep_arn) ==
    WithWord(blocks, "ImageStream") \cap WithArn(blocks, dep_arn)

ParseMapTurtle(blocks, map_block) ==
    LET dep_arn == map_block.dependentStream
        candidates == DependentBlocks(blocks, dep_arn)
    IN  IF \/ map_block.iri = NoArn
           \/ map_block.size = NoNumber
           \/ dep_arn = NoArn
           \/ candidates = {}
        THEN Err("BadFormat")
        ELSE ParseImageStreamBlock(
                FirstOf(blocks, candidates),
                [mapped |-> TRUE, map_arn |-> map_block.iri, image_stream_arn |-> dep_arn,
                 gap_ff |-> "SymbolicStreamFF" \in map_block.words, size |-> map_block.size])

\* Mutant: a bare ImageStream comes before a Map.
ParseTurtleStreamFirst(blocks) ==
    IF WithWord(blocks, "aff4:EncryptedStream") # {} THEN Err("Encrypted")
    ELSE IF WithWord(blocks, "ImageStream") # {}
         THEN ParseImageStreamBlock(FirstOf(blocks, WithWord(blocks, "ImageStream")), NoMap)
    ELSE Err("BadFormat")

\* An EncryptedStream anywhere refuses the image; else a Map comes before a
\* bare ImageStream, whatever the order of the blocks.
ParseTurtle(blocks) ==
    IF WithWord(blocks, "aff4:EncryptedStream") # {} THEN Err("Encrypted")
    ELSE IF WithWord(blocks, "aff4:Map") # {}
         THEN ParseMapTurtle(blocks, FirstOf(blocks, WithWord(blocks, "aff4:Map")))
    ELSE IF WithWord(blocks, "ImageStream") # {}
         THEN ParseImageStreamBlock(FirstOf(blocks, WithWord(blocks, "ImageStream")), NoMap)
    ELSE Err("BadFormat")
=============================================================================
