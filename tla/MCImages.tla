------------------------------ MODULE MCImages ------------------------------
(***************************************************************************)
(* Small containers for the MC modules.  Chunks are 2 bytes, segments 2    *)
(* chunks, Word is 64 (so 2^63 is 32) and the tile 10 bytes.               *)
(***************************************************************************)
EXTENDS Integers, Sequences, TLC

MCWord == 64
MCTileSize == 10

Plain == <<1, 2, 0, 0, 5>>

\* 201 decodes to the first chunk, 205 to a last chunk without padding, 77
\* to a chunk that is one byte short.
Packed == (<<201>> :> <<1, 2>>) @@ (<<205>> :> <<5>>) @@ (<<77>> :> <<1>>)
MCCodec == [m \in {"Null", "Deflate", "Snappy", "Lz4"} |->
              IF m = "Null" THEN <<>> ELSE Packed]

----------------------------------------------------------------------------
\* Turtle blocks

NoBlock == [words |-> {}, arns |-> {}, iri |-> "", size |-> -1, chunkSize |-> -1,
            chunksInSegment |-> -1, dependentStream |-> "", hashes |-> <<>>]

ImageBlock(arn, size, words) ==
    [NoBlock EXCEPT !.words = {"ImageStream"} \cup words, !.arns = {arn}, !.iri = arn,
                    !.size = size, !.chunkSize = 2, !.chunksInSegment = 2]

MapBlock(size, words) ==
    [NoBlock EXCEPT !.words = {"aff4:Map"} \cup words, !.arns = {"M", "S"}, !.iri = "M",
                    !.size = size, !.dependentStream = "S"]

\* Map entries and idx lines

E(map_offset, length, target_offset, target_id) ==
    [map_offset |-> map_offset, length |-> length, target_offset |-> target_offset,
     target_id |-> target_id]

Line(text, fragment, hex) == [text |-> text, fragment |-> fragment, hex |-> hex]

\* target_id 0: the stream, 1: Zero, 2: UnreadableData, 3: UnknownData, 4: 0xAB
Idx == << Line("S", "other", -1), Line("", "other", -1), Line("z", "Zero", -1),
          Line("ur", "UnreadableData", -1), Line("", "other", -1),
          Line("uk", "UnknownData", -1), Line("ab", "SymbolicStream", 171),
          Line("bad", "SymbolicStream", -1) >>

\* Archives

At(offset, length) == [offset |-> offset, length |-> length]

NoFile == [has_turtle |-> TRUE, turtle |-> <<>>, map |-> <<>>, idx |-> <<>>,
           index |-> <<>>, bevy |-> <<>>, plain |-> Plain]

S(conv) == <<conv, "S">>

\* Segment 0: a compressed chunk and a sparse one; segment 1: the last chunk,
\* stored raw and padded.
PackedStream(conv) ==
    [NoFile EXCEPT
        !.index = (<<S(conv), 0>> :> <<At(0, 1), At(7, 0)>>) @@ (<<S(conv), 1>> :> <<At(1, 2)>>),
        !.bevy = (<<S(conv), 0>> :> <<201>>) @@ (<<S(conv), 1>> :> <<8, 5, 9>>)]

\* The same content uncompressed, its last chunk short, a whole segment kept
\* in one bevy.
RawStream(conv) ==
    [NoFile EXCEPT
        !.index = (<<S(conv), 0>> :> <<At(2, 2), At(0, 2)>>) @@ (<<S(conv), 1>> :> <<At(0, 1)>>),
        !.bevy = (<<S(conv), 0>> :> <<0, 0, 1, 2>>) @@ (<<S(conv), 1>> :> <<5>>)]

\* A chunk in the middle that decodes to one byte too few.
ShortStream ==
    [PackedStream("bare") EXCEPT !.bevy = (<<S("bare"), 0>> :> <<77>>) @@ (<<S("bare"), 1>> :> <<8, 5, 9>>)]

Mapped(file, size, words, entries) ==
    [file EXCEPT !.turtle = <<MapBlock(size, words), ImageBlock("S", 5, {"lz4"})>>,
                 !.map = <<"bare", "M">> :> entries,
                 !.idx = <<"bare", "M">> :> Idx]

Direct(file, words) == [file EXCEPT !.turtle = <<ImageBlock("S", 5, words)>>]

----------------------------------------------------------------------------
DirectPacked == Direct(PackedStream("encoded"), {"snappy"})
DirectRaw == Direct(RawStream("iri"), {})

\* Unsorted, with an empty entry, two gaps read as 0xFF, a stream range that
\* crosses chunks and segments, and a tile range that crosses the seam.
MappedGaps ==
    Mapped(PackedStream("bare"), 10, {"SymbolicStreamFF"},
           <<E(7, 2, 0, 1), E(0, 2, 3, 0), E(5, 0, 0, 0), E(3, 4, 8, 2)>>)

\* Every other target kind, and the stream twice.
MappedKinds ==
    Mapped(PackedStream("iri"), 9, {},
           <<E(0, 3, 0, 0), E(3, 2, 6, 3), E(5, 1, 0, 4), E(6, 1, 0, 9), E(7, 2, 1, 0)>>)

\* Containers that do not open
EncryptedFile == [DirectRaw EXCEPT !.turtle = Append(@, [NoBlock EXCEPT !.words = {"aff4:EncryptedStream"}])]
NoTurtleFile == [DirectRaw EXCEPT !.has_turtle = FALSE]
NoIdxFile == [MappedGaps EXCEPT !.idx = <<>>]
ZeroChunkFile == [DirectRaw EXCEPT !.turtle = <<[ImageBlock("S", 5, {}) EXCEPT !.chunkSize = 0]>>]
NoDependentFile == [MappedGaps EXCEPT !.turtle = <<MapBlock(10, {}), ImageBlock("T", 5, {})>>]

\* Images the standard forbids, and one of 9 EiB (36 / 64 of 2^64)
NestedMap == Mapped(PackedStream("bare"), 10, {"SymbolicStreamFF"}, <<E(0, 8, 0, 1), E(2, 2, 0, 3)>>)
ShortChunk == Direct(ShortStream, {"snappy"})
OverflowMap == Mapped(PackedStream("bare"), 10, {}, <<E(0, 2, 0, 0), E(2, 62, 0, 1)>>)
LostBevy == [DirectPacked EXCEPT !.bevy = <<S("encoded"), 0>> :> <<201>>]
HugeMap == Mapped(PackedStream("bare"), 36, {}, <<E(0, 5, 0, 0), E(20, 15, 0, 4)>>)

GoodFiles == {DirectPacked, DirectRaw, MappedGaps, MappedKinds}
ClosedFiles == {EncryptedFile, NoTurtleFile, NoIdxFile, ZeroChunkFile, NoDependentFile}
BadFiles == {NestedMap, ShortChunk, OverflowMap, LostBevy, HugeMap}
=============================================================================
