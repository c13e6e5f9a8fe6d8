------------------------------- MODULE Fixtures -------------------------------
(***************************************************************************)
(* core/src/testutil.rs: the containers that the tests of the workspace    *)
(* are built on, written without the code that reads them.                 *)
(*                                                                         *)
(* An image fixture is a container of ReaderOps, its turtle text read by   *)
(* parse_turtle; the logical one is a volume of LogicalContainer.          *)
(* CHUNK_SIZE, 512 in the code, scales with the instance; so do sizes that *)
(* are multiples of it.                                                    *)
(***************************************************************************)
EXTENDS TurtleGraph, ReaderOps

CONSTANT CHUNK_SIZE

ASSUME ChunkAssumption == CHUNK_SIZE \in Nat \ {0}

STREAM_ARN == <<"aff4://issen-test-stream">>
MAP_ARN == <<"aff4://issen-test-map">>
IMAGE_STREAM_ARN == <<"aff4://issen-test-image-stream">>
VOLUME_ARN == <<"aff4://issen-test-logical-volume">>

\* The templates: one line a node, a blank around every delimiter.
TemplateStyle ==
    [link |-> <<" ", ";", " ">>, comma |-> <<" ", ",", " ">>, end |-> <<" ", ".", "\n">>, quoted |-> FALSE]

Turtle(nodes) ==
    Prefix("rdf:", "http://www.w3.org/1999/02/22-rdf-syntax-ns#")
      \o Prefix("aff4:", "http://aff4.org/Schema#")
      \o Joined([i \in 1 .. Len(nodes) |-> NodeText(TemplateStyle, nodes[i])], <<>>)

\* Padded or cut to a chunk.
FixtureChunk(data) == [i \in 1 .. CHUNK_SIZE |-> IF i <= Len(data) THEN data[i] ELSE 0]

StreamNode(arn, chunk_size, chunks_per_segment, method) ==
    Node(arn, <<"aff4:ImageStream">>,
         << <<"aff4:size", Integer(CHUNK_SIZE)>>, <<"aff4:chunkSize", Integer(chunk_size)>>,
            <<"aff4:chunksInSegment", Integer(chunks_per_segment)>>,
            <<"aff4:compressionMethod", method>> >>)

Null == PrefixedName("aff4:NullCompressor")

\* One stream of one segment with one chunk, `stored`, and the turtle of `nodes`.
OneChunk(arn, nodes, chunk, stored) ==
    LET segment == <<<<"bare", Spell(arn)>>, 0>>
    IN  [has_turtle |-> TRUE, turtle |-> DiskBlocks(Turtle(nodes)), map |-> <<>>, idx |-> <<>>,
         index |-> segment :> <<[offset |-> 0, length |-> Len(stored)]>>,
         bevy |-> segment :> stored,
         plain |-> chunk]

TestAff4WithGeometry(chunk_size, chunks_per_segment) ==
    OneChunk(STREAM_ARN, <<StreamNode(STREAM_ARN, chunk_size, chunks_per_segment, Null)>>,
             Zeros(CHUNK_SIZE), Zeros(CHUNK_SIZE))

TestAff4(data) ==
    OneChunk(STREAM_ARN, <<StreamNode(STREAM_ARN, CHUNK_SIZE, 1, Null)>>,
             FixtureChunk(data), FixtureChunk(data))

\* The frame that the encoder writes: one that decodes to the chunk.
Lz4Frame(chunk) == CHOOSE frame \in DOMAIN Codec["Lz4"] : Codec["Lz4"][frame] = chunk

TestAff4Lz4(data) ==
    OneChunk(STREAM_ARN,
             <<StreamNode(STREAM_ARN, CHUNK_SIZE, 1, Iri(<<"https://github.com/lz4/lz4">>))>>,
             FixtureChunk(data), Lz4Frame(FixtureChunk(data)))

\* A gap of one chunk, and the stream's chunk after it.
TestAff4Map(data) ==
    LET map == Node(MAP_ARN, <<"aff4:Map">>,
                    << <<"aff4:size", Integer(2 * CHUNK_SIZE)>>,
                       <<"aff4:dependentStream", Iri(IMAGE_STREAM_ARN)>>,
                       <<"aff4:mapGapDefaultStream", PrefixedName("aff4:Zero")>> >>)
        base == <<"bare", Spell(MAP_ARN)>>
    IN  [OneChunk(IMAGE_STREAM_ARN, <<StreamNode(IMAGE_STREAM_ARN, CHUNK_SIZE, 1, Null), map>>,
                  FixtureChunk(data), FixtureChunk(data)) EXCEPT
            !.map = base :> <<[map_offset |-> CHUNK_SIZE, length |-> CHUNK_SIZE,
                               target_offset |-> 0, target_id |-> 0]>>,
            !.idx = base :> <<[text |-> Spell(IMAGE_STREAM_ARN), fragment |-> "other", hex |-> NoHex]>>]

\* Its turtle text: a stream without bevies, and a key bag without iterations.
EncryptedTurtle ==
    LET keybag == STREAM_ARN \o <<"/keybag">>
    IN  Turtle(<< Node(STREAM_ARN, <<"aff4:EncryptedStream">>,
                       << <<"aff4:size", Integer(8 * CHUNK_SIZE)>>, <<"aff4:chunkSize", Integer(CHUNK_SIZE)>>,
                          <<"aff4:chunksInSegment", Integer(1)>>, <<"aff4:keyBag", Iri(keybag)>>,
                          <<"aff4:compressionMethod", Null>> >>),
                  Node(keybag, <<"aff4:PasswordWrappedKeyBag">>,
                       << <<"aff4:keySizeInBytes", Integer(32)>>,
                          <<"aff4:salt", Digits("00112233445566778899aabbccddeeff")>>,
                          <<"aff4:wrappedKey", Digits("deadbeef")>> >>) >>)

NoEntries == [has_turtle |-> TRUE, map |-> <<>>, idx |-> <<>>, index |-> <<>>, bevy |-> <<>>, plain |-> <<>>]

\* The encrypted fixture, as parse_turtle reads it.
TestAff4Encrypted == NoEntries @@ [turtle |-> DiskBlocks(EncryptedTurtle)]

\* One file, stored under the bare path of its ARN; len is the length of content.
TestAff4Logical(segment, content, len, md5_hex) ==
    LET arn == VOLUME_ARN \o <<"/">> \o segment
        file == Node(arn, <<"aff4:FileImage", "aff4:Image", "aff4:zip_segment">>,
                     << <<"aff4:originalFileName", Literal(<<".", "/">> \o segment)>>,
                        <<"aff4:size", Integer(len)>>,
                        <<"aff4:lastWritten", Literal(<<"2018-09-17T13:42:20+10:00">>)>>,
                        <<"aff4:hash", HashOf(md5_hex, "MD5")>>,
                        <<"aff4:stored", Iri(VOLUME_ARN)>> >>)
    IN  [has_turtle |-> TRUE,
         turtle |-> VolumeBlocks(Turtle(<<file>>)),
         entries |-> << [name |-> <<"information.turtle">>, content |-> "turtle"],
                        [name |-> segment, content |-> content],
                        [name |-> <<"version.txt">>, content |-> "version"] >>,
         captured |-> Spell(arn) :> content]

----------------------------------------------------------------------------
\* What the comments say a client reads of a fixture.
ImageOf(data) == FixtureChunk(data)
MapImageOf(data) == Zeros(CHUNK_SIZE) \o FixtureChunk(data)
=============================================================================
