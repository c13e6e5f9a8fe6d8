----------------------------- MODULE ReaderOps -----------------------------
(***************************************************************************)
(* The operations of Aff4Reader (core/src/lib.rs) as operators: opening a  *)
(* container, one call of Read::read at a cursor, one call of Seek::seek.  *)
(* Aff4Reader, Aff4Source and ImageAudit are the machines that use them.   *)
(*                                                                         *)
(* A container `file` is what the ZIP archive holds:                       *)
(*   has_turtle, turtle  information.turtle (see Metadata);                *)
(*   map, idx            the /map and /idx entries, by ZIP base;           *)
(*   index, bevy         the bevy indexes and bevies, by <<base, segment>>;*)
(*   plain               what the imager stored, the content the stream is *)
(*                       meant to decode to.  No code reads it.            *)
(* A ZIP base is <<naming convention, ARN>>.                               *)
(***************************************************************************)
EXTENDS ImageStream

\* The three ways producers name a stream's entries, in order of preference:
\* aff4%3A%2F%2Fuuid/.., aff4://uuid/.., uuid/..
Conventions == <<"encoded", "iri", "bare">>

Bases(file) ==
    DOMAIN file.map \cup DOMAIN file.idx
      \cup {k[1] : k \in DOMAIN file.index \cup DOMAIN file.bevy}

DetectZipBase(file, arn) ==
    LET used == {i \in 1 .. 3 : <<Conventions[i], arn>> \in Bases(file)}
    IN  IF used = {} THEN <<"bare", arn>>
        ELSE <<Conventions[CHOOSE i \in used : \A j \in used : i <= j], arn>>

\* The entries of one stream, by segment number.
Entries(f, base) ==
    [s \in {k[2] : k \in {q \in DOMAIN f : q[1] = base}} |-> f[<<base, s>>]]

EmptyMap == [entries |-> <<>>, targets |-> <<>>, gap_default |-> Fill(0)]

LoadMap(file, mm, base) ==
    [entries |-> ParseMapEntries(file.map[base]),
     targets |-> ParseIdx(file.idx[base], mm.image_stream_arn),
     gap_default |-> IF mm.gap_ff THEN Fill(255) ELSE Fill(0)]

NewReader(file, meta, loaded_map) ==
    LET base == DetectZipBase(file, meta.stream_arn)
    IN  [index |-> Entries(file.index, base),
         bevy |-> Entries(file.bevy, base),
         virtual_size |-> meta.virtual_size,
         image_stream_size |-> meta.image_stream_size,
         chunk_size |-> meta.chunk_size,
         chunks_per_segment |-> meta.chunks_per_segment,
         compression |-> meta.compression,
         image_hashes |-> meta.image_hashes,
         mapped |-> meta.map_meta.mapped,
         loaded_map |-> loaded_map]

OpenReader(file) ==
    LET parsed == ParseTurtle(file.turtle)
        mm == parsed.val.map_meta
        base == DetectZipBase(file, mm.map_arn)
    IN  IF ~file.has_turtle THEN Err("Zip")
        ELSE IF ~parsed.ok THEN parsed
        ELSE IF ~mm.mapped THEN Ok(NewReader(file, parsed.val, EmptyMap))
        ELSE IF base \notin DOMAIN file.map \cap DOMAIN file.idx THEN Err("Zip")
        ELSE Ok(NewReader(file, parsed.val, LoadMap(file, mm, base)))

----------------------------------------------------------------------------
\* One Read::read at pos into a buffer of `len` bytes.  The cursor moves by
\* the bytes returned, so a failed or empty read leaves it where it was.
Returns(bytes) == [res |-> "ok", bytes |-> bytes]
Fails(res) == [res |-> res, bytes |-> <<>>]

RegionAt(rd, pos) ==
    IF rd.mapped THEN Resolve(rd.loaded_map, pos, rd.virtual_size)
    ELSE Region(ImageStreamKind, pos, Word - 1)

\* `tile.byte_at(target_offset + i)` for i below n.
TileBytes(r, n) ==
    IF AddPanics(r.target_offset, n - 1) THEN Fails("panic")
    ELSE Returns([i \in 1 .. n |-> ByteAt(r.kind, Add64(r.target_offset, i - 1))])

\* Mutant: the chunk is not cut at the end of the map region.
ChunkBytesPastRegion(rd, r, to_read) ==
    LET chunk == ReadChunk(rd, r.target_offset \div rd.chunk_size)
        skip == r.target_offset % rd.chunk_size
        n == Least(to_read, SaturatingSub(Len(chunk.val), skip))
    IN  IF ~chunk.ok THEN Fails("err") ELSE Returns(Slice(chunk.val, skip, skip + n))

\* Mutant: the offset in the chunk is not reduced by the chunks before it.
ChunkBytesUnreduced(rd, r, to_read) ==
    LET chunk == ReadChunk(rd, r.target_offset \div rd.chunk_size)
        skip == r.target_offset
        available == Least(SaturatingSub(Len(chunk.val), skip), r.bytes_in_region)
        n == Least(to_read, available)
    IN  IF ~chunk.ok THEN Fails("err") ELSE Returns(Slice(chunk.val, skip, skip + n))

\* One chunk serves the read, however much is wanted.
ChunkBytes(rd, r, to_read) ==
    LET chunk == ReadChunk(rd, r.target_offset \div rd.chunk_size)
        skip == r.target_offset % rd.chunk_size
        available == Least(SaturatingSub(Len(chunk.val), skip), r.bytes_in_region)
        n == Least(to_read, available)
    IN  IF ~chunk.ok THEN Fails("err") ELSE Returns(Slice(chunk.val, skip, skip + n))

ReadOutcome(rd, pos, len) ==
    LET to_read == Least(len, rd.virtual_size - pos)
        r == RegionAt(rd, pos)
        n == Least(to_read, r.bytes_in_region)
    IN  IF len = 0 \/ pos >= rd.virtual_size THEN Returns(<<>>)
        ELSE IF r.panics THEN Fails("panic")
        ELSE IF r.kind = ImageStreamKind THEN ChunkBytes(rd, r, to_read)
        ELSE IF r.kind \in {UnknownTile, UnreadableTile} THEN TileBytes(r, n)
        ELSE Returns([i \in 1 .. n |-> r.kind.byte])   \* Unknown reads as zeros

\* Does this read open entries of the archive (so that the medium may fail)?
TouchesArchive(rd, pos, len) ==
    /\ len > 0
    /\ pos < rd.virtual_size
    /\ ~RegionAt(rd, pos).panics
    /\ RegionAt(rd, pos).kind = ImageStreamKind

----------------------------------------------------------------------------
\* One Seek::seek.  Every form goes through i64.
\* What is asked for, in the i64 arithmetic of the code.
SeekSum(rd, pos, whence, n) ==
    CASE whence = "Start" -> AsI64(n)
      [] whence = "End" -> AsI64(rd.virtual_size) + n
      [] whence = "Current" -> AsI64(pos) + n

\* Mutant: a seek before the start goes to the start.
SeekOutcomeClamped(rd, pos, whence, n) ==
    [res |-> "ok", pos |-> Greatest(WrapI64(SeekSum(rd, pos, whence, n)), 0)]

SeekOutcome(rd, pos, whence, n) ==
    LET sum == SeekSum(rd, pos, whence, n)
    IN  IF OverflowChecks /\ ~FitsI64(sum) THEN [res |-> "panic", pos |-> pos]
        ELSE IF WrapI64(sum) < 0 THEN [res |-> "err", pos |-> pos]
        ELSE [res |-> "ok", pos |-> WrapI64(sum)]
============================================================================
