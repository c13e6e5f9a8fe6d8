---------------------------- MODULE DiskContent ----------------------------
(***************************************************************************)
(* What the bytes of a virtual disk are, said without the code's lookup:   *)
(* no binary search, no chunk cache, no cursor.  The reader is checked     *)
(* against these definitions.  `plain` is the content the imager stored in *)
(* the ImageStream.                                                        *)
(***************************************************************************)
EXTENDS ReaderOps

EndOf(e) == e.map_offset + e.length

Covers(e, p) == e.map_offset <= p /\ p < EndOf(e)

\* The byte at position q of a map target.
TargetByte(kind, plain, q) ==
    IF kind = ImageStreamKind THEN plain[q + 1]
    ELSE IF kind \in {UnknownTile, UnreadableTile} THEN ByteAt(kind, q)
    ELSE kind.byte

MappedByte(m, plain, p) ==
    LET cover == {i \in 1 .. Len(m.entries) : Covers(m.entries[i], p)}
        e == m.entries[CHOOSE i \in cover : TRUE]
    IN  IF cover = {} THEN m.gap_default.byte
        ELSE TargetByte(KindOf(m, e), plain, e.target_offset + (p - e.map_offset))

DiskByte(rd, plain, p) ==
    IF rd.mapped THEN MappedByte(rd.loaded_map, plain, p) ELSE plain[p + 1]

\* n bytes of the disk from position p on.
DiskBytes(disk, p, n) == [i \in 1 .. n |-> disk[p + i - 1]]

\* The whole disk, by position; empty for a file that does not open.
DiskOf(file) ==
    LET o == OpenReader(file)
    IN  IF o.ok THEN [p \in 0 .. o.val.virtual_size - 1 |-> DiskByte(o.val, file.plain, p)]
        ELSE <<>>

----------------------------------------------------------------------------
(* Well-formed images: what an imager that follows the standard writes.    *)

\* Entries of the map do not overlap and stay inside the address space and
\* inside their targets.
WellMapped(m, image_stream_size) ==
    /\ \A i, j \in 1 .. Len(m.entries) :
          i < j => EndOf(m.entries[i]) <= m.entries[j].map_offset
    /\ \A i \in 1 .. Len(m.entries) :
          LET e == m.entries[i]
          IN  /\ EndOf(e) < Word
              /\ e.target_offset + e.length < Word
              /\ KindOf(m, e) = ImageStreamKind =>
                    e.target_offset + e.length <= image_stream_size

\* A stored chunk decodes to `want`, possibly padded up to the chunk size.
Represents(rd, stored, want) ==
    LET decoded == DecodeChunk(rd, stored)
    IN  /\ decoded.ok
        /\ Len(want) <= Len(decoded.val)
        /\ Len(decoded.val) <= rd.chunk_size
        /\ \A i \in 1 .. Len(want) : decoded.val[i] = want[i]

\* Bytes of the content that chunk c holds.
ChunkLen(rd, c) == Least(rd.chunk_size, rd.image_stream_size - c * rd.chunk_size)
ChunkPlain(rd, plain, c) == [i \in 1 .. ChunkLen(rd, c) |-> plain[c * rd.chunk_size + i]]

WellStoredChunk(rd, plain, c) ==
    LET seg == c \div rd.chunks_per_segment
        k == c % rd.chunks_per_segment
        e == rd.index[seg][k + 1]
    IN  /\ seg \in DOMAIN rd.index
        /\ k < Len(rd.index[seg])
        /\ e.offset + e.length < Word
        /\ IF e.length = 0
           THEN \A i \in 1 .. ChunkLen(rd, c) : plain[c * rd.chunk_size + i] = 0
           ELSE /\ seg \in DOMAIN rd.bevy
                /\ e.offset + e.length <= Len(rd.bevy[seg])
                /\ Represents(rd, Slice(rd.bevy[seg], e.offset, e.offset + e.length),
                              ChunkPlain(rd, plain, c))

WellStored(rd, plain) ==
    /\ Len(plain) = rd.image_stream_size
    /\ \A c \in 0 .. NumChunks(rd) - 1 : WellStoredChunk(rd, plain, c)

\* Seek cannot address 2^63 and beyond, so a disk has to end below it.
WellFormed(rd, plain) ==
    /\ WellStored(rd, plain)
    /\ rd.virtual_size < SignBit
    /\ rd.mapped => WellMapped(rd.loaded_map, rd.image_stream_size)
----------------------------------------------------------------------------
(* Containers: any archive, its entries read as what they should hold.     *)

Digest == [algorithm : STRING, of : Seq(Byte)]

TurtleBlock ==
    [words : SUBSET Marker, arns : SUBSET STRING, iri : STRING, dependentStream : STRING,
     size : U64s \cup {NoNumber}, chunkSize : U64s \cup {NoNumber},
     chunksInSegment : U64s \cup {NoNumber}, hashes : Seq(Digest)]

ZipBase == {"encoded", "iri", "bare"} \X STRING

IsContainer(f) ==
    /\ f.has_turtle \in BOOLEAN
    /\ f.turtle \in Seq(TurtleBlock)
    /\ \A b \in DOMAIN f.map : f.map[b] \in Seq(MapEntry)
    /\ \A b \in DOMAIN f.idx : f.idx[b] \in Seq(IdxLine)
    /\ DOMAIN f.index \cup DOMAIN f.bevy \subseteq ZipBase \X Nat
    /\ \A k \in DOMAIN f.index : f.index[k] \in Seq(IndexEntry)
    /\ \A k \in DOMAIN f.bevy : f.bevy[k] \in Seq(Byte)
    /\ f.plain \in Seq(Byte)

----------------------------------------------------------------------------
(* What opening establishes, and reading relies on.                        *)

Sorted(entries) ==
    \A i, j \in 1 .. Len(entries) : i < j => entries[i].map_offset <= entries[j].map_offset

IsLoadedMap(m) ==
    /\ m.entries \in Seq(MapEntry)
    /\ Sorted(m.entries)
    /\ \A i \in 1 .. Len(m.entries) : m.entries[i].length > 0
    /\ m.targets \in Seq(TargetKind)
    /\ m.gap_default \in {Fill(0), Fill(255)}

IsReader(rd) ==
    /\ rd.mapped \in BOOLEAN
    /\ rd.virtual_size \in U64s
    /\ rd.image_stream_size \in U64s
    /\ rd.chunk_size \in U64s \ {0}
    /\ rd.chunks_per_segment \in U64s \ {0}
    /\ rd.compression \in Compression
    /\ \A s \in DOMAIN rd.index : rd.index[s] \in Seq(IndexEntry)
    /\ \A s \in DOMAIN rd.bevy : rd.bevy[s] \in Seq(Byte)
    /\ IsLoadedMap(rd.loaded_map)
    /\ ~rd.mapped => rd.virtual_size = rd.image_stream_size
    /\ rd.image_hashes \in Seq(Digest)
============================================================================
