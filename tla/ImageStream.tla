---------------------------- MODULE ImageStream ----------------------------
(***************************************************************************)
(* The chunk layer of core/src/lib.rs: an aff4:ImageStream is cut in       *)
(* chunks of chunk_size bytes, chunks_per_segment of them to a bevy; the   *)
(* bevy's index gives the (offset, length) of each stored chunk.           *)
(*                                                                         *)
(* A reader rd sees the archive through its zip_base: rd.index and rd.bevy *)
(* are functions on the segment numbers that have that ZIP entry.          *)
(***************************************************************************)
EXTENDS Aff4Map, Metadata

\* External: the decoder of each compression method, as a partial function
\* from what is stored to what it decodes to.
CONSTANT Codec

ASSUME CodecAssumption ==
    \A m \in Compression : \A s \in DOMAIN Codec[m] : Codec[m][s] \in Seq(Byte)

IndexEntry == [offset : U64s, length : U64s]

Zeros(n) == [i \in 1 .. n |-> 0]

\* Bytes start .. end-1 of a slice.
Slice(s, start, end) == SubSeq(s, start + 1, end)

\* The index of one bevy is a sequence of 12-byte entries; a last partial entry
\* cannot be read.  A chunk number that is no index into the file is refused; that
\* a debug build panics on the one whose entry would end past the address space
\* (lib.rs:475, the only sum there without a check) is left out.
ChunkBoundsFromIndex(index, chunk_in_seg) ==
    IF chunk_in_seg >= Len(index) THEN Err("BadFormat")
    ELSE LET e == index[chunk_in_seg + 1]
         IN  IF e.offset + e.length >= Word THEN Err("BadFormat")
             ELSE Ok([start |-> e.offset, end |-> e.offset + e.length])

\* A stored chunk as long as chunk_size was never compressed, whatever the
\* stream declares.
DecodeChunk(rd, stored) ==
    IF Len(stored) = rd.chunk_size \/ rd.compression = "Null" THEN Ok(stored)
    ELSE IF stored \in DOMAIN Codec[rd.compression] THEN Ok(Codec[rd.compression][stored])
    ELSE Err("BadFormat")

\* An empty index entry is a sparse chunk: zeros, and the bevy is not opened.
ReadChunk(rd, chunk_idx) ==
    LET seg == chunk_idx \div rd.chunks_per_segment
        bounds == ChunkBoundsFromIndex(rd.index[seg], chunk_idx % rd.chunks_per_segment)
        b == bounds.val
    IN  IF seg \notin DOMAIN rd.index THEN Err("Zip")
        ELSE IF ~bounds.ok THEN bounds
        ELSE IF b.start = b.end THEN Ok(Zeros(rd.chunk_size))
        ELSE IF seg \notin DOMAIN rd.bevy THEN Err("Zip")
        ELSE IF b.end > Len(rd.bevy[seg]) THEN Err("BadFormat")
        ELSE DecodeChunk(rd, Slice(rd.bevy[seg], b.start, b.end))

\* Chunks that cover the declared size: total.div_ceil(chunk_size).
NumChunks(rd) == (rd.image_stream_size + rd.chunk_size - 1) \div rd.chunk_size
============================================================================
