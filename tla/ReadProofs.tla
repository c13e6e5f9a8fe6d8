----------------------------- MODULE ReadProofs -----------------------------
(***************************************************************************)
(* Read::read of a well-formed image delivers the bytes of its disk.       *)
(***************************************************************************)
EXTENDS ReaderProofs

\* The position q of a stream lies in one of its chunks.
LEMMA ChunkOfPosition ==
    ASSUME NEW size \in Nat, NEW q \in Nat, q < size, NEW d \in Nat \ {0}
    PROVE  /\ q \div d \in 0 .. ((size + d - 1) \div d) - 1
           /\ q % d \in 0 .. d - 1
           /\ q = (q \div d) * d + (q % d)
<1> DEFINE c == q \div d
           n == (size + d - 1) \div d
<1>1. c \in Nat /\ q % d \in 0 .. d - 1 /\ q = d * c + (q % d)
  BY DivMod
<1>2. size + d - 1 \in Nat
  OBVIOUS
<1>3. n \in Nat /\ size + d - 1 < d * n + d
  <2>1. n \in Nat /\ (size + d - 1) % d \in 0 .. d - 1
        /\ size + d - 1 = d * n + ((size + d - 1) % d)
    BY <1>2, DivMod
  <2> QED BY <2>1
<1> HIDE DEF c, n
<1>4. d * c + d < d * n + d
  BY <1>1, <1>3
<1>5. c < n
  <2> SUFFICES ASSUME n <= c PROVE FALSE
    BY <1>1, <1>3
  <2>1. d * n <= d * c
    BY <1>1, <1>3
  <2> QED BY <2>1, <1>4, <1>1, <1>3
<1>6. c \in 0 .. n - 1
  BY <1>1, <1>3, <1>5
<1>7. q = c * d + (q % d)
  BY <1>1
<1> QED BY <1>1, <1>6, <1>7 DEF c, n

\* What a reader's numbers are.
LEMMA ReaderNumbers ==
    ASSUME NEW rd, IsReader(rd)
    PROVE  /\ rd.chunk_size \in Nat \ {0} /\ rd.chunks_per_segment \in Nat \ {0}
           /\ rd.image_stream_size \in Nat /\ rd.virtual_size \in Nat
BY WordHalves DEF IsReader, U64s

\* A chunk decodes to what the imager stored in it, whatever lies behind.
HoldsChunk(rd, plain, c, o) ==
    /\ o.ok
    /\ o.val \in Seq(Byte)
    /\ Len(o.val) >= ChunkLen(rd, c)
    /\ Len(o.val) <= rd.chunk_size
    /\ \A i \in 1 .. ChunkLen(rd, c) : o.val[i] = plain[c * rd.chunk_size + i]

\* read_chunk of a well-stored stream, sparse, raw or compressed.
LEMMA ChunkCorrect ==
    ASSUME NEW rd, IsReader(rd), NEW plain, WellStored(rd, plain),
           NEW c \in 0 .. NumChunks(rd) - 1, ChunkLen(rd, c) \in Nat,
           ChunkLen(rd, c) <= rd.chunk_size
    PROVE  HoldsChunk(rd, plain, c, ReadChunk(rd, c))
<1> DEFINE seg == c \div rd.chunks_per_segment
           k == c % rd.chunks_per_segment
           bounds == ChunkBoundsFromIndex(rd.index[seg], k)
           b == bounds.val
           e == rd.index[seg][k + 1]
           o == ReadChunk(rd, c)
           stored == Slice(rd.bevy[seg], e.offset, e.offset + e.length)
<1>1. /\ seg \in DOMAIN rd.index
      /\ k < Len(rd.index[seg])
      /\ e.offset + e.length < Word
      /\ IF e.length = 0
         THEN \A i \in 1 .. ChunkLen(rd, c) : plain[c * rd.chunk_size + i] = 0
         ELSE /\ seg \in DOMAIN rd.bevy
              /\ e.offset + e.length <= Len(rd.bevy[seg])
              /\ Represents(rd, stored, ChunkPlain(rd, plain, c))
  BY DEF WellStored, WellStoredChunk
<1>2. k \in Nat
  <2>1. c \in Nat
    OBVIOUS
  <2>2. \A d \in Nat \ {0} : c % d \in Nat
    BY <2>1, DivMod
  <2> QED BY <2>2, ReaderNumbers
<1> HIDE DEF seg, k
<1>3. /\ rd.index[seg] \in Seq(IndexEntry)
      /\ e.offset \in Nat /\ e.length \in Nat
  <2>1. rd.index[seg] \in Seq(IndexEntry)
    BY <1>1 DEF IsReader
  <2>2. k + 1 \in 1 .. Len(rd.index[seg])
    BY <2>1, <1>1, <1>2
  <2>3. e \in IndexEntry
    BY <2>1, <2>2, ElementOfSeq
  <2> QED BY <2>1, <2>3, WordHalves DEF IndexEntry, U64s
<1>4. bounds = Ok([start |-> e.offset, end |-> e.offset + e.length])
  <2>1. ~(k >= Len(rd.index[seg])) /\ ~(e.offset + e.length >= Word)
    BY <1>1, <1>2, <1>3, WordHalves
  <2> QED BY <2>1 DEF ChunkBoundsFromIndex
<1>5. bounds.ok = TRUE /\ b.start = e.offset /\ b.end = e.offset + e.length
  BY <1>4 DEF Ok
<1> HIDE DEF bounds, b, e
<1>6. o = IF b.start = b.end THEN Ok(Zeros(rd.chunk_size))
          ELSE IF seg \notin DOMAIN rd.bevy THEN Err("Zip")
          ELSE IF b.end > Len(rd.bevy[seg]) THEN Err("BadFormat")
          ELSE DecodeChunk(rd, Slice(rd.bevy[seg], b.start, b.end))
  BY <1>1, <1>5 DEF ReadChunk, seg, k, b, bounds
<1>7. CASE e.length = 0
  <2>1. o = Ok(Zeros(rd.chunk_size))
    BY <1>3, <1>5, <1>6, <1>7
  <2>2. Zeros(rd.chunk_size) \in Seq(Byte) /\ Len(Zeros(rd.chunk_size)) = rd.chunk_size
    BY ReaderNumbers DEF Zeros, Byte
  <2>3. \A i \in 1 .. ChunkLen(rd, c) : Zeros(rd.chunk_size)[i] = 0
    BY ReaderNumbers DEF Zeros
  <2>4. \A i \in 1 .. ChunkLen(rd, c) : plain[c * rd.chunk_size + i] = 0
    BY <1>1, <1>7
  <2>5. o.ok /\ o.val = Zeros(rd.chunk_size)
    BY <2>1 DEF Ok
  <2> HIDE DEF o
  <2> QED BY <2>2, <2>3, <2>4, <2>5, ReaderNumbers DEF HoldsChunk, o
<1>8. CASE e.length # 0
  <2>1. /\ seg \in DOMAIN rd.bevy
        /\ e.offset + e.length <= Len(rd.bevy[seg])
        /\ Represents(rd, stored, ChunkPlain(rd, plain, c))
    BY <1>1, <1>8
  <2>2. rd.bevy[seg] \in Seq(Byte)
    BY <2>1 DEF IsReader
  <2>3. o = DecodeChunk(rd, stored)
    BY <2>1, <2>2, <1>3, <1>5, <1>6, <1>8
  <2>4. /\ o.ok
        /\ Len(ChunkPlain(rd, plain, c)) <= Len(o.val)
        /\ Len(o.val) <= rd.chunk_size
        /\ \A i \in 1 .. Len(ChunkPlain(rd, plain, c)) : o.val[i] = ChunkPlain(rd, plain, c)[i]
    BY <2>1, <2>3 DEF Represents
  <2>5. /\ Len(ChunkPlain(rd, plain, c)) = ChunkLen(rd, c)
        /\ \A i \in 1 .. ChunkLen(rd, c) : ChunkPlain(rd, plain, c)[i] = plain[c * rd.chunk_size + i]
    BY DEF ChunkPlain
  <2>6. o.val \in Seq(Byte)
    <3>1. c \in Nat
      OBVIOUS
    <3> QED BY <3>1, <2>4, ReadChunkTyped
  <2> HIDE DEF o
  <2>7. Len(o.val) \in Nat
    BY <2>6
  <2> QED BY <2>4, <2>5, <2>6, <2>7, ReaderNumbers DEF HoldsChunk, o
<1> QED BY <1>7, <1>8

----------------------------------------------------------------------------
\* A read returns at least one byte and at most n, those of a region's target
\* from the region's offset on.
Delivers(o, r, plain, n) ==
    /\ o.res = "ok"
    /\ o.bytes \in Seq(Byte)
    /\ Len(o.bytes) \in 1 .. n
    /\ \A i \in 1 .. Len(o.bytes) :
          o.bytes[i] = TargetByte(r.kind, plain, r.target_offset + (i - 1))

\* An answer of at least one of the target's bytes is a delivery.
LEMMA DeliversTyped ==
    ASSUME NEW r, NEW plain, NEW n \in Nat \ {0}, NEW bytes \in Seq(Byte), Len(bytes) \in 1 .. n,
           \A i \in 1 .. Len(bytes) :
              bytes[i] = TargetByte(r.kind, plain, r.target_offset + (i - 1))
    PROVE  Delivers(Returns(bytes), r, plain, n)
<1>1. Returns(bytes).res = "ok" /\ Returns(bytes).bytes = bytes
  BY DEF Returns
<1> QED BY <1>1 DEF Delivers

\* A read inside the ImageStream stops at the end of the chunk, of the region
\* and of the buffer, and never reaches the padding of the last chunk.
LEMMA ChunkBytesCorrect ==
    ASSUME NEW rd, IsReader(rd), NEW plain, WellStored(rd, plain),
           NEW r, IsRegion(r), r.kind = ImageStreamKind, ~r.panics,
           NEW to_read \in Nat \ {0}, r.target_offset < rd.image_stream_size,
           r.target_offset + Least(to_read, r.bytes_in_region) <= rd.image_stream_size
    PROVE  Delivers(ChunkBytes(rd, r, to_read), r, plain, Least(to_read, r.bytes_in_region))
<1> DEFINE q == r.target_offset
           d == rd.chunk_size
           size == rd.image_stream_size
           c == q \div d
           skip == q % d
           most == Least(to_read, r.bytes_in_region)
           chunk == ReadChunk(rd, c)
           n == Least(to_read, Least(SaturatingSub(Len(chunk.val), skip), r.bytes_in_region))
           bytes == Slice(chunk.val, skip, skip + n)
<1>1. /\ q \in Nat /\ r.bytes_in_region \in Nat \ {0} /\ d \in Nat \ {0} /\ size \in Nat
      /\ q < size
  BY ReaderNumbers, WordHalves DEF IsRegion, U64s
<1>2. most \in Nat \ {0} /\ most <= to_read /\ most <= r.bytes_in_region /\ q + most <= size
  BY <1>1 DEF Least
<1> HIDE DEF q, d, size
<1>3. c \in 0 .. NumChunks(rd) - 1 /\ skip \in 0 .. d - 1 /\ q = c * d + skip
  <2>1. c \in 0 .. ((size + d - 1) \div d) - 1 /\ skip \in 0 .. d - 1 /\ q = c * d + skip
    BY <1>1, ChunkOfPosition
  <2> QED BY <2>1 DEF NumChunks, size, d
<1> HIDE DEF c, skip
<1>4. c \in Nat /\ skip \in Nat /\ skip < d /\ c * d \in Nat
  <2>1. c \in Nat
    BY <1>3
  <2> QED BY <2>1, <1>1, <1>3
<1>5. /\ ChunkLen(rd, c) \in Nat /\ ChunkLen(rd, c) <= d
      /\ skip < ChunkLen(rd, c)
      /\ \A k \in Nat : skip + k <= d /\ q + k <= size => skip + k <= ChunkLen(rd, c)
  <2>1. ChunkLen(rd, c) = IF d <= size - c * d THEN d ELSE size - c * d
    BY DEF ChunkLen, Least, d, size
  <2> DEFINE p == c * d
  <2> HIDE DEF p
  <2>2. p \in Nat /\ q = p + skip /\ ChunkLen(rd, c) = IF d <= size - p THEN d ELSE size - p
    BY <2>1, <1>3, <1>4 DEF p
  <2> QED BY <2>2, <1>1, <1>4
<1>6. HoldsChunk(rd, plain, c, chunk)
  BY <1>3, <1>5, ChunkCorrect DEF d
<1> HIDE DEF chunk, most
<1>7. /\ chunk.ok /\ chunk.val \in Seq(Byte) /\ Len(chunk.val) \in Nat
      /\ Len(chunk.val) >= ChunkLen(rd, c)
      /\ Len(chunk.val) <= d
      /\ \A i \in 1 .. ChunkLen(rd, c) : chunk.val[i] = plain[c * d + i]
  BY <1>6 DEF HoldsChunk, d
<1>8. n \in Nat \ {0} /\ n <= most /\ skip + n <= d /\ skip + n <= Len(chunk.val)
  <2> DEFINE len == Len(chunk.val)
  <2>1. len \in Nat /\ skip < len /\ len <= d
    BY <1>4, <1>5, <1>7
  <2> HIDE DEF len
  <2>2. /\ SaturatingSub(len, skip) = len - skip
        /\ len - skip \in Nat \ {0}
    BY <2>1, <1>4 DEF SaturatingSub
  <2>3. /\ Least(to_read, Least(len - skip, r.bytes_in_region)) \in Nat \ {0}
        /\ Least(to_read, Least(len - skip, r.bytes_in_region)) <= most
        /\ Least(to_read, Least(len - skip, r.bytes_in_region)) <= len - skip
    BY <2>2, <1>1 DEF Least, most
  <2>4. n = Least(to_read, Least(len - skip, r.bytes_in_region))
    BY <2>2 DEF len
  <2> HIDE DEF n
  <2>5. n \in Nat \ {0} /\ n <= most /\ n <= len - skip
    BY <2>3, <2>4
  <2>6. skip + n <= len /\ skip + n <= d
    BY <2>1, <2>5, <1>1, <1>4
  <2> QED BY <2>5, <2>6 DEF len
<1>9. ChunkBytes(rd, r, to_read) = Returns(bytes)
  BY <1>7 DEF ChunkBytes, chunk, c, skip, q, d
<1> HIDE DEF n
<1>10. skip + n <= ChunkLen(rd, c)
  BY <1>1, <1>2, <1>5, <1>8 DEF most
<1> DEFINE end == skip + n
<1>11. end \in Nat /\ skip <= end /\ end <= Len(chunk.val) /\ end - skip = n
  BY <1>4, <1>8
<1>12. /\ bytes \in Seq(Byte) /\ Len(bytes) = n
       /\ \A i \in 1 .. n : bytes[i] = chunk.val[skip + i]
  <2>1. \A s \in Seq(Byte), a, b \in Nat : a <= b /\ b <= Len(s) =>
           /\ Slice(s, a, b) \in Seq(Byte) /\ Len(Slice(s, a, b)) = b - a
           /\ \A i \in 1 .. b - a : Slice(s, a, b)[i] = s[a + i]
    <3> SUFFICES ASSUME NEW s \in Seq(Byte), NEW a \in Nat, NEW b \in Nat, a <= b, b <= Len(s)
                 PROVE  /\ Slice(s, a, b) \in Seq(Byte) /\ Len(Slice(s, a, b)) = b - a
                        /\ \A i \in 1 .. b - a : Slice(s, a, b)[i] = s[a + i]
      OBVIOUS
    <3> QED BY SliceTyped
  <2> HIDE DEF end
  <2>2. /\ Slice(chunk.val, skip, end) \in Seq(Byte) /\ Len(Slice(chunk.val, skip, end)) = end - skip
        /\ \A i \in 1 .. end - skip : Slice(chunk.val, skip, end)[i] = chunk.val[skip + i]
    BY <2>1, <1>4, <1>7, <1>11
  <2> QED BY <2>2, <1>11 DEF end
<1> HIDE DEF bytes
<1>13. \A i \in 1 .. Len(bytes) :
          bytes[i] = TargetByte(r.kind, plain, r.target_offset + (i - 1))
  <2> SUFFICES ASSUME NEW i \in 1 .. n
               PROVE  bytes[i] = TargetByte(r.kind, plain, q + (i - 1))
    BY <1>12 DEF q
  <2>1. skip + i \in 1 .. ChunkLen(rd, c)
    BY <1>4, <1>5, <1>8, <1>10
  <2>2. bytes[i] = plain[c * d + (skip + i)]
    BY <2>1, <1>7, <1>12
  <2> DEFINE p == c * d
  <2>3. p \in Nat /\ q = p + skip
    BY <1>3, <1>4
  <2> HIDE DEF p
  <2>4. p + (skip + i) = q + (i - 1) + 1
    BY <2>3, <1>4
  <2>5. TargetByte(r.kind, plain, q + (i - 1)) = plain[q + (i - 1) + 1]
    BY DEF TargetByte
  <2> QED BY <2>2, <2>4, <2>5 DEF p
<1>14. Len(bytes) \in 1 .. most
  BY <1>2, <1>8, <1>12
<1> QED BY <1>2, <1>9, <1>12, <1>13, <1>14, DeliversTyped DEF most

----------------------------------------------------------------------------
\* The numbers of a loaded map's entries.
LEMMA EntryNumbers ==
    ASSUME NEW m, IsLoadedMap(m), NEW i \in 1 .. Len(m.entries)
    PROVE  /\ m.entries[i].map_offset \in Nat /\ m.entries[i].map_offset < Word
           /\ m.entries[i].length \in Nat \ {0} /\ m.entries[i].length < Word
           /\ m.entries[i].target_offset \in Nat
           /\ EndOf(m.entries[i]) \in Nat /\ m.entries[i].map_offset < EndOf(m.entries[i])
<1>1. m.entries \in Seq(MapEntry) /\ m.entries[i].length > 0
  BY DEF IsLoadedMap
<1>2. m.entries[i] \in MapEntry
  BY <1>1, ElementOfSeq
<1> QED BY <1>1, <1>2, MapEntryFields DEF EndOf

\* A map that resolve gets right wherever it does not panic: entries that do not
\* overlap, inside their targets, and an overflow only in a build that notices it.
SoundMap(m, ims) ==
    /\ \A i, j \in 1 .. Len(m.entries) :
          i < j => EndOf(m.entries[i]) <= m.entries[j].map_offset
    /\ \A i \in 1 .. Len(m.entries) :
          LET e == m.entries[i]
          IN  /\ OverflowChecks \/ (EndOf(e) < Word /\ e.target_offset + e.length < Word)
              /\ KindOf(m, e) = ImageStreamKind => e.target_offset + e.length <= ims

\* A well-formed map is a sound map: what resolving needs is less than what building it gives.
LEMMA WellMappedSound ==
    ASSUME NEW m, NEW ims, WellMapped(m, ims)
    PROVE  SoundMap(m, ims)
BY DEF WellMapped, SoundMap

\* Entries of a sound map do not overlap: the byte of a covered position
\* is the byte of the target of whichever entry covers it.
LEMMA CoveredByte ==
    ASSUME NEW m, IsLoadedMap(m), NEW ims, SoundMap(m, ims), NEW plain, NEW p \in Nat,
           NEW i \in 1 .. Len(m.entries), Covers(m.entries[i], p)
    PROVE  MappedByte(m, plain, p)
             = TargetByte(KindOf(m, m.entries[i]), plain,
                          m.entries[i].target_offset + (p - m.entries[i].map_offset))
<1> DEFINE cover == {k \in 1 .. Len(m.entries) : Covers(m.entries[k], p)}
<1>1. \A k \in cover : k = i
  <2> SUFFICES ASSUME NEW k \in 1 .. Len(m.entries), Covers(m.entries[k], p), k # i PROVE FALSE
    OBVIOUS
  <2>1. Len(m.entries) \in Nat
    BY DEF IsLoadedMap
  <2>2. /\ m.entries[i].map_offset \in Nat /\ EndOf(m.entries[i]) \in Nat
        /\ m.entries[k].map_offset \in Nat /\ EndOf(m.entries[k]) \in Nat
    BY EntryNumbers
  <2>3. /\ m.entries[i].map_offset <= p /\ p < EndOf(m.entries[i])
        /\ m.entries[k].map_offset <= p /\ p < EndOf(m.entries[k])
    BY DEF Covers
  <2>4. i < k \/ k < i
    BY <2>1
  <2>5. \/ EndOf(m.entries[i]) <= m.entries[k].map_offset
        \/ EndOf(m.entries[k]) <= m.entries[i].map_offset
    BY <2>4 DEF SoundMap
  <2> QED BY <2>2, <2>3, <2>5
<1>2. cover = {i}
  BY <1>1
<1>3. (CHOOSE k \in cover : TRUE) = i
  BY <1>2
<1> QED BY <1>2, <1>3 DEF MappedByte

\* The byte of a position no entry covers.
LEMMA GapByte ==
    ASSUME NEW m, NEW plain, NEW p, \A i \in 1 .. Len(m.entries) : ~Covers(m.entries[i], p)
    PROVE  MappedByte(m, plain, p) = m.gap_default.byte
BY DEF MappedByte

\* A region that resolve returns is right for all of its bytes, and stays inside
\* its target; over a well-formed map it does return one.
RegionHolds(m, ims, plain, pos, size, r) ==
    /\ IsRegion(r)
    /\ WellMapped(m, ims) => ~r.panics /\ r.target_offset + r.bytes_in_region < Word
    /\ ~r.panics =>
          /\ OverflowChecks \/ r.target_offset + r.bytes_in_region < Word
          /\ r.kind = ImageStreamKind => r.target_offset + r.bytes_in_region <= ims
          /\ \A j \in Nat : j < r.bytes_in_region /\ pos + j < size =>
                MappedByte(m, plain, pos + j) = TargetByte(r.kind, plain, r.target_offset + j)

\* The part of resolve behind the end of an entry, or before the first one.
LEMMA GapCorrect ==
    ASSUME NEW m, IsLoadedMap(m), NEW ims, SoundMap(m, ims), NEW plain,
           NEW size \in Nat, size < Word, NEW pos \in Nat, pos < size,
           NEW idx \in 0 .. Len(m.entries),
           idx < Len(m.entries) => m.entries[idx + 1].map_offset > pos,
           idx # 0 => EndOf(m.entries[idx]) <= pos
    PROVE  RegionHolds(m, ims, plain, pos, size, InGap(m, idx, pos, size))
<1> DEFINE gap_end == IF idx < Len(m.entries) THEN m.entries[idx + 1].map_offset ELSE size
           r == InGap(m, idx, pos, size)
<1>1. Len(m.entries) \in Nat
  BY DEF IsLoadedMap
<1>2. gap_end \in Nat /\ pos < gap_end /\ gap_end < Word
  <2>1. CASE idx < Len(m.entries)
    <3>1. idx + 1 \in 1 .. Len(m.entries)
      BY <2>1, <1>1
    <3>2. m.entries[idx + 1].map_offset \in Nat /\ m.entries[idx + 1].map_offset < Word
      BY <3>1, EntryNumbers
    <3> QED BY <2>1, <3>2
  <2>2. CASE ~(idx < Len(m.entries))
    BY <2>2
  <2> QED BY <2>1, <2>2
<1> HIDE DEF gap_end
<1>3. Greatest(SaturatingSub(gap_end, pos), 1) = gap_end - pos
  BY <1>2 DEF Greatest, SaturatingSub
<1>4. r = Region(m.gap_default, 0, gap_end - pos)
  BY <1>3 DEF InGap, gap_end
<1>5. /\ m.gap_default \in TargetKind /\ m.gap_default # ImageStreamKind
      /\ m.gap_default \notin {UnknownTile, UnreadableTile}
  BY DEF IsLoadedMap, Fill, TargetKind, Byte, ImageStreamKind, UnknownTile, UnreadableTile
<1>6. gap_end - pos \in Nat \ {0} /\ gap_end - pos < Word /\ 0 \in U64s
  BY <1>2, WordHalves DEF U64s
<1>7. IsRegion(r)
  BY <1>4, <1>5, <1>6, RegionTyped
<1>8. /\ r.panics = FALSE /\ r.target_offset = 0 /\ r.bytes_in_region = gap_end - pos
      /\ r.kind = m.gap_default
  BY <1>4 DEF Region
<1> HIDE DEF r
<1>9. ASSUME NEW j \in Nat, j < r.bytes_in_region, pos + j < size
      PROVE  MappedByte(m, plain, pos + j) = TargetByte(r.kind, plain, r.target_offset + j)
  <2>1. pos <= pos + j /\ pos + j < gap_end /\ pos + j \in Nat
    BY <1>2, <1>8, <1>9
  <2> DEFINE p == pos + j
  <2> HIDE DEF p
  <2>2. ASSUME NEW i \in 1 .. Len(m.entries), Covers(m.entries[i], p) PROVE FALSE
    <3>1. /\ m.entries[i].map_offset <= p /\ p < EndOf(m.entries[i])
          /\ m.entries[i].map_offset \in Nat /\ EndOf(m.entries[i]) \in Nat
          /\ m.entries[i].map_offset < EndOf(m.entries[i])
      BY <2>2, EntryNumbers DEF Covers
    <3>2. i \in Nat /\ p \in Nat /\ pos <= p /\ p < gap_end
      BY <2>1, <1>1 DEF p
    <3>3. CASE i <= idx
      <4>1. idx \in 1 .. Len(m.entries) /\ EndOf(m.entries[idx]) <= pos
        BY <3>2, <3>3, <1>1
      <4>2. /\ m.entries[idx].map_offset \in Nat /\ EndOf(m.entries[idx]) \in Nat
            /\ m.entries[idx].map_offset < EndOf(m.entries[idx])
        BY <4>1, EntryNumbers
      <4>3. i # idx => EndOf(m.entries[i]) <= m.entries[idx].map_offset
        BY <3>2, <3>3, <4>1, <1>1 DEF SoundMap
      <4> QED BY <3>1, <3>2, <4>1, <4>2, <4>3
    <3>4. CASE i > idx
      <4>1. idx + 1 \in 1 .. Len(m.entries) /\ gap_end = m.entries[idx + 1].map_offset
        BY <3>2, <3>4, <1>1 DEF gap_end
      <4>2. i # idx + 1 => m.entries[idx + 1].map_offset <= m.entries[i].map_offset
        BY <3>2, <3>4, <4>1, <1>1 DEF IsLoadedMap, Sorted
      <4> QED BY <3>1, <3>2, <4>1, <4>2, <1>2
    <3> QED BY <3>2, <3>3, <3>4
  <2>3. MappedByte(m, plain, p) = m.gap_default.byte
    BY <2>2, GapByte
  <2>4. TargetByte(r.kind, plain, r.target_offset + j) = m.gap_default.byte
    BY <1>5, <1>8 DEF TargetByte
  <2> QED BY <2>3, <2>4 DEF p
<1>10. r.target_offset + r.bytes_in_region < Word
  BY <1>6, <1>8
<1> QED BY <1>5, <1>7, <1>8, <1>9, <1>10 DEF RegionHolds, r

\* The part of resolve inside an entry.
LEMMA EntryCorrect ==
    ASSUME NEW m, IsLoadedMap(m), NEW ims, SoundMap(m, ims), NEW plain,
           NEW size, NEW pos \in Nat, pos < Word,
           NEW i \in 1 .. Len(m.entries), Covers(m.entries[i], pos)
    PROVE  RegionHolds(m, ims, plain, pos, size, InEntry(m, m.entries[i], pos))
<1> DEFINE e == m.entries[i]
           r == InEntry(m, e, pos)
           q == e.target_offset + (pos - e.map_offset)
           n == e.length - (pos - e.map_offset)
<1>1. /\ e.map_offset \in Nat /\ e.length \in Nat \ {0} /\ e.target_offset \in Nat
  BY EntryNumbers
<1>2. e.map_offset <= pos /\ pos < e.map_offset + e.length
  BY DEF Covers, EndOf
<1>3. /\ WellMapped(m, ims) \/ ~OverflowChecks => e.target_offset + e.length < Word
      /\ KindOf(m, e) = ImageStreamKind => e.target_offset + e.length <= ims
  BY DEF WellMapped, SoundMap
<1>4. e.target_id \in Nat
  <2>1. m.entries \in Seq(MapEntry)
    BY DEF IsLoadedMap
  <2>2. e \in MapEntry
    BY <2>1, ElementOfSeq
  <2> QED BY <2>2, MapEntryFields
<1> HIDE DEF e
<1>5. KindOf(m, e) \in TargetKind
  <2>1. m.targets \in Seq(TargetKind) /\ UnknownKind \in TargetKind
    BY DEF IsLoadedMap, UnknownKind, TargetKind, Byte
  <2> QED BY <2>1, <1>4, ElementOfSeq DEF KindOf
<1>6. /\ pos - e.map_offset \in Nat
      /\ q \in Nat /\ n \in Nat \ {0}
      /\ q + n = e.target_offset + e.length
  <2> DEFINE off == pos - e.map_offset
  <2>1. off \in Nat /\ off < e.length
    BY <1>1, <1>2
  <2> HIDE DEF off
  <2>2. ASSUME NEW t \in Nat, NEW l \in Nat, off < l
        PROVE  /\ t + off \in Nat /\ l - off \in Nat \ {0}
               /\ (t + off) + (l - off) = t + l
    BY <2>1, <2>2
  <2>3. /\ e.target_offset + off \in Nat /\ e.length - off \in Nat \ {0}
        /\ (e.target_offset + off) + (e.length - off) = e.target_offset + e.length
    BY <2>1, <2>2, <1>1
  <2> QED BY <2>1, <2>3 DEF off
<1>13. Word \in Nat /\ OverflowChecks \in BOOLEAN
  BY WordAssumption
<1>14. WellMapped(m, ims) \/ ~OverflowChecks => q < Word
  <2> HIDE DEF q, n
  <2> QED BY <1>1, <1>3, <1>6, <1>13
<1>12. e.target_offset \in U64s /\ pos - e.map_offset \in U64s
  <2>1. e.target_offset < Word
    <3>1. e \in MapEntry
      <4>1. m.entries \in Seq(MapEntry)
        BY DEF IsLoadedMap
      <4> QED BY <4>1, ElementOfSeq DEF e
    <3> QED BY <3>1, WordHalves DEF MapEntry, U64s
  <2>2. pos - e.map_offset < Word
    BY <1>1, <1>2, <1>13
  <2>3. e.target_offset \in Nat /\ pos - e.map_offset \in Nat
    BY <1>1, <1>6
  <2> QED BY <2>1, <2>2, <2>3, BelowWord
<1>15. CASE AddPanics(e.target_offset, pos - e.map_offset)
  <2>1. r = RegionPanic /\ ~WellMapped(m, ims)
    BY <1>6, <1>13, <1>14, <1>15 DEF InEntry, AddPanics
  <2>2. IsRegion(r) /\ r.panics
    BY <2>1, RegionTyped DEF RegionPanic, Region
  <2> QED BY <2>1, <2>2 DEF RegionHolds, r, e
<1> SUFFICES ASSUME ~AddPanics(e.target_offset, pos - e.map_offset)
             PROVE  RegionHolds(m, ims, plain, pos, size, r)
  BY <1>15 DEF r, e
<1>16. q < Word
  <2>1. q < Word \/ ~OverflowChecks
    <3> HIDE DEF q
    <3>1. q = e.target_offset + (pos - e.map_offset)
      BY DEF q
    <3> QED BY <1>6, <1>13, <3>1 DEF AddPanics
  <2> QED BY <2>1, <1>14
<1>7. r = Region(KindOf(m, e), q, n)
  <2>1. Add64(e.target_offset, pos - e.map_offset) = q
    BY <1>12, <1>16, AddWraps
  <2> QED BY <2>1 DEF InEntry
<1> HIDE DEF q, n
<1>8. IsRegion(r)
  <2>1. q \in U64s
    BY <1>6, <1>16, BelowWord
  <2> QED BY <2>1, <1>5, <1>6, <1>7, RegionTyped
<1>9. /\ r.panics = FALSE /\ r.target_offset = q /\ r.bytes_in_region = n
      /\ r.kind = KindOf(m, e)
  BY <1>7 DEF Region
<1> HIDE DEF r
<1>10. ASSUME NEW j \in Nat, j < r.bytes_in_region
       PROVE  MappedByte(m, plain, pos + j) = TargetByte(r.kind, plain, r.target_offset + j)
  <2>1. j < e.length - (pos - e.map_offset)
    BY <1>9, <1>10 DEF n
  <2> DEFINE p == pos + j
  <2>2. p \in Nat /\ e.map_offset <= p /\ p < e.map_offset + e.length
    BY <2>1, <1>1, <1>2
  <2>3. e.target_offset + (p - e.map_offset) = r.target_offset + j
    BY <1>1, <1>2, <1>9 DEF q
  <2> HIDE DEF p
  <2>4. Covers(e, p)
    BY <2>2 DEF Covers, EndOf
  <2>5. MappedByte(m, plain, p)
          = TargetByte(KindOf(m, e), plain, e.target_offset + (p - e.map_offset))
    BY <2>2, <2>4, CoveredByte DEF e
  <2> QED BY <2>3, <2>5, <1>9 DEF p
<1>11. r.target_offset + r.bytes_in_region = e.target_offset + e.length
  BY <1>6, <1>9
<1> QED BY <1>3, <1>8, <1>9, <1>10, <1>11, <1>13 DEF RegionHolds

\* The binary search of resolve and the rule for gaps find the target of every
\* position of a sound map, or panic.
LEMMA ResolveSound ==
    ASSUME NEW m, IsLoadedMap(m), NEW ims, SoundMap(m, ims), NEW plain,
           NEW size \in Nat, size < Word, NEW pos \in Nat, pos < size
    PROVE  RegionHolds(m, ims, plain, pos, size, Resolve(m, pos, size))
<1> DEFINE idx == PartitionPoint(m.entries, pos)
           e == m.entries[idx]
<1>1. m.entries \in Seq(MapEntry) /\ Len(m.entries) \in Nat
  BY DEF IsLoadedMap
<1>2. /\ idx \in 0 .. Len(m.entries)
      /\ \A i \in 1 .. idx : m.entries[i].map_offset <= pos
      /\ idx < Len(m.entries) => m.entries[idx + 1].map_offset > pos
  BY <1>1, PartitionPointExists
<1> HIDE DEF idx
<1>3. CASE idx = 0
  <2>1. Resolve(m, pos, size) = InGap(m, idx, pos, size)
    BY <1>3 DEF Resolve, idx
  <2> QED BY <2>1, <1>2, <1>3, GapCorrect
<1>4. CASE idx # 0
  <2>1. idx \in 1 .. Len(m.entries) /\ e.map_offset <= pos
    BY <1>1, <1>2, <1>4
  <2>2. /\ e.map_offset \in Nat /\ e.length \in Nat /\ e.map_offset < Word /\ e.length < Word
        /\ WellMapped(m, ims) \/ ~OverflowChecks => e.map_offset + e.length < Word
    BY <2>1, EntryNumbers DEF WellMapped, SoundMap, EndOf
  <2> HIDE DEF e
  <2>3. Word \in Nat /\ OverflowChecks \in BOOLEAN /\ pos < Word
    BY WordAssumption
  <2>4. CASE AddPanics(e.map_offset, e.length)
    <3>1. Resolve(m, pos, size) = RegionPanic /\ ~WellMapped(m, ims)
      BY <1>4, <2>2, <2>3, <2>4 DEF AddPanics, Resolve, idx, e
    <3>2. IsRegion(RegionPanic) /\ RegionPanic.panics
      BY RegionTyped DEF RegionPanic, Region
    <3> QED BY <3>1, <3>2 DEF RegionHolds
  <2>8. ASSUME ~AddPanics(e.map_offset, e.length)
        PROVE  Resolve(m, pos, size)
                 = IF pos < EndOf(e) THEN InEntry(m, e, pos) ELSE InGap(m, idx, pos, size)
    <3>1. e.map_offset + e.length < Word
      BY <2>2, <2>3, <2>8 DEF AddPanics
    <3>2. e.map_offset \in U64s /\ e.length \in U64s
      BY <2>2, BelowWord
    <3>3. Add64(e.map_offset, e.length) = EndOf(e)
      BY <3>1, <3>2, AddWraps DEF EndOf
    <3> QED BY <1>4, <2>8, <3>3 DEF Resolve, idx, e
  <2>5. \/ RegionHolds(m, ims, plain, pos, size, Resolve(m, pos, size))
        \/ Resolve(m, pos, size)
              = IF pos < EndOf(e) THEN InEntry(m, e, pos) ELSE InGap(m, idx, pos, size)
    BY <2>4, <2>8
  <2>6. CASE pos < EndOf(e)
    <3>1. Covers(e, pos)
      BY <2>1, <2>6 DEF Covers
    <3> QED BY <3>1, <2>1, <2>3, <2>5, <2>6, EntryCorrect DEF e
  <2>7. CASE ~(pos < EndOf(e))
    <3>1. EndOf(e) <= pos
      BY <2>2, <2>7 DEF EndOf
    <3>2. RegionHolds(m, ims, plain, pos, size, InGap(m, idx, pos, size))
      BY <3>1, <1>2, <1>4, GapCorrect DEF e
    <3> QED BY <3>2, <2>5, <2>7
  <2> QED BY <2>6, <2>7
<1> QED BY <1>3, <1>4

\* Over a well-formed map it finds it in either build, without overflow.
THEOREM ResolveCorrect ==
    ASSUME NEW m, IsLoadedMap(m), NEW ims, WellMapped(m, ims), NEW plain,
           NEW size \in Nat, size < Word, NEW pos \in Nat, pos < size
    PROVE  LET r == Resolve(m, pos, size)
           IN  /\ IsRegion(r) /\ ~r.panics
               /\ r.target_offset + r.bytes_in_region < Word
               /\ r.kind = ImageStreamKind => r.target_offset + r.bytes_in_region <= ims
               /\ \A j \in Nat : j < r.bytes_in_region /\ pos + j < size =>
                     MappedByte(m, plain, pos + j)
                       = TargetByte(r.kind, plain, r.target_offset + j)
<1>1. RegionHolds(m, ims, plain, pos, size, Resolve(m, pos, size))
  BY WellMappedSound, ResolveSound
<1> QED BY <1>1 DEF RegionHolds

----------------------------------------------------------------------------
\* A read inside a symbolic tile: it panics where it would leave the address
\* space in a build that notices.
LEMMA TileBytesCorrect ==
    ASSUME NEW r, IsRegion(r), r.kind \in {UnknownTile, UnreadableTile}, NEW plain,
           NEW n \in Nat \ {0}, OverflowChecks \/ r.target_offset + n < Word
    PROVE  /\ \/ Delivers(TileBytes(r, n), r, plain, n)
              \/ TileBytes(r, n) = Fails("panic")
           /\ r.target_offset + n < Word => Delivers(TileBytes(r, n), r, plain, n)
<1> DEFINE bytes == [i \in 1 .. n |-> ByteAt(r.kind, Add64(r.target_offset, i - 1))]
<1>1. r.target_offset \in Nat /\ r.target_offset \in U64s /\ Word \in Nat
  BY WordHalves DEF IsRegion, U64s
<1>9. CASE AddPanics(r.target_offset, n - 1)
  BY <1>1, <1>9 DEF AddPanics, TileBytes
<1> SUFFICES ASSUME ~AddPanics(r.target_offset, n - 1)
             PROVE  Delivers(TileBytes(r, n), r, plain, n)
  BY <1>9
<1>10. r.target_offset + (n - 1) < Word
  BY <1>1, WordAssumption DEF AddPanics
<1>2. ASSUME NEW i \in 1 .. n
      PROVE  Add64(r.target_offset, i - 1) = r.target_offset + (i - 1)
  <2>1. i - 1 \in Nat /\ i - 1 <= n - 1 /\ r.target_offset + (i - 1) < Word
    BY <1>1, <1>10
  <2>3. i - 1 \in U64s
    BY <2>1, <1>1, BelowWord
  <2> QED BY <2>1, <2>3, <1>1, AddWraps
<1>3. \A i \in 1 .. n : bytes[i] = ByteAt(r.kind, r.target_offset + (i - 1))
  BY <1>2
<1>4. \A i \in 1 .. n : bytes[i] \in Byte
  <2> SUFFICES ASSUME NEW i \in 1 .. n PROVE ByteAt(r.kind, r.target_offset + (i - 1)) \in Byte
    BY <1>3
  <2>1. r.target_offset + (i - 1) \in Nat
    BY <1>1
  <2> QED BY <2>1, TileTyped
<1>5. bytes \in Seq(Byte) /\ Len(bytes) = n
  BY <1>4
<1>6. TileBytes(r, n) = Returns(bytes)
  BY DEF TileBytes
<1> HIDE DEF bytes
<1>7. r.kind # ImageStreamKind
  BY DEF ImageStreamKind, UnknownTile, UnreadableTile
<1>8. \A q : TargetByte(r.kind, plain, q) = ByteAt(r.kind, q)
  BY <1>7 DEF TargetByte
<1> QED BY <1>3, <1>5, <1>6, <1>8, DeliversTyped

\* An image that a read gets right wherever it does not panic.
SoundImage(rd, plain) ==
    /\ WellStored(rd, plain)
    /\ rd.mapped => SoundMap(rd.loaded_map, rd.image_stream_size)

\* A well-formed image is a sound image over a sound map.
LEMMA WellFormedSound ==
    ASSUME NEW rd, NEW plain, WellFormed(rd, plain)
    PROVE  SoundImage(rd, plain)
BY WellMappedSound DEF WellFormed, SoundImage

\* What the region of a position is worth to a read of n bytes.
Serves(rd, plain, pos, n, r) ==
    /\ IsRegion(r)
    /\ WellFormed(rd, plain) =>
          ~r.panics /\ (r.kind # ImageStreamKind => r.target_offset + n < Word)
    /\ ~r.panics =>
          /\ r.kind = ImageStreamKind => r.target_offset + n <= rd.image_stream_size
          /\ r.kind # ImageStreamKind => OverflowChecks \/ r.target_offset + n < Word
          /\ \A i \in 1 .. n :
                DiskByte(rd, plain, pos + (i - 1))
                  = TargetByte(r.kind, plain, r.target_offset + (i - 1))

\* With a Map or without, the region serves what is read of it.
LEMMA RegionServes ==
    ASSUME NEW rd, IsReader(rd), NEW plain, SoundImage(rd, plain),
           NEW pos \in Nat, pos < rd.virtual_size, NEW to_read \in Nat \ {0},
           pos + to_read <= rd.virtual_size
    PROVE  Serves(rd, plain, pos, Least(to_read, RegionAt(rd, pos).bytes_in_region), RegionAt(rd, pos))
<1> DEFINE size == rd.virtual_size
           r == RegionAt(rd, pos)
           n == Least(to_read, r.bytes_in_region)
<1>1. size \in Nat /\ size < Word /\ rd.mapped \in BOOLEAN /\ IsLoadedMap(rd.loaded_map)
  BY WordHalves DEF IsReader, U64s
<1> HIDE DEF size
<1>2. CASE rd.mapped
  <2>1. RegionHolds(rd.loaded_map, rd.image_stream_size, plain, pos, size, r)
    <3>1. SoundMap(rd.loaded_map, rd.image_stream_size) /\ pos < size
      BY <1>2 DEF SoundImage, size
    <3>2. r = Resolve(rd.loaded_map, pos, size)
      BY <1>2 DEF RegionAt, size
    <3> HIDE DEF r
    <3> QED BY <3>1, <3>2, <1>1, ResolveSound
  <2> HIDE DEF r
  <2>9. WellFormed(rd, plain) => WellMapped(rd.loaded_map, rd.image_stream_size)
    BY <1>2 DEF WellFormed
  <2>10. CASE r.panics
    BY <2>1, <2>9, <2>10 DEF RegionHolds, Serves, r
  <2> SUFFICES ASSUME ~r.panics PROVE Serves(rd, plain, pos, n, r)
    BY <2>10 DEF n, r
  <2>2. /\ r.target_offset \in Nat /\ r.bytes_in_region \in Nat \ {0}
        /\ WellFormed(rd, plain) \/ ~OverflowChecks
             => r.target_offset + r.bytes_in_region < Word
        /\ r.kind = ImageStreamKind =>
              r.target_offset + r.bytes_in_region <= rd.image_stream_size
    BY <2>1, <2>9, WordHalves DEF RegionHolds, IsRegion, U64s
  <2>3. n \in Nat /\ n <= to_read /\ n <= r.bytes_in_region
    BY <2>2 DEF Least
  <2> HIDE DEF n
  <2>4. ASSUME NEW i \in 1 .. n
        PROVE  DiskByte(rd, plain, pos + (i - 1))
                 = TargetByte(r.kind, plain, r.target_offset + (i - 1))
    <3> DEFINE j == i - 1
    <3>1. j \in Nat /\ j < r.bytes_in_region /\ pos + j < size
      BY <2>2, <2>3, <1>1 DEF size
    <3> HIDE DEF j
    <3>2. MappedByte(rd.loaded_map, plain, pos + j) = TargetByte(r.kind, plain, r.target_offset + j)
      BY <2>1, <3>1 DEF RegionHolds
    <3>3. DiskByte(rd, plain, pos + j) = MappedByte(rd.loaded_map, plain, pos + j)
      BY <1>2 DEF DiskByte
    <3> QED BY <3>2, <3>3 DEF j
  <2>5. /\ r.kind = ImageStreamKind => r.target_offset + n <= rd.image_stream_size
        /\ WellFormed(rd, plain) \/ ~OverflowChecks => r.target_offset + n < Word
    BY <2>2, <2>3, ReaderNumbers, WordHalves
  <2>6. OverflowChecks \in BOOLEAN
    BY WordAssumption
  <2> QED BY <2>1, <2>4, <2>5, <2>6 DEF Serves, RegionHolds
<1>3. CASE ~rd.mapped
  <2>1. rd.virtual_size = rd.image_stream_size
    BY <1>3 DEF IsReader
  <2>2. r = Region(ImageStreamKind, pos, Word - 1)
    BY <1>3 DEF RegionAt
  <2>3. /\ r.panics = FALSE /\ r.kind = ImageStreamKind /\ r.target_offset = pos
        /\ r.bytes_in_region = Word - 1
    BY <2>2 DEF Region
  <2>4. IsRegion(r)
    <3>1. pos \in U64s /\ Word - 1 \in Nat \ {0} /\ ImageStreamKind \in TargetKind
      BY <1>1, WordHalves DEF U64s, ImageStreamKind, TargetKind, Byte, size
    <3> QED BY <3>1, <2>2, RegionTyped
  <2> HIDE DEF r
  <2>5. n \in Nat /\ n <= to_read
    BY <2>3, WordHalves DEF Least
  <2> HIDE DEF n
  <2>6. r.target_offset + n <= rd.image_stream_size
    BY <2>1, <2>3, <2>5, ReaderNumbers
  <2>8. ASSUME NEW i \in 1 .. n
        PROVE  DiskByte(rd, plain, pos + (i - 1))
                 = TargetByte(r.kind, plain, r.target_offset + (i - 1))
    BY <1>3, <2>3 DEF DiskByte, TargetByte
  <2> QED BY <2>3, <2>4, <2>6, <2>8 DEF Serves, n, r
<1> QED BY <1>1, <1>2, <1>3

\* One read of a sound image below its end, with a non-empty buffer: it panics,
\* or it returns at least one byte, at most what fits the buffer and the disk,
\* and these are the bytes of the disk at the cursor.
LEMMA ReadSound ==
    ASSUME NEW rd, IsReader(rd), NEW plain, SoundImage(rd, plain),
           NEW pos \in Nat, pos < rd.virtual_size, NEW len \in Nat \ {0}
    PROVE  LET o == ReadOutcome(rd, pos, len)
           IN  /\ o.res \in {"ok", "panic"}
               /\ WellFormed(rd, plain) => o.res = "ok"
               /\ o.res = "ok" =>
                     /\ Len(o.bytes) \in 1 .. len
                     /\ pos + Len(o.bytes) <= rd.virtual_size
                     /\ \A i \in 1 .. Len(o.bytes) :
                           o.bytes[i] = DiskByte(rd, plain, pos + (i - 1))
<1> DEFINE to_read == Least(len, rd.virtual_size - pos)
           r == RegionAt(rd, pos)
           n == Least(to_read, r.bytes_in_region)
           o == ReadOutcome(rd, pos, len)
<1>1. /\ to_read \in Nat \ {0} /\ to_read <= len /\ pos + to_read <= rd.virtual_size
  <2> DEFINE left == rd.virtual_size - pos
  <2>1. left \in Nat /\ left # 0 /\ pos + left = rd.virtual_size
    BY ReaderNumbers
  <2> HIDE DEF left
  <2>2. Least(len, left) \in Nat \ {0} /\ Least(len, left) <= len /\ Least(len, left) <= left
    BY <2>1 DEF Least
  <2> QED BY <2>1, <2>2, ReaderNumbers DEF left
<1>2. o = IF r.panics THEN Fails("panic")
          ELSE IF r.kind = ImageStreamKind THEN ChunkBytes(rd, r, to_read)
          ELSE IF r.kind \in {UnknownTile, UnreadableTile} THEN TileBytes(r, n)
          ELSE Returns([i \in 1 .. n |-> r.kind.byte])
  <2>1. ~(len = 0 \/ pos >= rd.virtual_size)
    BY ReaderNumbers
  <2> QED BY <2>1 DEF ReadOutcome
<1> HIDE DEF to_read, o
<1>3. Serves(rd, plain, pos, n, r)
  BY <1>1, RegionServes
<1> HIDE DEF r
<1>11. CASE r.panics
  <2>1. o = Fails("panic") /\ ~WellFormed(rd, plain)
    BY <1>2, <1>3, <1>11 DEF Serves
  <2>2. o.res = "panic"
    BY <2>1 DEF Fails
  <2> QED BY <2>1, <2>2 DEF o
<1>12. CASE ~r.panics /\ o = Fails("panic") /\ ~WellFormed(rd, plain)
  <2>1. o.res = "panic"
    BY <1>12 DEF Fails
  <2> QED BY <1>12, <2>1 DEF o
<1> SUFFICES ASSUME ~r.panics, o # Fails("panic") \/ WellFormed(rd, plain)
             PROVE  /\ o.res = "ok"
                    /\ Len(o.bytes) \in 1 .. len
                    /\ pos + Len(o.bytes) <= rd.virtual_size
                    /\ \A i \in 1 .. Len(o.bytes) :
                          o.bytes[i] = DiskByte(rd, plain, pos + (i - 1))
  BY <1>11, <1>12 DEF o
<1>4. IsRegion(r) /\ r.bytes_in_region \in Nat \ {0} /\ r.target_offset \in Nat
  BY <1>3, WordHalves DEF Serves, IsRegion, U64s
<1>5. n \in Nat \ {0} /\ n <= to_read
  BY <1>1, <1>4 DEF Least
<1>6. Delivers(o, r, plain, n)
  <2>1. CASE r.kind = ImageStreamKind
    <3>1. WellStored(rd, plain)
      BY DEF SoundImage
    <3>2. r.target_offset + n <= rd.image_stream_size
      BY <1>3, <2>1 DEF Serves
    <3>3. r.target_offset < rd.image_stream_size
      BY <3>2, <1>4, <1>5, ReaderNumbers
    <3>4. Delivers(ChunkBytes(rd, r, to_read), r, plain, n)
      BY <3>1, <3>2, <3>3, <2>1, <1>1, <1>4, ChunkBytesCorrect
    <3> QED BY <3>4, <2>1, <1>2, <1>4
  <2>2. CASE r.kind \in {UnknownTile, UnreadableTile}
    <3>3. r.kind # ImageStreamKind
      BY <2>2 DEF ImageStreamKind, UnknownTile, UnreadableTile
    <3>1. /\ WellFormed(rd, plain) => r.target_offset + n < Word
          /\ OverflowChecks \/ r.target_offset + n < Word
      BY <1>3, <3>3 DEF Serves
    <3> HIDE DEF n
    <3>4. /\ Delivers(TileBytes(r, n), r, plain, n) \/ TileBytes(r, n) = Fails("panic")
          /\ r.target_offset + n < Word => Delivers(TileBytes(r, n), r, plain, n)
      BY <3>1, <2>2, <1>4, <1>5, TileBytesCorrect
    <3>5. o = TileBytes(r, n)
      BY <3>3, <2>2, <1>2
    <3>2. Delivers(TileBytes(r, n), r, plain, n)
      BY <3>1, <3>4, <3>5
    <3> QED BY <3>2, <3>5
  <2>3. CASE r.kind # ImageStreamKind /\ r.kind \notin {UnknownTile, UnreadableTile}
    <3> DEFINE bytes == [i \in 1 .. n |-> r.kind.byte]
    <3> HIDE DEF n
    <3>1. r.kind.byte \in Byte
      BY <1>4 DEF IsRegion, TargetKind
    <3>2. bytes \in Seq(Byte) /\ Len(bytes) = n
      BY <3>1, <1>5
    <3>3. \A i \in 1 .. n : bytes[i] = TargetByte(r.kind, plain, r.target_offset + (i - 1))
      BY <2>3 DEF TargetByte
    <3>4. o = Returns(bytes)
      BY <1>2, <1>4, <2>3
    <3> HIDE DEF bytes
    <3> QED BY <3>2, <3>3, <3>4, <1>5, DeliversTyped
  <2> QED BY <2>1, <2>2, <2>3
<1> HIDE DEF n
<1>7. /\ o.res = "ok" /\ Len(o.bytes) \in 1 .. n
      /\ \A i \in 1 .. Len(o.bytes) :
            o.bytes[i] = TargetByte(r.kind, plain, r.target_offset + (i - 1))
  BY <1>6 DEF Delivers
<1> DEFINE k == Len(o.bytes)
<1>8. k \in Nat /\ 1 <= k /\ k <= n
  BY <1>5, <1>7
<1> HIDE DEF k
<1>9. k \in 1 .. len /\ pos + k <= rd.virtual_size
  BY <1>1, <1>5, <1>8, ReaderNumbers
<1>10. \A i \in 1 .. k : o.bytes[i] = DiskByte(rd, plain, pos + (i - 1))
  BY <1>3, <1>5, <1>7, <1>8 DEF Serves, k
<1> QED BY <1>7, <1>9, <1>10 DEF k

\* One read of a well-formed image below its end, with a non-empty buffer:
\* it succeeds, returns at least one byte, at most what fits the buffer and
\* the disk, and these are the bytes of the disk at the cursor.
THEOREM ReadCorrect ==
    ASSUME NEW rd, IsReader(rd), NEW plain, WellFormed(rd, plain),
           NEW pos \in Nat, pos < rd.virtual_size, NEW len \in Nat \ {0}
    PROVE  LET o == ReadOutcome(rd, pos, len)
           IN  /\ o.res = "ok"
               /\ Len(o.bytes) \in 1 .. len
               /\ pos + Len(o.bytes) <= rd.virtual_size
               /\ \A i \in 1 .. Len(o.bytes) :
                     o.bytes[i] = DiskByte(rd, plain, pos + (i - 1))
<1>1. SoundImage(rd, plain)
  BY WellFormedSound
<1> QED BY <1>1, ReadSound
=============================================================================
