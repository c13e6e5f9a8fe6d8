----------------------- MODULE EncryptedStreamProofs -----------------------
(***************************************************************************)
(* decrypt_reader for every set of sealed containers and every password:   *)
(* it follows the stream's chunks through all segments under the key of    *)
(* the imager's password only, and returns the content or no bytes.        *)
(***************************************************************************)
EXTENDS EncryptedStream, ReaderProofs

Base == DetectZipBase(file, meta.stream_arn)

\* The numbers of a metadata that parse_encrypted_meta lets through.
IsEncryptedMeta(f, m) ==
    /\ m.size \in U64s
    /\ m.chunks_per_segment \in U64s \ {0}
    /\ SectorSize(f) \in U64s \ {0}
    /\ m.wrapped_key.vek \in KeysOf(f)
    /\ \A p \in Passwords : m.wrapped_key.kek = Kek(p, m) => p = f.secret

\* No chunk is looked at before the password has opened the key bag.
Unlocked ==
    step \in {"segment", "chunk"} \/ outcome.res = "ok" =>
        /\ vek \in KeysOf(file)
        /\ password = file.secret
        /\ SectorSize(file) \in U64s \ {0}

\* The index and the bevy in use are those of the segment, and a full segment
\* has no more chunks than are declared for it.
SegmentLoaded ==
    step = "chunk" =>
        /\ <<Base, segment>> \in DOMAIN file.index \cap DOMAIN file.bevy
        /\ index = file.index[<<Base, segment>>]
        /\ bevy = file.bevy[<<Base, segment>>]
        /\ WellEncrypted(file, meta, vek) => chunk <= meta.chunks_per_segment

\* Every segment before the one at hand was in the archive.
SegmentsThere == \A s \in 0 .. segment - 1 : <<Base, s>> \in DOMAIN file.index

\* A segment of a well-encrypted stream is loaded for a chunk that is wanted.
FirstWanted ==
    step = "chunk" /\ WellEncrypted(file, meta, vek) =>
        segment * meta.chunks_per_segment * SectorSize(file) < meta.size

Inv ==
    /\ TypeOK
    /\ step = "open" => out = <<>> /\ segment = 0
    /\ Unlocked
    /\ SegmentLoaded
    /\ SegmentsThere
    /\ FirstWanted
    /\ PlainSoFar
    /\ DecryptsExactly

----------------------------------------------------------------------------
(* Opening                                                                 *)

\* parse_encrypted_meta fails or returns sane numbers, and a key bag which only
\* the imager's password opens, whatever the turtle says.
LEMMA EncryptedMetaTyped ==
    ASSUME NEW f \in Files
    PROVE  LET o == ParseEncryptedMeta(f.turtle)
           IN  /\ o.ok \in BOOLEAN
               /\ ~o.ok => o.err \in {"BadFormat", "Encrypted"}
               /\ o.ok => IsEncryptedMeta(f, o.val)
<1> DEFINE blocks == f.turtle
           o == ParseEncryptedMeta(blocks)
           streams == WithWord(blocks, "aff4:EncryptedStream")
           s == FirstOf(blocks, streams)
           bags == KeyBagBlocks(blocks, s.keyBag)
           k == FirstOf(blocks, bags)
           val == [stream_arn |-> s.iri, chunks_per_segment |-> s.chunksInSegment, size |-> s.size,
                   salt |-> k.salt, iterations |-> k.iterations, key_size |-> k.keySize,
                   wrapped_key |-> k.wrappedKey]
<1>1. /\ Len(blocks) \in Nat
      /\ \A i \in 1 .. Len(blocks) :
            /\ {blocks[i].size, blocks[i].chunkSize, blocks[i].chunksInSegment}
                  \subseteq U64s \cup {NoNumber}
            /\ \A p \in Passwords :
                  blocks[i].wrappedKey.hex /\ blocks[i].wrappedKey.kek = Kek(p, blocks[i])
                    => p = f.secret
  BY SealedAssumption DEF IsSealed
<1>2. streams \subseteq 1 .. Len(blocks) /\ bags \subseteq 1 .. Len(blocks)
  BY DEF WithWord, KeyBagBlocks
<1>3. CASE ~o.ok
  BY <1>3 DEF ParseEncryptedMeta, Err, Ok
<1>4. CASE o.ok
  <2>1. /\ streams # {} /\ bags # {}
        /\ s.chunkSize \notin {NoNumber, 0} /\ s.chunksInSegment \notin {NoNumber, 0}
        /\ s.size # NoNumber
        /\ UsableKeyBag(k)
        /\ o = Ok(val)
    BY <1>4 DEF ParseEncryptedMeta, Err
  <2> HIDE DEF streams, bags, o
  <2>2. PICK i \in streams : s = blocks[i]
    BY <1>1, <1>2, <2>1, FirstOfTaken
  <2>3. PICK j \in bags : k = blocks[j]
    BY <1>1, <1>2, <2>1, FirstOfTaken
  <2>4. i \in 1 .. Len(blocks) /\ j \in 1 .. Len(blocks)
    BY <1>2
  <2>5. s.size \in U64s /\ s.chunkSize \in U64s \ {0} /\ s.chunksInSegment \in U64s \ {0}
    BY <1>1, <2>1, <2>2, <2>4
  <2>6. k.wrappedKey.hex /\ k.wrappedKey.vek \in KeysOf(f)
    BY <2>1, <2>3, <2>4 DEF UsableKeyBag, KeysOf
  <2>7. SectorSize(f) = s.chunkSize
    BY DEF SectorSize, streams
  <2>8. \A p \in Passwords : Kek(p, val) = Kek(p, k)
    BY DEF Kek
  <2>9. \A p \in Passwords : k.wrappedKey.kek = Kek(p, k) => p = f.secret
    BY <1>1, <2>3, <2>4, <2>6
  <2>10. IsEncryptedMeta(f, val)
    BY <2>5, <2>6, <2>7, <2>8, <2>9 DEF IsEncryptedMeta
  <2>11. o.ok = TRUE /\ o.val = val
    BY <2>1 DEF Ok
  <2> QED BY <2>10, <2>11 DEF o
<1>5. o.ok \in BOOLEAN
  BY DEF ParseEncryptedMeta, Err, Ok
<1> QED BY <1>3, <1>4, <1>5

\* What Open starts with.
LEMMA OpenUnlocks ==
    ASSUME TypeOK, Open, step' # "done"
    PROVE  /\ IsEncryptedMeta(file, meta')
           /\ vek' \in KeysOf(file)
           /\ password = file.secret
           /\ step' = "segment"
<1> DEFINE parsed == ParseEncryptedMeta(file.turtle)
           key == DeriveVek(password, parsed.val)
<1>1. file \in Files /\ password \in Passwords
  BY DEF TypeOK
<1>2. parsed.ok /\ key.ok /\ meta' = parsed.val /\ vek' = key.val /\ step' = "segment"
  BY DEF Open, Return
<1>3. IsEncryptedMeta(file, parsed.val)
  BY <1>1, <1>2, EncryptedMetaTyped
<1> HIDE DEF parsed
<1>4. /\ parsed.val.wrapped_key.kek = Kek(password, parsed.val)
      /\ key.val = parsed.val.wrapped_key.vek
  BY <1>2 DEF DeriveVek, Err, Ok
<1> QED BY <1>1, <1>2, <1>3, <1>4 DEF IsEncryptedMeta

----------------------------------------------------------------------------
(* One sector                                                              *)

\* The bytes a volume key can be wrapped around are numbers.
LEMMA KeysTyped ==
    ASSUME NEW f \in Files
    PROVE  KeysOf(f) \subseteq Nat
BY SealedAssumption DEF KeysOf, IsSealed

\* A sector that the checks of the inner loop let through lies in the bevy, and
\* deciphering it gives as many bytes, of which no more are taken than are wanted.
LEMMA SectorDeciphered ==
    ASSUME TypeOK, Unlocked, SegmentLoaded, step = "chunk", MoreChunks,
           NEW b, b = ChunkBoundsFromIndex(index, chunk), b.ok, ~(b.val.end > Len(bevy)),
           ~(ChunkId >= Word),
           NEW sector, sector = Slice(bevy, b.val.start, b.val.end),
           NEW d, d = Decipher(vek, ChunkId, sector)
    PROVE  /\ b.val.start = index[chunk + 1].offset
           /\ b.val.end = index[chunk + 1].offset + index[chunk + 1].length
           /\ Len(sector) = index[chunk + 1].length
           /\ d \in Seq(Byte) /\ Len(d) = Len(sector)
           /\ Take(d) \in Seq(Byte)
           /\ Len(Take(d)) = Least(Len(d), meta.size - Len(out))
           /\ \A i \in 1 .. Len(Take(d)) : Take(d)[i] = d[i]
<1>1. /\ file \in Files /\ index \in Seq(IndexEntry) /\ bevy \in Seq(Byte) /\ out \in Seq(Byte)
      /\ chunk \in Nat /\ chunk < Len(index)
      /\ meta.size \in Nat /\ Len(out) \in Nat /\ Len(out) < meta.size
  BY WordHalves DEF TypeOK, MoreChunks, U64s
<1> DEFINE e == index[chunk + 1]
<1>2. e \in IndexEntry
  <2>1. chunk + 1 \in 1 .. Len(index)
    BY <1>1
  <2> QED BY <2>1, <1>1, ElementOfSeq
<1>3. e.offset \in Nat /\ e.length \in Nat
  BY <1>2, WordHalves DEF IndexEntry, U64s
<1>4. b.val = [start |-> e.offset, end |-> e.offset + e.length]
  BY <1>1 DEF ChunkBoundsFromIndex, Err, Ok
<1> HIDE DEF e
<1>5. b.val.start = e.offset /\ b.val.end = e.offset + e.length
  BY <1>4
<1>6. /\ b.val.start \in Nat /\ b.val.end \in Nat /\ b.val.start <= b.val.end
      /\ b.val.end <= Len(bevy)
  BY <1>1, <1>3, <1>5
<1>7. Len(sector) = e.length
  BY <1>1, <1>3, <1>5, <1>6, SliceTyped
<1>8. sector \in SectorsOf(file)
  <2> DEFINE at == <<Base, segment>>
             r == <<b.val.start, b.val.end>>
  <2>1. at \in DOMAIN file.bevy /\ bevy = file.bevy[at]
    BY DEF SegmentLoaded
  <2>2. r \in (0 .. Len(bevy)) \X (0 .. Len(bevy))
    BY <1>1, <1>6
  <2>3. sector = Slice(bevy, r[1], r[2])
    OBVIOUS
  <2> HIDE DEF at, r
  <2> QED BY <2>1, <2>2, <2>3 DEF SectorsOf
<1>9. vek \in KeysOf(file)
  BY DEF Unlocked
<1>10. ChunkId \in U64s
  <2>1. segment \in Nat /\ meta.chunks_per_segment \in Nat
    BY WordHalves DEF TypeOK, U64s
  <2>2. \A s, c, k \in Nat : s * c + k \in Nat
    OBVIOUS
  <2>3. ChunkId \in Nat
    BY <2>1, <2>2, <1>1 DEF ChunkId
  <2> QED BY <2>3, WordHalves, BelowWord
<1>11. d \in Seq(Byte) /\ Len(d) = Len(sector)
  BY <1>1, <1>8, <1>9, <1>10, CipherAssumption
<1> DEFINE n == Least(Len(d), meta.size - Len(out))
<1>12. n \in Nat /\ n <= Len(d)
  BY <1>1, <1>11 DEF Least
<1>13. Take(d) = Slice(d, 0, n)
  BY DEF Take
<1> HIDE DEF n
<1>14. /\ Slice(d, 0, n) \in Seq(Byte) /\ Len(Slice(d, 0, n)) = n
       /\ \A i \in 1 .. n : Slice(d, 0, n)[i] = d[i]
  <2>1. \A s, q : Slice(s, 0, q) = SubSeq(s, 1, q)
    BY DEF Slice
  <2>2. /\ SubSeq(d, 1, n) \in Seq(Byte) /\ Len(SubSeq(d, 1, n)) = n
        /\ \A i \in 1 .. n : SubSeq(d, 1, n)[i] = d[i]
    BY ONLY <1>11, <1>12, PrefixTyped
  <2> QED BY ONLY <2>1, <2>2
<1> QED BY <1>5, <1>7, <1>11, <1>13, <1>14 DEF e, n

----------------------------------------------------------------------------
(* Every step                                                              *)

\* decrypt_reader has not run: nothing is unwrapped and nothing is decrypted.
LEMMA InvInit == Init => Inv
<1> SUFFICES ASSUME Init PROVE Inv
  OBVIOUS
<1>1. /\ file \in Files /\ password \in Passwords /\ step = "open" /\ meta = NoMeta /\ vek = 0
      /\ segment = 0 /\ chunk = 0 /\ index = <<>> /\ bevy = <<>> /\ out = <<>> /\ outcome = Running
  BY DEF Init
<1>2. 0 \in U64s /\ 1 \in U64s
  BY WordHalves DEF U64s
<1>3. TypeOK
  BY <1>1, <1>2 DEF TypeOK, NoMeta, Running
<1>4. 0 .. segment - 1 = {}
  BY <1>1
<1> QED BY <1>1, <1>3, <1>4
        DEF Inv, Unlocked, SegmentLoaded, SegmentsThere, FirstWanted, PlainSoFar,
            DecryptsExactly, Running

\* The end of decrypt_reader keeps the types.
LEMMA ReturnTyped ==
    ASSUME TypeOK, NEW o, Return(o),
           o.res \in {"ok", "Zip", "Io", "BadFormat", "Encrypted", "panic"},
           UNCHANGED <<file, password, segment, chunk, index, bevy, out>>,
           \/ UNCHANGED <<meta, vek>>
           \/ meta'.size \in U64s /\ meta'.chunks_per_segment \in U64s \ {0} /\ vek' \in Nat
              /\ Len(out) <= meta'.size
    PROVE  TypeOK'
<1>1. step' = "done" /\ outcome' = o
  BY DEF Return
<1> QED BY <1>1 DEF TypeOK

\* Every step of decrypt_reader leaves its locals of their types.
LEMMA TypeStep ==
    ASSUME Inv, [Next]_vars
    PROVE  TypeOK'
<1>1. TypeOK
  BY DEF Inv
<1>2. /\ file \in Files /\ password \in Passwords
      /\ index \in Seq(IndexEntry) /\ bevy \in Seq(Byte) /\ out \in Seq(Byte)
      /\ chunk \in 0 .. Len(index) /\ Len(index) \in Nat
      /\ segment \in Nat /\ segment < Word
      /\ meta.size \in Nat /\ Len(out) \in Nat /\ Len(out) <= meta.size
  BY <1>1, WordHalves DEF TypeOK, U64s
<1>3. \A r : Fails(r).res = r
  BY DEF Fails
<1>4. CASE Open
  <2> DEFINE parsed == ParseEncryptedMeta(file.turtle)
             key == DeriveVek(password, parsed.val)
  <2>1. /\ parsed.ok \in BOOLEAN
        /\ ~parsed.ok => parsed.err \in {"BadFormat", "Encrypted"}
        /\ parsed.ok => IsEncryptedMeta(file, parsed.val)
    BY <1>2, EncryptedMetaTyped
  <2>2. ~key.ok => key.err = "Encrypted"
    BY DEF DeriveVek, Ok, Err
  <2>3. key.ok => key.val = parsed.val.wrapped_key.vek
    BY DEF DeriveVek, Ok, Err
  <2> HIDE DEF parsed, key
  <2>4. step = "open" /\ UNCHANGED <<file, password, segment, chunk, index, bevy, out>>
    BY <1>4 DEF Open
  <2>5. CASE ~file.has_turtle /\ Return(Fails("Zip")) /\ UNCHANGED <<meta, vek>>
    BY <2>4, <2>5, <1>1, <1>3, ReturnTyped
  <2>6. CASE ~parsed.ok /\ Return(Fails(parsed.err)) /\ UNCHANGED <<meta, vek>>
    BY <2>1, <2>4, <2>6, <1>1, <1>3, ReturnTyped
  <2>7. CASE ~key.ok /\ Return(Fails(key.err)) /\ UNCHANGED <<meta, vek>>
    BY <2>2, <2>4, <2>7, <1>1, <1>3, ReturnTyped
  <2>8. CASE /\ parsed.ok /\ key.ok /\ meta' = parsed.val /\ vek' = key.val
             /\ IF parsed.val.size >= SignBit THEN Return(Fails("panic"))
                ELSE step' = "segment" /\ UNCHANGED outcome
    <3>1. /\ meta'.size \in U64s /\ meta'.chunks_per_segment \in U64s \ {0}
          /\ vek' \in KeysOf(file)
      BY <2>1, <2>3, <2>8 DEF IsEncryptedMeta
    <3>2. vek' \in Nat /\ out = <<>> /\ meta'.size \in Nat
      BY <3>1, <2>4, <1>2, KeysTyped, WordHalves DEF Inv, U64s
    <3>3. Len(out) <= meta'.size
      BY <3>2
    <3>4. CASE parsed.val.size >= SignBit
      BY <3>1, <3>2, <3>3, <3>4, <2>4, <2>8, <1>1, <1>3, ReturnTyped
    <3>5. CASE ~(parsed.val.size >= SignBit)
      <4>1. step' = "segment" /\ outcome' = outcome
        BY <3>5, <2>8
      <4> QED BY <4>1, <3>1, <3>2, <3>3, <2>4, <1>1 DEF TypeOK
    <3> QED BY <3>4, <3>5
  <2> QED BY <2>5, <2>6, <2>7, <2>8, <1>4 DEF Open, parsed, key
<1>5. CASE LoadSegment
  <2> DEFINE at == <<Base, segment>>
  <2>1. UNCHANGED <<file, password, meta, vek, segment, out>>
    BY <1>5 DEF LoadSegment
  <2>2. CASE Return(Fails("Zip")) /\ UNCHANGED <<index, bevy, chunk>>
    BY <2>1, <2>2, <1>1, <1>3, ReturnTyped
  <2>3. CASE Return(Fails("BadFormat")) /\ UNCHANGED <<index, bevy, chunk>>
    BY <2>1, <2>3, <1>1, <1>3, ReturnTyped
  <2>4. CASE /\ at \in DOMAIN file.index \cap DOMAIN file.bevy
             /\ index' = file.index[at] /\ bevy' = file.bevy[at] /\ chunk' = 0
             /\ step = "segment" /\ step' = "chunk" /\ UNCHANGED outcome
    <3>1. index' \in Seq(IndexEntry) /\ bevy' \in Seq(Byte)
      BY <2>4, <1>2, SealedAssumption DEF IsSealed
    <3>2. chunk' \in 0 .. Len(index')
      BY <3>1, <2>4
    <3> QED BY <3>1, <3>2, <2>1, <2>4, <1>1 DEF TypeOK
  <2> QED BY <2>2, <2>3, <2>4, <1>5 DEF LoadSegment, Base
<1>6. CASE Finished
  <2>1. Returns(out).res = "ok"
    BY DEF Returns
  <2> QED BY <2>1, <1>6, <1>1, ReturnTyped DEF Finished
<1>7. CASE DecryptChunk
  <2> DEFINE b == ChunkBoundsFromIndex(index, chunk)
             sector == Slice(bevy, b.val.start, b.val.end)
             d == Decipher(vek, ChunkId, sector)
  <2>1. step = "chunk" /\ MoreChunks /\ UNCHANGED <<file, password, meta, vek, segment, index, bevy>>
    BY <1>7 DEF DecryptChunk
  <2>2. CASE Return(Fails("BadFormat")) /\ UNCHANGED <<chunk, out>>
    BY <2>1, <2>2, <1>1, <1>3, ReturnTyped
  <2>3. CASE Return(Fails("panic")) /\ UNCHANGED <<chunk, out>>
    BY <2>1, <2>3, <1>1, <1>3, ReturnTyped
  <2>4. CASE /\ b.ok /\ ~(b.val.end > Len(bevy)) /\ ~(ChunkId >= Word)
             /\ out' = out \o Take(d) /\ chunk' = chunk + 1 /\ UNCHANGED <<step, outcome>>
    <3>1. /\ Take(d) \in Seq(Byte)
          /\ Len(Take(d)) = Least(Len(d), meta.size - Len(out))
          /\ Len(d) \in Nat
      <4>1. /\ Take(d) \in Seq(Byte) /\ d \in Seq(Byte)
            /\ Len(Take(d)) = Least(Len(d), meta.size - Len(out))
        BY <2>1, <2>4, SectorDeciphered DEF Inv
      <4> QED BY <4>1
    <3> HIDE DEF b, d
    <3>2. out' \in Seq(Byte) /\ Len(out') = Len(out) + Len(Take(d))
      BY <3>1, <2>4, <1>2, ConcatProperties
    <3>3. Len(out') <= meta.size
      BY <3>1, <3>2, <1>2 DEF Least
    <3>4. chunk' \in 0 .. Len(index)
      BY <2>1, <2>4, <1>2 DEF MoreChunks
    <3> QED BY <3>2, <3>3, <3>4, <2>1, <2>4, <1>1 DEF TypeOK
  <2> QED BY <2>2, <2>3, <2>4, <1>7 DEF DecryptChunk, BadChunk
<1>8. CASE NextSegment
  <2>1. step = "chunk" /\ UNCHANGED <<file, password, meta, vek, chunk, index, bevy, out>>
    BY <1>8 DEF NextSegment
  <2>2. CASE Return(Fails("BadFormat")) /\ UNCHANGED segment
    BY <2>1, <2>2, <1>1, <1>3, ReturnTyped
  <2>3. CASE ~(segment + 1 >= Word) /\ segment' = segment + 1 /\ step' = "segment" /\ UNCHANGED outcome
    <3>1. segment' \in U64s
      BY <2>3, <1>2, WordHalves, BelowWord
    <3> QED BY <3>1, <2>1, <2>3, <1>1 DEF TypeOK
  <2> QED BY <2>2, <2>3, <1>8 DEF NextSegment
<1>9. CASE Fault
  BY <1>9, <1>1, <1>3, ReturnTyped DEF Fault
<1>10. CASE UNCHANGED vars
  BY <1>10, <1>1 DEF TypeOK, vars
<1> QED BY <1>4, <1>5, <1>6, <1>7, <1>8, <1>9, <1>10 DEF Next, Advance

\* From opening on, the key is the imager's password's, to the return with a value.
LEMMA UnlockedStep ==
    ASSUME Inv, [Next]_vars
    PROVE  Unlocked'
<1>1. TypeOK /\ Unlocked
  BY DEF Inv
<1>2. \A r : Fails(r).res = r
  BY DEF Fails
<1>3. CASE Open
  <2>1. CASE step' # "done"
    <3>1. /\ IsEncryptedMeta(file, meta') /\ vek' \in KeysOf(file) /\ password = file.secret
          /\ UNCHANGED <<file, password>>
      BY <2>1, <1>1, <1>3, OpenUnlocks DEF Open
    <3> QED BY <3>1 DEF Unlocked, IsEncryptedMeta
  <2>2. CASE step' = "done"
    <3>1. outcome'.res \in {"Zip", "BadFormat", "Encrypted", "panic"}
      <4> DEFINE parsed == ParseEncryptedMeta(file.turtle)
                 key == DeriveVek(password, parsed.val)
      <4>1. ~parsed.ok => parsed.err \in {"BadFormat", "Encrypted"}
        BY <1>1, EncryptedMetaTyped DEF TypeOK
      <4>2. ~key.ok => key.err = "Encrypted"
        BY DEF DeriveVek, Ok, Err
      <4> HIDE DEF parsed, key
      <4>3. \/ outcome' = Fails("Zip")
            \/ ~parsed.ok /\ outcome' = Fails(parsed.err)
            \/ ~key.ok /\ outcome' = Fails(key.err)
            \/ outcome' = Fails("panic")
        BY <1>3, <2>2 DEF Open, Return, parsed, key
      <4> QED BY <4>1, <4>2, <4>3, <1>2
    <3> QED BY <3>1, <2>2 DEF Unlocked
  <2> QED BY <2>1, <2>2
<1>4. CASE ~Open
  <2>1. step # "open" \/ Fault \/ UNCHANGED vars
    BY <1>4 DEF Next, Advance, LoadSegment, Finished, DecryptChunk, NextSegment
  <2>2. UNCHANGED <<file, password, meta, vek>>
    BY <1>4 DEF Next, Advance, LoadSegment, Finished, DecryptChunk, NextSegment, Fault, vars
  <2>3. step' \in {"segment", "chunk"} \/ outcome'.res = "ok"
          => step \in {"segment", "chunk"} \/ outcome.res = "ok"
    BY <1>2, <1>4 DEF Next, Advance, LoadSegment, Finished, DecryptChunk, NextSegment, Fault,
                      Return, vars
  <2> QED BY <2>2, <2>3, <1>1 DEF Unlocked
<1> QED BY <1>3, <1>4

----------------------------------------------------------------------------
(* Where a chunk is                                                        *)

\* Chunk k of segment s is number s * d + k.
LEMMA ChunkNumber ==
    ASSUME NEW s \in Nat, NEW d \in Nat \ {0}, NEW k \in 0 .. d - 1
    PROVE  s * d + k \in Nat /\ (s * d + k) \div d = s /\ (s * d + k) % d = k
<1> DEFINE n == s * d + k
           q == n \div d
           r == n % d
<1>1. n \in Nat /\ s * d \in Nat
  OBVIOUS
<1>2. q \in Nat /\ r \in 0 .. d - 1 /\ n = d * q + r
  BY <1>1, DivMod
<1> HIDE DEF q, r
<1>3. ~(q < s)
  <2> SUFFICES ASSUME q < s PROVE FALSE
    OBVIOUS
  <2>1. (q + 1) * d <= s * d
    BY <1>2
  <2>2. (q + 1) * d = d * q + d
    BY <1>2
  <2> QED BY <2>1, <2>2, <1>1, <1>2
<1>4. ~(q > s)
  <2> SUFFICES ASSUME q > s PROVE FALSE
    OBVIOUS
  <2>1. (s + 1) * d <= q * d
    BY <1>2
  <2>2. (s + 1) * d = s * d + d /\ q * d = d * q
    BY <1>2
  <2> QED BY <2>1, <2>2, <1>1, <1>2
<1>5. q = s
  BY <1>2, <1>3, <1>4
<1>6. r = k
  <2>1. d * q = s * d
    BY <1>5
  <2> QED BY <2>1, <1>1, <1>2
<1> QED BY <1>1, <1>5, <1>6 DEF q, r

\* The numbers of the running stream.
Chunks == (meta.size + SectorSize(file) - 1) \div SectorSize(file)

\* Entry k of the segment's index, and the sector it bounds.
EntryOf(k) == file.index[<<Base, segment>>][k + 1]
SectorOf(k) ==
    Slice(file.bevy[<<Base, segment>>], EntryOf(k).offset, EntryOf(k).offset + EntryOf(k).length)

\* A well-encrypted stream, at a segment that is loaded: a chunk of it below the
\* number of chunks is in its index, deciphers to its piece of the content, and a
\* segment with a successor is full.
LEMMA ChunkEncrypted ==
    ASSUME WellEncrypted(file, meta, vek), meta.chunks_per_segment \in Nat \ {0},
           segment \in Nat, Chunks \in Nat,
           NEW k \in 0 .. meta.chunks_per_segment - 1,
           NEW c, c = segment * meta.chunks_per_segment + k, c < Chunks
    PROVE  /\ k < Len(file.index[<<Base, segment>>])
           /\ segment < (Chunks - 1) \div meta.chunks_per_segment
                => Len(file.index[<<Base, segment>>]) = meta.chunks_per_segment
           /\ EntryOf(k).length = SectorSize(file)
           /\ \A i \in 1 .. SectorSize(file) :
                 c * SectorSize(file) + i <= meta.size
                   => Decipher(vek, c, SectorOf(k))[i] = file.plain[c * SectorSize(file) + i]
<1> DEFINE cps == meta.chunks_per_segment
<1>1. c \in Nat /\ c \div cps = segment /\ c % cps = k
  BY ChunkNumber
<1>2. c \in 0 .. Chunks - 1
  BY <1>1
<1>3. LET f == file
          cs == SectorSize(file)
          l == c % cps
          entries == f.index[<<Base, c \div cps>>]
          x == entries[l + 1]
          s == Slice(f.bevy[<<Base, c \div cps>>], x.offset, x.offset + x.length)
      IN  /\ l < Len(entries)
          /\ c \div cps < (Chunks - 1) \div cps => Len(entries) = cps
          /\ x.length = cs
          /\ \A i \in 1 .. cs : c * cs + i <= meta.size
                => Decipher(vek, c, s)[i] = f.plain[c * cs + i]
  BY <1>2 DEF WellEncrypted, Base, Chunks
<1> HIDE DEF cps
<1> QED BY <1>1, <1>3 DEF cps, EntryOf, SectorOf

\* The numbers of a running stream.
LEMMA StreamNumbers ==
    ASSUME Inv, step \in {"segment", "chunk"}
    PROVE  /\ file.plain \in Seq(Byte)
           /\ meta.size \in Nat /\ meta.chunks_per_segment \in Nat \ {0}
           /\ SectorSize(file) \in Nat \ {0}
           /\ segment \in Nat /\ chunk \in Nat
           /\ Chunks \in Nat
           /\ out \in Seq(Byte) /\ Len(out) \in Nat /\ Len(out) <= meta.size
<1>1. /\ file.plain \in Seq(Byte)
      /\ meta.size \in Nat /\ meta.chunks_per_segment \in Nat \ {0}
      /\ segment \in Nat /\ chunk \in Nat
      /\ out \in Seq(Byte) /\ Len(out) \in Nat /\ Len(out) <= meta.size
  BY SealedAssumption, WordHalves DEF Inv, TypeOK, IsSealed, U64s
<1>2. SectorSize(file) \in Nat \ {0}
  BY WordHalves DEF Inv, Unlocked, U64s
<1>3. Chunks \in Nat
  BY <1>1, <1>2, ChunkStarts DEF Chunks
<1> QED BY <1>1, <1>2, <1>3

\* How much of the content a chunk's start stands for.
LEMMA PrefixLength ==
    ASSUME NEW plain \in Seq(Byte), NEW a \in Nat
    PROVE  Len(SubSeq(plain, 1, Least(a, Len(plain)))) = Least(a, Len(plain))
<1>1. Least(a, Len(plain)) \in Nat /\ Least(a, Len(plain)) <= Len(plain)
  BY DEF Least
<1> HIDE DEF Least
<1> QED BY <1>1, PrefixTyped

\* At a chunk of a well-encrypted stream, while more is wanted: it is the chunk
\* at which the output ends, and the index has it unless the segment is full.
LEMMA AtChunk ==
    ASSUME Inv, step = "chunk", WellEncrypted(file, meta, vek), Len(out) < meta.size
    PROVE  /\ ChunkId \in Nat /\ ChunkId < Chunks
           /\ Len(out) = ChunkId * SectorSize(file)
           /\ chunk < Len(index) <=> chunk < meta.chunks_per_segment
<1> DEFINE cps == meta.chunks_per_segment
           cs == SectorSize(file)
           at == <<Base, segment>>
<1>1. /\ file.plain \in Seq(Byte) /\ Len(file.plain) = meta.size
      /\ meta.size \in Nat /\ cps \in Nat \ {0} /\ cs \in Nat \ {0}
      /\ segment \in Nat /\ chunk \in Nat /\ Chunks \in Nat
  BY StreamNumbers DEF WellEncrypted
<1>2. index = file.index[at] /\ chunk <= cps
  BY DEF Inv, SegmentLoaded
<1>3. ChunkId \in Nat /\ ChunkId = segment * cps + chunk
  <2>1. \A s, d, k \in Nat : s * d + k \in Nat
    OBVIOUS
  <2> QED BY <2>1, <1>1 DEF ChunkId
<1>4. out = SubSeq(file.plain, 1, Least(ChunkId * cs, meta.size))
  BY DEF Inv, PlainSoFar, ChunkId
<1> HIDE DEF cps, cs, at
<1>5. ChunkId * cs \in Nat
  BY <1>1, <1>3, ChunkStarts
<1>6. Len(out) = Least(ChunkId * cs, meta.size)
  BY <1>1, <1>4, <1>5, PrefixLength
<1>7. ChunkId * cs < meta.size /\ Len(out) = ChunkId * cs
  BY <1>1, <1>5, <1>6 DEF Least
<1>8. ChunkId < Chunks
  <2>1. ChunkId >= Chunks => ChunkId * cs >= meta.size
    BY <1>1, <1>3, ChunkStarts DEF Chunks, cs
  <2> QED BY <2>1, <1>1, <1>3, <1>5, <1>7
<1>9. ASSUME chunk < cps PROVE chunk < Len(index)
  <2>1. chunk \in 0 .. cps - 1
    BY <1>1, <1>9
  <2> QED BY <2>1, <1>1, <1>2, <1>3, <1>8, ChunkEncrypted DEF cps, at
<1>10. ASSUME chunk < Len(index), ~(chunk < cps) PROVE FALSE
  <2>1. chunk = cps
    BY <1>1, <1>2, <1>10
  <2> DEFINE first == segment * cps + 0
  <2>2. /\ 0 \in 0 .. cps - 1 /\ first \in Nat /\ first < Chunks
        /\ (segment + 1) * cps = ChunkId
    BY <2>1, <1>1, <1>3, <1>8
  <2>3. segment < (Chunks - 1) \div cps
    <3>1. /\ Chunks - 1 \in Nat
          /\ (segment + 1) * cps <= Chunks - 1
      BY <2>2, <1>1, <1>3, <1>8
    <3> DEFINE n == Chunks - 1
               q == n \div cps
    <3>2. q \in Nat /\ n < (q + 1) * cps
      <4>1. q \in Nat /\ n % cps \in 0 .. cps - 1 /\ n = cps * q + (n % cps)
        BY <3>1, <1>1, DivMod
      <4> HIDE DEF q, n
      <4>2. (q + 1) * cps = cps * q + cps
        BY <4>1, <1>1
      <4> QED BY <4>1, <4>2, <1>1
    <3> HIDE DEF q
    <3>3. ~(q <= segment)
      <4> SUFFICES ASSUME q <= segment PROVE FALSE
        OBVIOUS
      <4>1. (q + 1) * cps <= (segment + 1) * cps
        BY <3>2, <1>1
      <4> QED BY <4>1, <3>1, <3>2, <1>1
    <3> QED BY <3>2, <3>3, <1>1 DEF q
  <2> HIDE DEF first
  <2>4. Len(index) = cps
    BY <2>2, <2>3, <1>1, <1>2, ChunkEncrypted DEF first, cps, at
  <2> QED BY <2>1, <2>4, <1>1, <1>10
<1> QED BY <1>3, <1>7, <1>8, <1>9, <1>10 DEF cps, cs

\* One turn of the inner loop produces the content of its chunk.
LEMMA ChunkTaken ==
    ASSUME Inv, step = "chunk", MoreChunks, WellEncrypted(file, meta, vek),
           NEW b, b = ChunkBoundsFromIndex(index, chunk), b.ok, ~(b.val.end > Len(bevy)),
           ~(ChunkId >= Word),
           NEW d, d = Decipher(vek, ChunkId, Slice(bevy, b.val.start, b.val.end))
    PROVE  /\ chunk + 1 <= meta.chunks_per_segment
           /\ out \o Take(d)
                = SubSeq(file.plain, 1, Least((ChunkId + 1) * SectorSize(file), meta.size))
<1> DEFINE cs == SectorSize(file)
           cps == meta.chunks_per_segment
           at == <<Base, segment>>
           e == index[chunk + 1]
           n == Least(cs, meta.size - Len(out))
<1>1. /\ file.plain \in Seq(Byte) /\ Len(file.plain) = meta.size
      /\ meta.size \in Nat /\ cps \in Nat \ {0} /\ cs \in Nat \ {0}
      /\ segment \in Nat /\ chunk \in Nat /\ Chunks \in Nat
      /\ Len(out) < meta.size /\ chunk < Len(index)
  BY StreamNumbers DEF WellEncrypted, MoreChunks
<1>2. /\ ChunkId \in Nat /\ ChunkId < Chunks /\ Len(out) = ChunkId * cs
      /\ chunk < cps
  BY <1>1, AtChunk
<1>3. index = file.index[at] /\ bevy = file.bevy[at]
  BY DEF Inv, SegmentLoaded
<1>4. /\ b.val.start = e.offset /\ b.val.end = e.offset + e.length
      /\ Len(Slice(bevy, b.val.start, b.val.end)) = e.length
      /\ Len(d) = Len(Slice(bevy, b.val.start, b.val.end))
      /\ Take(d) \in Seq(Byte)
      /\ Len(Take(d)) = Least(Len(d), meta.size - Len(out))
      /\ \A i \in 1 .. Len(Take(d)) : Take(d)[i] = d[i]
  BY SectorDeciphered DEF Inv
<1> HIDE DEF cs, cps
<1>5. /\ e.length = cs
      /\ \A i \in 1 .. cs : ChunkId * cs + i <= meta.size => d[i] = file.plain[ChunkId * cs + i]
  <2>1. /\ meta.chunks_per_segment \in Nat \ {0}
        /\ chunk \in 0 .. meta.chunks_per_segment - 1
    BY <1>1, <1>2 DEF cps
  <2>2. e = EntryOf(chunk)
    BY <1>3 DEF EntryOf
  <2> HIDE DEF e
  <2>3. d = Decipher(vek, ChunkId, SectorOf(chunk))
    BY <2>2, <1>3, <1>4 DEF SectorOf
  <2>4. ChunkId = segment * meta.chunks_per_segment + chunk
    BY DEF ChunkId
  <2>5. /\ EntryOf(chunk).length = SectorSize(file)
        /\ \A i \in 1 .. SectorSize(file) : ChunkId * SectorSize(file) + i <= meta.size
              => Decipher(vek, ChunkId, SectorOf(chunk))[i]
                   = file.plain[ChunkId * SectorSize(file) + i]
    BY <2>1, <2>4, <1>1, <1>2, ChunkEncrypted
  <2> QED BY <2>2, <2>3, <2>5 DEF cs
<1> HIDE DEF e, at
<1>6. Len(Take(d)) = n
  BY <1>4, <1>5
<1> DEFINE a == ChunkId * cs
<1>7. a \in Nat /\ (ChunkId + 1) * cs = a + cs /\ a < meta.size /\ Len(out) = a
  BY <1>1, <1>2, ChunkStarts
<1> HIDE DEF a
<1>8. n \in Nat /\ n <= cs /\ a + n <= meta.size /\ a + n = Least(a + cs, meta.size)
  BY <1>1, <1>7 DEF Least
<1> HIDE DEF n
<1>9. \A i \in 1 .. n : Take(d)[i] = file.plain[a + i]
  <2> SUFFICES ASSUME NEW i \in 1 .. n PROVE Take(d)[i] = file.plain[a + i]
    OBVIOUS
  <2>1. i \in 1 .. cs /\ a + i <= meta.size
    BY <1>1, <1>7, <1>8
  <2> QED BY <2>1, <1>4, <1>5, <1>6 DEF a
<1>10. out = SubSeq(file.plain, 1, a)
  <2>1. out = SubSeq(file.plain, 1, Least(ChunkId * cs, meta.size))
    BY DEF Inv, PlainSoFar, ChunkId, cs
  <2>2. Least(a, meta.size) = a
    BY <1>1, <1>7 DEF Least
  <2> QED BY <2>1, <2>2 DEF a
<1>11. SubSeq(file.plain, 1, a) \o Take(d) = SubSeq(file.plain, 1, a + n)
  <2> DEFINE piece == Take(d)
             plain == file.plain
  <2>1. /\ plain \in Seq(Byte) /\ piece \in Seq(Byte) /\ Len(piece) = n
        /\ a + n <= Len(plain) /\ a \in Nat /\ n \in Nat
        /\ \A i \in 1 .. n : piece[i] = plain[a + i]
    BY <1>1, <1>4, <1>6, <1>7, <1>8, <1>9
  <2> HIDE DEF piece, plain
  <2>2. SubSeq(plain, 1, a) \o piece = SubSeq(plain, 1, a + n)
    BY ONLY <2>1, PrefixGrows
  <2> QED BY <2>2 DEF piece, plain
<1>12. chunk + 1 <= cps
  BY <1>1, <1>2
<1> QED BY <1>7, <1>8, <1>10, <1>11, <1>12 DEF cs, cps

\* The inner loop leaves a segment that has successors when it is through it.
LEMMA SegmentTaken ==
    ASSUME Inv, step = "chunk", ~MoreChunks, WellEncrypted(file, meta, vek)
    PROVE  out = SubSeq(file.plain, 1,
                        Least((segment + 1) * meta.chunks_per_segment * SectorSize(file), meta.size))
<1> DEFINE cs == SectorSize(file)
           cps == meta.chunks_per_segment
           next == (segment + 1) * cps
<1>1. /\ file.plain \in Seq(Byte) /\ Len(file.plain) = meta.size
      /\ meta.size \in Nat /\ cps \in Nat \ {0} /\ cs \in Nat \ {0}
      /\ segment \in Nat /\ chunk \in Nat
      /\ Len(out) \in Nat /\ Len(out) <= meta.size
  BY StreamNumbers DEF WellEncrypted
<1>2. chunk <= cps /\ chunk <= Len(index) /\ Len(index) \in Nat
  BY DEF Inv, SegmentLoaded, TypeOK
<1>3. out = SubSeq(file.plain, 1, Least(ChunkId * cs, meta.size))
  BY DEF Inv, PlainSoFar, ChunkId
<1> HIDE DEF cs, cps
<1>4. /\ ChunkId \in Nat /\ next \in Nat
      /\ ChunkId = segment * cps + chunk /\ next = segment * cps + cps
  <2>1. \A s, d, k \in Nat : /\ s * d + k \in Nat /\ (s + 1) * d \in Nat
                             /\ (s + 1) * d = s * d + d
    OBVIOUS
  <2> QED BY <2>1, <1>1 DEF ChunkId, cps
<1>5. CASE Len(out) < meta.size
  <2>1. ~(chunk < cps)
    BY <1>5, AtChunk DEF MoreChunks, cps
  <2>2. ChunkId = next
    <3>1. chunk = cps
      BY <2>1, <1>1, <1>2
    <3> QED BY <3>1, <1>4
  <2> HIDE DEF next
  <2> QED BY <2>2, <1>3 DEF next, cs, cps
<1>6. CASE ~(Len(out) < meta.size)
  <2> DEFINE a == ChunkId * cs
             z == next * cs
  <2>1. a \in Nat /\ z \in Nat
    BY <1>1, <1>4, ChunkStarts
  <2>2. a <= z
    <3>1. ChunkId <= next
      <4>1. \A x \in Nat : x + chunk <= x + cps
        BY <1>1, <1>2
      <4>2. segment * cps \in Nat
        BY <1>1
      <4> HIDE DEF next
      <4> QED BY <4>1, <4>2, <1>4
    <3> HIDE DEF next
    <3> QED BY <3>1, <1>1, <1>4
  <2> HIDE DEF a, z, next
  <2>3. Len(out) = Least(a, meta.size)
    BY <2>1, <1>1, <1>3, PrefixLength DEF a
  <2>4. Least(a, meta.size) = Least(z, meta.size)
    BY <2>1, <2>2, <2>3, <1>1, <1>6 DEF Least
  <2> QED BY <2>4, <1>3 DEF a, z, next, cs, cps
<1> QED BY <1>5, <1>6

----------------------------------------------------------------------------
(* The stream is followed                                                  *)

\* Nothing comes back to the state before the key is unwrapped.
LEMMA OpenStep ==
    ASSUME Inv, [Next]_vars, step' = "open"
    PROVE  out' = <<>> /\ segment' = 0
<1>1. UNCHANGED vars
  BY DEF Next, Advance, Open, LoadSegment, Finished, DecryptChunk, NextSegment, Fault, Return
<1> QED BY <1>1 DEF Inv, vars

\* A segment is loaded whole before its first chunk is decrypted, and stays loaded.
LEMMA LoadedStep ==
    ASSUME Inv, [Next]_vars
    PROVE  SegmentLoaded'
<1> SUFFICES ASSUME step' = "chunk" PROVE SegmentLoaded'
  BY DEF SegmentLoaded
<1>1. LoadSegment \/ DecryptChunk \/ UNCHANGED vars
  BY DEF Next, Advance, Open, Finished, NextSegment, Fault, Return
<1>2. CASE LoadSegment
  <2>1. /\ <<Base, segment>> \in DOMAIN file.index \cap DOMAIN file.bevy
        /\ index' = file.index[<<Base, segment>>] /\ bevy' = file.bevy[<<Base, segment>>]
        /\ chunk' = 0
        /\ UNCHANGED <<file, meta, segment>>
    BY <1>2 DEF LoadSegment, Return, Base
  <2>2. Base' = Base /\ meta.chunks_per_segment \in Nat
    BY <2>1, WordHalves DEF Base, Inv, TypeOK, U64s
  <2>3. chunk' <= meta'.chunks_per_segment
    BY <2>1, <2>2
  <2> QED BY <2>1, <2>2, <2>3 DEF SegmentLoaded
<1>3. CASE DecryptChunk
  <2>1. /\ step = "chunk" /\ MoreChunks
        /\ UNCHANGED <<file, meta, vek, segment, index, bevy>>
        /\ chunk' = chunk + 1
    BY <1>3 DEF DecryptChunk, Return
  <2>2. WellEncrypted(file, meta, vek) => chunk + 1 <= meta.chunks_per_segment
    BY <2>1, AtChunk, StreamNumbers DEF MoreChunks
  <2>3. Base' = Base
    BY <2>1 DEF Base
  <2>4. WellEncrypted(file, meta, vek)' = WellEncrypted(file, meta, vek)
    BY <2>1 DEF WellEncrypted, SectorSize
  <2> QED BY <2>1, <2>2, <2>3, <2>4 DEF Inv, SegmentLoaded
<1>4. CASE UNCHANGED vars
  <2>1. UNCHANGED <<file, meta, vek, step, segment, chunk, index, bevy>>
    BY <1>4 DEF vars
  <2>2. Base' = Base
    BY <2>1 DEF Base
  <2>3. WellEncrypted(file, meta, vek)' = WellEncrypted(file, meta, vek)
    BY <2>1 DEF WellEncrypted, SectorSize
  <2> QED BY <2>1, <2>2, <2>3 DEF Inv, SegmentLoaded
<1> QED BY <1>1, <1>2, <1>3, <1>4

\* At the chunks the loop has come to, the output is the content before them.
LEMMA PlainStep ==
    ASSUME Inv, [Next]_vars
    PROVE  PlainSoFar'
<1> DEFINE W == WellEncrypted(file, meta, vek)
           cps == meta.chunks_per_segment
           Prefix(c) == SubSeq(file.plain, 1, Least(c * SectorSize(file), meta.size))
<1>1. /\ step = "segment" /\ W => out = Prefix(segment * cps + 0)
      /\ step = "chunk" /\ W => out = Prefix(segment * cps + chunk)
  BY DEF Inv, PlainSoFar
<1>2. ASSUME UNCHANGED <<file, meta, vek>>,
             step' = "segment" /\ W => out' = Prefix(segment' * cps + 0),
             step' = "chunk" /\ W => out' = Prefix(segment' * cps + chunk')
      PROVE  PlainSoFar'
  <2>1. UNCHANGED <<file, meta, vek>>
    BY <1>2
  <2>2. WellEncrypted(file, meta, vek)' = W /\ SectorSize(file)' = SectorSize(file)
    BY <2>1 DEF WellEncrypted, SectorSize
  <2> HIDE DEF W
  <2> QED BY <2>1, <2>2, <1>2 DEF PlainSoFar
<1>3. CASE Open
  <2>1. CASE step' # "done"
    <3>1. /\ IsEncryptedMeta(file, meta') /\ step' = "segment"
          /\ out = <<>> /\ segment = 0 /\ UNCHANGED <<file, out, segment>>
      BY <2>1, <1>3, OpenUnlocks DEF Inv, Open
    <3>2. /\ meta'.size \in Nat /\ meta'.chunks_per_segment \in Nat /\ SectorSize(file) \in Nat
          /\ file.plain \in Seq(Byte)
      BY <3>1, SealedAssumption, WordHalves DEF IsEncryptedMeta, IsSealed, U64s, Inv, TypeOK
    <3>3. (segment' * meta'.chunks_per_segment + 0) * SectorSize(file) = 0
      <4>1. \A a, b \in Nat : (0 * a + 0) * b = 0
        OBVIOUS
      <4> QED BY <4>1, <3>1, <3>2
    <3>4. Least(0, meta'.size) = 0
      BY <3>2 DEF Least
    <3>5. SubSeq(file.plain, 1, 0) = <<>>
      BY <3>2, SubSeqEmpty
    <3>6. SectorSize(file)' = SectorSize(file)
      BY <3>1 DEF SectorSize
    <3> QED BY <3>1, <3>3, <3>4, <3>5, <3>6 DEF PlainSoFar
  <2>2. CASE step' = "done"
    BY <2>2 DEF PlainSoFar
  <2> QED BY <2>1, <2>2
<1>4. CASE step' = "done"
  BY <1>4 DEF PlainSoFar
<1>5. CASE LoadSegment /\ step' # "done"
  <2>1. /\ step = "segment" /\ step' = "chunk" /\ chunk' = 0
        /\ UNCHANGED <<file, meta, vek, segment, out>>
    BY <1>5 DEF LoadSegment, Return
  <2> HIDE DEF W, Prefix, cps
  <2> QED BY <2>1, <1>1, <1>2
<1>6. CASE DecryptChunk /\ step' # "done"
  <2> DEFINE b == ChunkBoundsFromIndex(index, chunk)
             d == Decipher(vek, ChunkId, Slice(bevy, b.val.start, b.val.end))
  <2>1. /\ step = "chunk" /\ step' = "chunk" /\ MoreChunks
        /\ b.ok /\ ~(b.val.end > Len(bevy)) /\ ~(ChunkId >= Word)
        /\ UNCHANGED <<file, meta, vek, segment>>
        /\ chunk' = chunk + 1 /\ out' = out \o Take(d)
    BY <1>6 DEF DecryptChunk, BadChunk, Return
  <2>2. W => out' = Prefix(ChunkId + 1)
    <3> HIDE DEF b
    <3> QED BY <2>1, ChunkTaken DEF b
  <2>3. ChunkId + 1 = segment * cps + chunk'
    <3>1. segment \in Nat /\ cps \in Nat /\ chunk \in Nat
      BY <2>1, StreamNumbers
    <3>2. \A s, c, k \in Nat : (s * c + k) + 1 = s * c + (k + 1)
      OBVIOUS
    <3> QED BY <2>1, <3>1, <3>2 DEF ChunkId
  <2> HIDE DEF W, Prefix, cps, b, d
  <2> QED BY <2>1, <2>2, <2>3, <1>2
<1>7. CASE NextSegment /\ step' # "done"
  <2>1. /\ step = "chunk" /\ step' = "segment" /\ ~MoreChunks
        /\ UNCHANGED <<file, meta, vek, out>>
        /\ segment' = segment + 1
    BY <1>7 DEF NextSegment, Return
  <2>2. W => out' = Prefix((segment + 1) * cps)
    BY <2>1, SegmentTaken
  <2>3. (segment + 1) * cps = segment' * cps + 0
    <3>1. segment \in Nat /\ cps \in Nat
      BY <2>1, StreamNumbers
    <3>2. \A s, c \in Nat : (s + 1) * c = (s + 1) * c + 0
      OBVIOUS
    <3> QED BY <2>1, <3>1, <3>2
  <2> HIDE DEF W, Prefix, cps
  <2> QED BY <2>1, <2>2, <2>3, <1>2
<1>8. CASE UNCHANGED vars
  <2>1. UNCHANGED <<file, meta, vek, step, segment, chunk, out>>
    BY <1>8 DEF vars
  <2> HIDE DEF W, Prefix, cps
  <2> QED BY <2>1, <1>1, <1>2
<1>9. Finished \/ Fault => step' = "done"
  BY DEF Finished, Fault, Return
<1> QED BY <1>3, <1>4, <1>5, <1>6, <1>7, <1>8, <1>9 DEF Next, Advance

\* What is returned is whole.
LEMMA DecryptedStep ==
    ASSUME Inv, [Next]_vars
    PROVE  DecryptsExactly'
<1>1. TypeOK /\ Unlocked /\ PlainSoFar /\ DecryptsExactly
  BY DEF Inv
<1>2. CASE Finished
  <2>1. /\ step = "segment" /\ Len(out) >= meta.size /\ outcome' = Returns(out)
        /\ UNCHANGED <<file, password, meta, vek>>
    BY <1>2 DEF Finished, Return
  <2>2. outcome'.bytes = out
    BY <2>1 DEF Returns
  <2>3. password = file.secret
    BY <2>1, <1>1 DEF Unlocked
  <2>4. /\ file.plain \in Seq(Byte) /\ meta.size \in Nat
        /\ out \in Seq(Byte) /\ Len(out) \in Nat /\ Len(out) <= meta.size
        /\ segment \in Nat /\ meta.chunks_per_segment \in Nat /\ SectorSize(file) \in Nat
    BY <2>1, StreamNumbers
  <2>5. Len(out) = meta.size
    BY <2>1, <2>4
  <2>6. WellEncrypted(file, meta, vek) => out = file.plain
    <3> SUFFICES ASSUME WellEncrypted(file, meta, vek) PROVE out = file.plain
      OBVIOUS
    <3>1. Len(file.plain) = meta.size
      BY DEF WellEncrypted
    <3> DEFINE a == (segment * meta.chunks_per_segment + 0) * SectorSize(file)
    <3>2. a \in Nat
      <4>1. \A s, c, k \in Nat : (s * c + 0) * k \in Nat
        OBVIOUS
      <4> QED BY <4>1, <2>4
    <3>3. out = SubSeq(file.plain, 1, Least(a, meta.size))
      BY <2>1, <1>1 DEF PlainSoFar
    <3> HIDE DEF a
    <3>4. Least(a, meta.size) = meta.size
      BY <3>1, <3>2, <3>3, <2>4, <2>5, PrefixLength
    <3> QED BY <3>1, <3>3, <3>4, <2>4, SubSeqFull
  <2>7. WellEncrypted(file, meta, vek)' = WellEncrypted(file, meta, vek)
    BY <2>1 DEF WellEncrypted, SectorSize
  <2> QED BY <2>1, <2>2, <2>3, <2>5, <2>6, <2>7 DEF DecryptsExactly
<1>3. CASE UNCHANGED vars
  <2>1. UNCHANGED <<file, password, meta, vek, outcome>>
    BY <1>3 DEF vars
  <2>2. WellEncrypted(file, meta, vek)' = WellEncrypted(file, meta, vek)
    BY <2>1 DEF WellEncrypted, SectorSize
  <2> QED BY <2>1, <2>2, <1>1 DEF DecryptsExactly
<1>4. CASE Next /\ ~Finished
  <2>1. step # "done"
    BY <1>4 DEF Next, Advance, Open, LoadSegment, DecryptChunk, NextSegment, Fault
  <2>2. outcome.res # "ok"
    BY <2>1, <1>1 DEF TypeOK
  <2>3. outcome'.res # "ok"
    <3>1. \A r : Fails(r).res = r
      BY DEF Fails
    <3> DEFINE parsed == ParseEncryptedMeta(file.turtle)
               key == DeriveVek(password, parsed.val)
    <3>2. ~parsed.ok => parsed.err \in {"BadFormat", "Encrypted"}
      BY <1>1, EncryptedMetaTyped DEF TypeOK
    <3>3. ~key.ok => key.err = "Encrypted"
      BY DEF DeriveVek, Ok, Err
    <3> HIDE DEF parsed, key
    <3>4. CASE Open
      <4>1. \/ outcome' = outcome
            \/ outcome' = Fails("Zip")
            \/ ~parsed.ok /\ outcome' = Fails(parsed.err)
            \/ ~key.ok /\ outcome' = Fails(key.err)
            \/ outcome' = Fails("panic")
        BY <3>4 DEF Open, Return, parsed, key
      <4> QED BY <4>1, <2>2, <3>1, <3>2, <3>3
    <3>5. CASE LoadSegment \/ DecryptChunk \/ NextSegment \/ Fault
      <4>1. \/ outcome' = outcome
            \/ \E r \in {"Zip", "Io", "BadFormat", "panic"} : outcome' = Fails(r)
        BY <3>5 DEF LoadSegment, DecryptChunk, NextSegment, Fault, Return
      <4> QED BY <4>1, <2>2, <3>1
    <3> QED BY <3>4, <3>5, <1>4 DEF Next, Advance
  <2> QED BY <2>3 DEF DecryptsExactly
<1> QED BY <1>2, <1>3, <1>4

----------------------------------------------------------------------------
(* The loop goes through the segments that are there                       *)

\* A segment that is left was loaded, so it was in the archive.
LEMMA ThereStep ==
    ASSUME Inv, [Next]_vars
    PROVE  SegmentsThere'
<1>1. segment \in Nat /\ SegmentsThere /\ SegmentLoaded
  BY WordHalves DEF Inv, TypeOK, U64s
<1>2. CASE step = "open"
  <2>1. segment' = 0
    BY <1>2 DEF Inv, Next, Advance, Open, LoadSegment, Finished, DecryptChunk, NextSegment, Fault,
                vars
  <2>2. 0 .. segment' - 1 = {}
    BY <2>1
  <2> QED BY <2>2 DEF SegmentsThere
<1>3. CASE step # "open"
  <2>1. UNCHANGED <<file, meta>>
    BY <1>3 DEF Next, Advance, Open, LoadSegment, Finished, DecryptChunk, NextSegment, Fault, vars
  <2>2. Base' = Base
    BY <2>1 DEF Base
  <2>3. segment' = segment \/ (step = "chunk" /\ segment' = segment + 1)
    BY <1>3 DEF Next, Advance, Open, LoadSegment, Finished, DecryptChunk, NextSegment, Fault, vars
  <2>4. CASE segment' = segment
    BY <2>1, <2>2, <2>4, <1>1 DEF SegmentsThere
  <2>5. CASE step = "chunk" /\ segment' = segment + 1
    <3>1. <<Base, segment>> \in DOMAIN file.index
      BY <2>5, <1>1 DEF SegmentLoaded
    <3>2. ASSUME NEW s \in 0 .. segment' - 1 PROVE <<Base, s>> \in DOMAIN file.index
      <4>1. s = segment \/ s \in 0 .. segment - 1
        BY <2>5, <1>1
      <4> QED BY <4>1, <3>1, <1>1 DEF SegmentsThere
    <3> QED BY <2>1, <2>2, <3>2 DEF SegmentsThere
  <2> QED BY <2>3, <2>4, <2>5
<1> QED BY <1>2, <1>3

\* At the head of the loop on a well-encrypted stream, while more is wanted: the
\* segment's first chunk is wanted, and the segment is there with an entry for it.
LEMMA AtSegment ==
    ASSUME Inv, step = "segment", WellEncrypted(file, meta, vek), Len(out) < meta.size
    PROVE  /\ segment * meta.chunks_per_segment * SectorSize(file) < meta.size
           /\ <<Base, segment>> \in DOMAIN file.index \cap DOMAIN file.bevy
           /\ file.index[<<Base, segment>>] # <<>>
<1> DEFINE cps == meta.chunks_per_segment
           cs == SectorSize(file)
           at == <<Base, segment>>
           c == segment * cps
<1>1. /\ file.plain \in Seq(Byte) /\ Len(file.plain) = meta.size
      /\ meta.size \in Nat /\ cps \in Nat \ {0} /\ cs \in Nat \ {0}
      /\ segment \in Nat /\ Chunks \in Nat
  BY StreamNumbers DEF WellEncrypted
<1>2. out = SubSeq(file.plain, 1, Least((c + 0) * cs, meta.size))
  BY DEF Inv, PlainSoFar
<1> HIDE DEF cps, cs, at
<1>3. c \in Nat /\ c + 0 = c
  BY <1>1
<1>4. c * cs \in Nat
  BY <1>1, <1>3, ChunkStarts
<1>5. Len(out) = Least(c * cs, meta.size)
  <2> HIDE DEF c
  <2>1. out = SubSeq(file.plain, 1, Least(c * cs, meta.size))
    BY <1>2, <1>3
  <2> QED BY <2>1, <1>1, <1>4, PrefixLength
<1>6. c * cs < meta.size
  <2> HIDE DEF c
  <2> QED BY <1>1, <1>4, <1>5 DEF Least
<1>7. c < Chunks
  <2> HIDE DEF c
  <2>1. c >= Chunks => c * cs >= meta.size
    BY <1>1, <1>3, ChunkStarts DEF Chunks, cs
  <2> QED BY <2>1, <1>1, <1>3, <1>4, <1>6
<1>8. c \div cps = segment /\ c % cps = 0
  <2>1. 0 \in 0 .. cps - 1
    BY <1>1
  <2>2. (segment * cps + 0) \div cps = segment /\ (segment * cps + 0) % cps = 0
    BY <2>1, <1>1, ChunkNumber
  <2> QED BY <2>2, <1>3
<1>9. c \in 0 .. Chunks - 1
  <2> HIDE DEF c
  <2> QED BY <1>1, <1>3, <1>7
<1>10. LET f == file
       IN  /\ <<Base, c \div cps>> \in DOMAIN f.index \cap DOMAIN f.bevy
           /\ c % cps < Len(f.index[<<Base, c \div cps>>])
  <2> HIDE DEF c
  <2> QED BY <1>9 DEF WellEncrypted, Base, Chunks, cps
<1>11. at \in DOMAIN file.index \cap DOMAIN file.bevy /\ 0 < Len(file.index[at])
  BY <1>8, <1>10 DEF at
<1> QED BY <1>6, <1>11 DEF at, cps, cs

\* A segment is only loaded while more is wanted.
LEMMA WantedStep ==
    ASSUME Inv, [Next]_vars
    PROVE  FirstWanted'
<1> SUFFICES ASSUME step' = "chunk", WellEncrypted(file, meta, vek)' PROVE FirstWanted'
  BY DEF FirstWanted
<1>1. LoadSegment \/ (step = "chunk" /\ (DecryptChunk \/ UNCHANGED vars))
  BY DEF Next, Advance, Open, LoadSegment, DecryptChunk, Finished, NextSegment, Fault, Return, vars
<1>2. UNCHANGED <<file, meta, vek, segment>>
  BY <1>1 DEF LoadSegment, DecryptChunk, vars
<1>3. SectorSize(file)' = SectorSize(file) /\ WellEncrypted(file, meta, vek)
  <2>1. SectorSize(file)' = SectorSize(file)
    BY <1>2 DEF SectorSize
  <2>2. WellEncrypted(file, meta, vek)' = WellEncrypted(file, meta, vek)
    BY ONLY <1>2 DEF SectorSize, WellEncrypted
  <2> QED BY <2>1, <2>2
<1>4. segment * meta.chunks_per_segment * SectorSize(file) < meta.size
  <2>1. CASE LoadSegment
    BY <2>1, <1>3, AtSegment DEF LoadSegment
  <2>2. CASE step = "chunk"
    BY <2>2, <1>3 DEF Inv, FirstWanted
  <2> QED BY <1>1, <2>1, <2>2
<1> QED BY <1>2, <1>3, <1>4 DEF FirstWanted

\* A chunk of a well-encrypted stream passes the checks before it is deciphered.
LEMMA GoodChunk ==
    ASSUME Inv, step = "chunk", MoreChunks, WellEncrypted(file, meta, vek),
           NEW b, b = ChunkBoundsFromIndex(index, chunk)
    PROVE  ~BadChunk(b) /\ Len(Slice(bevy, b.val.start, b.val.end)) >= CipherBlock
<1> DEFINE cps == meta.chunks_per_segment
           cs == SectorSize(file)
           at == <<Base, segment>>
           e == index[chunk + 1]
           c == ChunkId
<1>1. /\ meta.size \in Nat /\ meta.size < Word /\ cps \in Nat \ {0} /\ cs \in Nat \ {0}
      /\ segment \in Nat /\ chunk \in Nat /\ Chunks \in Nat /\ Word \in Nat
      /\ chunk < Len(index) /\ Len(out) < meta.size
      /\ cs >= CipherBlock
  <2>1. meta.size < Word /\ Word \in Nat
    <3>1. meta.size \in U64s
      BY DEF Inv, TypeOK
    <3> QED BY <3>1, WordHalves DEF U64s
  <2>2. chunk < Len(index) /\ Len(out) < meta.size
    BY DEF MoreChunks
  <2>3. cs >= CipherBlock
    BY DEF WellEncrypted
  <2> HIDE DEF cps, cs
  <2> QED BY <2>1, <2>2, <2>3, StreamNumbers DEF cps, cs
<1>2. /\ c \in Nat /\ c < Chunks /\ Len(out) = c * cs /\ chunk < cps
  BY <1>1, AtChunk
<1>3. index = file.index[at] /\ bevy = file.bevy[at]
  BY DEF Inv, SegmentLoaded
<1>4. c = segment * cps + chunk
  BY DEF ChunkId
<1> HIDE DEF cps, cs, at, c
<1>5. c \div cps = segment /\ c % cps = chunk
  <2>1. chunk \in 0 .. cps - 1
    BY <1>1, <1>2
  <2> QED BY <2>1, <1>1, <1>4, ChunkNumber
<1>6. c \in 0 .. Chunks - 1
  BY <1>1, <1>2
<1>7. LET x == file.index[<<Base, c \div cps>>][(c % cps) + 1]
      IN  /\ x.length = cs
          /\ x.offset + x.length <= Len(file.bevy[<<Base, c \div cps>>])
          /\ x.offset + x.length < Word
  BY <1>6 DEF WellEncrypted, Base, Chunks, cps, cs
<1>8. e.length = cs /\ e.offset + e.length <= Len(bevy) /\ e.offset + e.length < Word
  BY <1>3, <1>5, <1>7 DEF at
<1>9. e.offset \in Nat /\ e.length \in Nat
  <2>1. chunk + 1 \in 1 .. Len(index) /\ index \in Seq(IndexEntry)
    BY <1>1 DEF Inv, TypeOK
  <2>2. e \in IndexEntry
    BY <2>1, ElementOfSeq
  <2> QED BY <2>2, WordHalves DEF IndexEntry, U64s
<1>10. b = Ok([start |-> e.offset, end |-> e.offset + e.length])
  <2>1. ~(chunk >= Len(index)) /\ ~(e.offset + e.length >= Word)
    BY <1>1, <1>8, <1>9
  <2> QED BY <2>1 DEF ChunkBoundsFromIndex
<1> HIDE DEF e
<1>11. b.ok /\ b.val.start = e.offset /\ b.val.end = e.offset + e.length
  BY <1>10 DEF Ok
<1>12. ~(ChunkId >= Word)
  <2>1. c <= c * cs
    BY <1>1, <1>2
  <2> HIDE DEF c
  <2>2. c * cs \in Nat
    BY <1>1, <1>2
  <2>3. c < Word
    BY <2>1, <2>2, <1>1, <1>2
  <2> QED BY <2>3, <1>1, <1>2 DEF c
<1>13. Len(bevy) \in Nat /\ bevy \in Seq(Byte)
  BY DEF Inv, TypeOK
<1>14. ~BadChunk(b)
  BY <1>8, <1>9, <1>11, <1>12, <1>13 DEF BadChunk
<1>15. Len(Slice(bevy, b.val.start, b.val.end)) = cs
  <2>1. /\ b.val.start \in Nat /\ b.val.end \in Nat /\ b.val.start <= b.val.end
        /\ b.val.end <= Len(bevy) /\ b.val.end - b.val.start = cs
    BY <1>1, <1>8, <1>9, <1>11
  <2>2. PICK lo \in Nat, hi \in Nat : lo = b.val.start /\ hi = b.val.end
    BY <2>1
  <2>3. lo <= hi /\ hi <= Len(bevy) /\ hi - lo = cs
    BY <2>1, <2>2
  <2>4. Len(Slice(bevy, lo, hi)) = hi - lo
    BY <2>3, <1>13, SliceTyped
  <2> QED BY <2>2, <2>3, <2>4
<1> QED BY <1>1, <1>14, <1>15

\* One step of the loop over a well-encrypted stream refuses nothing.
LEMMA GoodStep ==
    ASSUME Inv, [Next]_vars, step \in {"segment", "chunk"}, WellEncrypted(file, meta, vek)
    PROVE  outcome'.res \in {"running", "ok", "Io"}
<1>1. outcome.res = "running"
  BY DEF Inv, TypeOK
<1>2. \A r : Fails(r).res = r
  BY DEF Fails
<1>3. CASE LoadSegment
  <2>1. outcome' = outcome
    BY <1>3, AtSegment DEF LoadSegment, Base
  <2> QED BY <2>1, <1>1
<1>4. CASE Finished
  BY <1>4 DEF Finished, Return, Returns
<1>5. CASE DecryptChunk
  <2> DEFINE b == ChunkBoundsFromIndex(index, chunk)
             sector == Slice(bevy, b.val.start, b.val.end)
  <2>1. /\ step = "chunk" /\ MoreChunks
        /\ ~BadChunk(b) /\ ~(Len(sector) < CipherBlock) => outcome' = outcome
    BY <1>5 DEF DecryptChunk
  <2>2. Len(sector) \in Nat /\ CipherBlock \in Nat
    <3>1. ~BadChunk(b) /\ bevy \in Seq(Byte) /\ index \in Seq(IndexEntry) /\ chunk \in Nat
      BY <2>1, GoodChunk, StreamNumbers DEF Inv, TypeOK
    <3> QED BY <3>1, CipherAssumption
  <2>3. ~BadChunk(b) /\ Len(sector) >= CipherBlock
    BY <2>1, GoodChunk
  <2> HIDE DEF b, sector
  <2>4. outcome' = outcome
    BY <2>1, <2>2, <2>3
  <2> QED BY <2>4, <1>1
<1>6. CASE NextSegment
  <2>1. step = "chunk"
    BY <1>6 DEF NextSegment
  <2> DEFINE cps == meta.chunks_per_segment
             cs == SectorSize(file)
  <2>2. segment * cps * cs < meta.size
    BY <2>1 DEF Inv, FirstWanted
  <2>3. /\ segment \in Nat /\ cps \in Nat \ {0} /\ cs \in Nat \ {0}
        /\ meta.size \in Nat /\ meta.size < Word /\ Word \in Nat
    BY StreamNumbers, WordHalves DEF Inv, TypeOK, U64s
  <2> HIDE DEF cps, cs
  <2>4. segment < Word - 1
    <3> DEFINE c == segment * cps
    <3>1. c \in Nat /\ segment <= c
      BY <2>3
    <3> HIDE DEF c
    <3>2. c * cs \in Nat /\ c <= c * cs
      BY <3>1, <2>3
    <3> QED BY <3>1, <3>2, <2>2, <2>3 DEF c
  <2>5. ~(segment + 1 >= Word)
    BY <2>3, <2>4
  <2>6. outcome' = outcome
    BY <2>5, <1>6 DEF NextSegment
  <2> QED BY <2>6, <1>1
<1>7. CASE Fault
  BY <1>7, <1>2 DEF Fault, Return
<1>8. CASE UNCHANGED vars
  BY <1>8, <1>1 DEF vars
<1>9. ~Open
  BY DEF Open
<1> QED BY <1>3, <1>4, <1>5, <1>6, <1>7, <1>8, <1>9 DEF Next, Advance

----------------------------------------------------------------------------
\* The invariants of decrypt_reader hold for every set of sealed containers and
\* every password, and wherever the medium fails.
LEMMA DecryptInvariant == Spec => []Inv
<1>1. Init => Inv
  BY InvInit
<1>2. Inv /\ [Next]_vars => Inv'
  BY TypeStep, OpenStep, UnlockedStep, LoadedStep, ThereStep, WantedStep, PlainStep,
     DecryptedStep
     DEF Inv
<1> QED BY <1>1, <1>2, PTL DEF Spec

\* The loops of decrypt_reader keep their numbers in range, and never produce more
\* than the declared size, of whatever container.
THEOREM DecryptTypeCorrect == Spec => []TypeOK
<1>1. Inv => TypeOK
  BY DEF Inv
<1> QED BY <1>1, DecryptInvariant, PTL

\* While decrypt_reader runs on a well-encrypted stream, its output is the content
\* before the chunk it is at, across segments of any length.
THEOREM DecryptFollowsContent == Spec => []PlainSoFar
<1>1. Inv => PlainSoFar
  BY DEF Inv
<1> QED BY <1>1, DecryptInvariant, PTL

\* decrypt_reader returns bytes only for the imager's password, as many as are
\* declared, and for a well-encrypted stream they are its content.
THEOREM DecryptReturnsContent == Spec => []DecryptsExactly
<1>1. Inv => DecryptsExactly
  BY DEF Inv
<1> QED BY <1>1, DecryptInvariant, PTL

\* Once the key is unwrapped, decrypt_reader refuses no well-encrypted stream and
\* panics on none; only the medium can make it fail.
THEOREM DecryptAcceptsGood == Spec => GoodStreamAccepted
<1>1. Inv /\ [Next]_vars
        => ((step \in {"segment", "chunk"} /\ WellEncrypted(file, meta, vek))
               => outcome'.res \in {"running", "ok", "Io"})
  BY GoodStep
<1> QED BY <1>1, DecryptInvariant, PTL DEF Spec, GoodStreamAccepted

\* Whatever size is declared, decrypt_reader goes through no more segments than the
\* archive has.
THEOREM DecryptBounded == Spec => []LoopBounded
<1>1. Inv => LoopBounded
  <2> SUFFICES ASSUME Inv PROVE LoopBounded
    OBVIOUS
  <2> DEFINE S == 0 .. segment - 1
             D == DOMAIN file.index
             name == [s \in S |-> <<Base, s>>]
  <2>1. segment \in Nat /\ file \in Files
    BY WordHalves DEF Inv, TypeOK, U64s
  <2>2. IsFiniteSet(D)
    BY <2>1, SealedAssumption DEF IsSealed
  <2>3. name \in Injection(S, D)
    <3>1. \A s \in S : name[s] = <<Base, s>>
      OBVIOUS
    <3>2. name \in [S -> D]
      BY DEF Inv, SegmentsThere
    <3>3. \A s, t \in S : name[s] = name[t] => s = t
      BY <3>1
    <3> QED BY <3>2, <3>3 DEF Injection, IsInjective
  <2>4. Cardinality(S) = segment
    <3> DEFINE b == segment - 1
    <3>1. b \in Int /\ 0 \in Int
      BY <2>1
    <3> HIDE DEF b
    <3>2. Cardinality(0 .. b) = IF 0 > b THEN 0 ELSE b - 0 + 1
      BY <3>1, FS_Interval
    <3> QED BY <3>2, <2>1 DEF b
  <2> HIDE DEF S, D, name
  <2>5. Cardinality(S) <= Cardinality(D)
    BY <2>2, <2>3, FS_Injection
  <2> QED BY <2>4, <2>5 DEF LoopBounded, D
<1> QED BY <1>1, DecryptInvariant, PTL
=============================================================================
