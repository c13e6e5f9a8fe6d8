-------------------------- MODULE EncryptedStream --------------------------
(***************************************************************************)
(* core/src/crypto.rs: decrypt_reader.  It parses the metadata, derives    *)
(* the volume key from the password, and decrypts segment by segment and   *)
(* chunk by chunk until the declared size has been produced.               *)
(*                                                                         *)
(* A file also has `secret`, the password of its imager; no code reads it. *)
(***************************************************************************)
EXTENDS ReaderOps, VolumeMetadata

\* External: AES-XTS of one sector under a volume key with the chunk's number
\* as its tweak.
CONSTANT Decipher(_, _, _)

CONSTANTS Files,
          Passwords,
          CipherBlock      \* bytes below which XTS cannot take a sector (16)

\* Volume keys a file's key bags wrap, and the sectors its bevies can be cut in.
KeysOf(f) ==
    {f.turtle[i].wrappedKey.vek : i \in {j \in 1 .. Len(f.turtle) : f.turtle[j].wrappedKey.hex}}

SectorsOf(f) ==
    UNION {{Slice(f.bevy[k], r[1], r[2]) :
               r \in (0 .. Len(f.bevy[k])) \X (0 .. Len(f.bevy[k]))} : k \in DOMAIN f.bevy}

\* XTS keeps the length of a sector.
ASSUME CipherAssumption ==
    /\ CipherBlock \in Nat
    /\ \A f \in Files : \A vek \in KeysOf(f), id \in U64s, s \in SectorsOf(f) :
          /\ Decipher(vek, id, s) \in Seq(Byte)
          /\ Len(Decipher(vek, id, s)) = Len(s)

\* Containers: any archive, its entries read as what they should hold.
IsSealed(f) ==
    /\ f.has_turtle \in BOOLEAN
    /\ Len(f.turtle) \in Nat
    /\ \A i \in 1 .. Len(f.turtle) :
          LET b == f.turtle[i]
          IN  /\ {b.size, b.chunkSize, b.chunksInSegment} \subseteq U64s \cup {NoNumber}
              /\ b.wrappedKey.hex => b.wrappedKey.vek \in Nat
    /\ IsFiniteSet(DOMAIN f.index)
    /\ \A k \in DOMAIN f.index : f.index[k] \in Seq(IndexEntry)
    /\ \A k \in DOMAIN f.bevy : f.bevy[k] \in Seq(Byte)
    /\ f.plain \in Seq(Byte)

KeyBytes == 32

\* PBKDF2 (external): the key-encryption key is its inputs.
Kek(password, m) == <<password, m.salt, m.iterations>>

\* The imager wrapped the volume key for no other password.
ASSUME SealedAssumption ==
    \A f \in Files :
        /\ IsSealed(f)
        /\ \A i \in 1 .. Len(f.turtle), p \in Passwords :
              LET b == f.turtle[i]
              IN  b.wrappedKey.hex /\ b.wrappedKey.kek = Kek(p, b) => p = f.secret

\* Mutant: what the unwrapping finds out about the key is not looked at.
DeriveVekUnchecked(password, m) ==
    IF m.key_size # KeyBytes THEN Err("Encrypted") ELSE Ok(m.wrapped_key.vek)

\* RFC 3394 unwrap (external): only the key it was wrapped under opens it.
DeriveVek(password, m) ==
    IF m.key_size # KeyBytes \/ m.wrapped_key.kek # Kek(password, m)
    THEN Err("Encrypted")
    ELSE Ok(m.wrapped_key.vek)

----------------------------------------------------------------------------
VARIABLES file, password,
          step,      \* "open", "segment", "chunk" or "done"
          meta,      \* the parsed metadata
          vek,       \* the volume key
          segment,   \* its number
          chunk,     \* next chunk of the segment
          index, bevy,   \* entries of the segment
          out,       \* plaintext produced so far
          outcome    \* what decrypt_reader returned

vars == <<file, password, step, meta, vek, segment, chunk, index, bevy, out, outcome>>

Running == [res |-> "running", bytes |-> <<>>]

NoMeta == [stream_arn |-> NoArn, chunks_per_segment |-> 1, size |-> 0]

Init ==
    /\ file \in Files
    /\ password \in Passwords
    /\ step = "open"
    /\ meta = NoMeta
    /\ vek = 0
    /\ segment = 0
    /\ chunk = 0
    /\ index = <<>>
    /\ bevy = <<>>
    /\ out = <<>>
    /\ outcome = Running

Return(o) == step' = "done" /\ outcome' = o

\* Everything up to the loop.  The output buffer is allocated for the declared
\* size; Vec refuses a capacity beyond isize::MAX with a panic.
Open ==
    LET parsed == ParseEncryptedMeta(file.turtle)
        key == DeriveVek(password, parsed.val)
    IN  /\ step = "open"
        /\ \/ ~file.has_turtle /\ Return(Fails("Zip")) /\ UNCHANGED <<meta, vek>>
           \/ file.has_turtle /\ ~parsed.ok /\ Return(Fails(parsed.err)) /\ UNCHANGED <<meta, vek>>
           \/ /\ file.has_turtle /\ parsed.ok /\ ~key.ok
              /\ Return(Fails(key.err)) /\ UNCHANGED <<meta, vek>>
           \/ /\ file.has_turtle /\ parsed.ok /\ key.ok
              /\ meta' = parsed.val
              /\ vek' = key.val
              /\ IF parsed.val.size >= SignBit THEN Return(Fails("panic"))
                 ELSE step' = "segment" /\ UNCHANGED outcome
        /\ UNCHANGED <<file, password, segment, chunk, index, bevy, out>>

\* Mutant: a segment that is not there is waited for.
LoadSegmentWaits ==
    LET key == <<DetectZipBase(file, meta.stream_arn), segment>>
    IN  /\ step = "segment"
        /\ Len(out) < meta.size
        /\ key \in DOMAIN file.index \cap DOMAIN file.bevy
        /\ index' = file.index[key]
        /\ bevy' = file.bevy[key]
        /\ chunk' = 0
        /\ step' = "chunk"
        /\ UNCHANGED <<file, password, meta, vek, segment, out, outcome>>

\* Mutant: a segment that is not there counts as one without chunks.
LoadSegmentSkips ==
    LET key == <<DetectZipBase(file, meta.stream_arn), segment>>
        there == key \in DOMAIN file.index \cap DOMAIN file.bevy
    IN  /\ step = "segment"
        /\ Len(out) < meta.size
        /\ index' = (IF there THEN file.index[key] ELSE <<>>)
        /\ bevy' = (IF there THEN file.bevy[key] ELSE <<>>)
        /\ chunk' = 0
        /\ step' = "chunk"
        /\ UNCHANGED <<file, password, meta, vek, segment, out, outcome>>

\* The head of the loop, while more is wanted.
LoadSegment ==
    LET key == <<DetectZipBase(file, meta.stream_arn), segment>>
    IN  /\ step = "segment"
        /\ Len(out) < meta.size
        /\ IF key \notin DOMAIN file.index \cap DOMAIN file.bevy
           THEN Return(Fails("Zip")) /\ UNCHANGED <<index, bevy, chunk>>
           ELSE IF file.index[key] = <<>>
           THEN Return(Fails("BadFormat")) /\ UNCHANGED <<index, bevy, chunk>>
           ELSE /\ index' = file.index[key]
                /\ bevy' = file.bevy[key]
                /\ chunk' = 0
                /\ step' = "chunk"
                /\ UNCHANGED outcome
        /\ UNCHANGED <<file, password, meta, vek, segment, out>>

Finished ==
    /\ step = "segment"
    /\ Len(out) >= meta.size
    /\ Return(Returns(out))
    /\ UNCHANGED <<file, password, meta, vek, segment, chunk, index, bevy, out>>

\* Mutant: segments are numbered as if all were as long as this one's index.
ChunkIdByIndex == segment * Len(index) + chunk

\* Number of the chunk in the whole stream: the tweak of its sector.
ChunkId == segment * meta.chunks_per_segment + chunk

\* Mutant: the output is not trimmed to the declared size.
TakeAll(sector) == sector

Take(sector) == Slice(sector, 0, Least(Len(sector), meta.size - Len(out)))

\* Mutant: every entry of the index is decrypted.
MoreInIndex == chunk < Len(index)

\* The inner loop goes on: the index has another entry and more is wanted.
MoreChunks == chunk < Len(index) /\ Len(out) < meta.size

\* Mutant: the last chunk of a bevy is taken for one beyond it.
BadChunkAtEnd(bounds) == ~bounds.ok \/ bounds.val.end >= Len(bevy) \/ ChunkId >= Word

\* The checks of a chunk, before its sector is deciphered.
BadChunk(bounds) == ~bounds.ok \/ bounds.val.end > Len(bevy) \/ ChunkId >= Word

DecryptChunk ==
    LET bounds == ChunkBoundsFromIndex(index, chunk)
        sector == Slice(bevy, bounds.val.start, bounds.val.end)
    IN  /\ step = "chunk"
        /\ MoreChunks
        /\ IF BadChunk(bounds)
           THEN Return(Fails("BadFormat")) /\ UNCHANGED <<chunk, out>>
           ELSE IF Len(sector) < CipherBlock
           THEN Return(Fails("panic")) /\ UNCHANGED <<chunk, out>>
           ELSE /\ out' = out \o Take(Decipher(vek, ChunkId, sector))
                /\ chunk' = chunk + 1
                /\ UNCHANGED <<step, outcome>>
        /\ UNCHANGED <<file, password, meta, vek, segment, index, bevy>>

NextSegment ==
    /\ step = "chunk"
    /\ ~MoreChunks
    /\ IF segment + 1 >= Word
       THEN Return(Fails("BadFormat")) /\ UNCHANGED segment
       ELSE segment' = segment + 1 /\ step' = "segment" /\ UNCHANGED outcome
    /\ UNCHANGED <<file, password, meta, vek, chunk, index, bevy, out>>

\* The medium fails under open, the turtle, or an entry of a segment.
Fault ==
    /\ step \in {"open", "segment"}
    /\ step = "segment" => Len(out) < meta.size
    /\ Return(Fails("Io"))
    /\ UNCHANGED <<file, password, meta, vek, segment, chunk, index, bevy, out>>

Advance == Open \/ LoadSegment \/ Finished \/ DecryptChunk \/ NextSegment

Next == Advance \/ Fault

Spec == Init /\ [][Next]_vars

-----------------------------------------------------------------------------
(* Properties                                                              *)

TypeOK ==
    /\ file \in Files /\ password \in Passwords
    /\ step \in {"open", "segment", "chunk", "done"}
    /\ meta.size \in U64s /\ meta.chunks_per_segment \in U64s \ {0}
    /\ vek \in Nat
    /\ segment \in U64s
    /\ chunk \in 0 .. Len(index)
    /\ index \in Seq(IndexEntry) /\ bevy \in Seq(Byte)
    /\ out \in Seq(Byte) /\ Len(out) <= meta.size
    /\ outcome.res \in {"running", "ok", "Zip", "Io", "BadFormat", "Encrypted", "panic"}
    /\ (outcome.res = "running") = (step # "done")

\* What an imager that follows the standard writes: sectors of the declared
\* chunk size, numbered through all segments, each deciphering to its piece of
\* the content, and full segments but for the last.
SectorSize(f) == FirstOf(f.turtle, WithWord(f.turtle, "aff4:EncryptedStream")).chunkSize

WellEncrypted(f, m, v) ==
    LET cs == SectorSize(f)
        cps == m.chunks_per_segment
        count == (m.size + cs - 1) \div cs
        Entry(c) == f.index[<<DetectZipBase(f, m.stream_arn), c \div cps>>]
        Bevy(c) == f.bevy[<<DetectZipBase(f, m.stream_arn), c \div cps>>]
    IN  /\ Len(f.plain) = m.size
        /\ cs >= CipherBlock
        /\ \A c \in 0 .. count - 1 :
              LET k == c % cps
                  e == Entry(c)[k + 1]
                  s == Slice(Bevy(c), e.offset, e.offset + e.length)
                  d == Decipher(v, c, s)
              IN  /\ <<DetectZipBase(f, m.stream_arn), c \div cps>> \in DOMAIN f.index \cap DOMAIN f.bevy
                  /\ k < Len(Entry(c))
                  /\ c \div cps < (count - 1) \div cps => Len(Entry(c)) = cps
                  /\ e.length = cs
                  /\ e.offset + e.length <= Len(Bevy(c))
                  /\ e.offset + e.length < Word
                  /\ \A i \in 1 .. cs : c * cs + i <= m.size => d[i] = f.plain[c * cs + i]

\* While it runs, decrypt_reader has produced the content up to the chunk it
\* is at: no chunk is skipped, taken twice, or deciphered under the number of
\* another one, across segments.
PlainSoFar ==
    step \in {"segment", "chunk"} /\ WellEncrypted(file, meta, vek) =>
        LET done == segment * meta.chunks_per_segment + (IF step = "chunk" THEN chunk ELSE 0)
        IN  out = SubSeq(file.plain, 1, Least(done * SectorSize(file), meta.size))

\* README.md: a wrong password errors and never yields garbage.  What
\* decrypt_reader returns is as long as declared, of whatever container, it is the
\* content of a well-encrypted one, and only the imager's password gets it.
DecryptsExactly ==
    outcome.res = "ok" =>
        /\ password = file.secret
        /\ Len(outcome.bytes) = meta.size
        /\ WellEncrypted(file, meta, vek) => outcome.bytes = file.plain

\* In its loop decrypt_reader never refuses a well-encrypted stream and never
\* panics on it: no bound, tweak or segment number that such a stream leads to is
\* one that the checks of the loop turn away, the last sector and the entries of the
\* index behind it included.
GoodStreamAccepted ==
    [][(step \in {"segment", "chunk"} /\ WellEncrypted(file, meta, vek))
          => outcome'.res \in {"running", "ok", "Io"}]_vars

\* However much content is declared, decrypt_reader goes through no more segments
\* than the archive has: it gets past none that is not there.
LoopBounded == segment <= Cardinality(DOMAIN file.index)

\* The loop ends, also on segments that produce less than declared: a segment
\* that is not there stops it.
DecryptEnds == step \in {"segment", "chunk"} ~> step = "done"

\* A well-encrypted stream, opened with its password, is decrypted; only the
\* medium can keep it from that.
DecryptSucceeds ==
    step = "segment" /\ WellEncrypted(file, meta, vek) ~> outcome.res \in {"ok", "Io"}

\* The invariant stated for fuzzing (fuzz_decrypt.rs): it may return Ok or Err
\* and must not panic.
MustNotPanic == outcome.res # "panic"
=============================================================================
