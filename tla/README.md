# TLA+ verification of aff4-forensic

`aff4-forensic` is a Rust workspace that reads AFF4 v1 evidence containers: ZIP
archives that hold a disk image in compressed chunks, an optional map that lays
the stored bytes out over a virtual disk, and a turtle file with the metadata.
This directory models the reader (`core`), the adapter that shares it between
threads (`core/src/vfs.rs`), the metadata parser down to its text, the decryption and the
logical containers, the integrity audit (`forensic`) and the test fixtures, checks them with TLC on small containers, and
proves the main results for every container with TLAPS.  Paths below are relative to the repository.

Contents: 1 the system, 2 modules and the code, 3 how the data is abstracted,
4 the runs, 5 bounds, 6 fairness and stopping, 7 the proofs, 8 what disagrees
with the docs, 9 what is not modelled, 10 plan.

## 1. The system

| Component | Code | State it keeps | Operations |
|---|---|---|---|
| Map | `core/src/map.rs` | sorted entries, target kinds by id, gap default; fixed after open | `parse_map_entries`, `parse_idx`, `resolve`, `unreadable_regions`, `Tile::byte_at` |
| ImageStream chunk layer | `core/src/lib.rs` `read_chunk`, `chunk_bounds_from_index` | none: it re-reads the bevy index and bevy on every call | chunk number to decoded bytes |
| Aff4Reader | `core/src/lib.rs` | geometry, map, cursor `pos` | `open`, `open_reader`, `Read::read`, `Seek::seek`, `read_image_stream_content`, accessors |
| Metadata | `core/src/meta.rs` | none | `parse_turtle`, `parse_logical_files`, `parse_encrypted_meta`, over `normalize_turtle`, `extract_iri`, `extract_pred_u64`, .. |
| Test fixtures | `core/src/testutil.rs` | none | `test_aff4`, `test_aff4_map`, `test_aff4_lz4`, `test_aff4_encrypted`, `test_aff4_logical`, `test_aff4_with_geometry` |
| Aff4Source | `core/src/vfs.rs` | a mutex around one reader, the recorded length | `len`, `read_at` from any thread |
| Image audit | `forensic/src/lib.rs` | the findings and hashers of one call | `audit_image`, `verify_image_hashes` |
| container_kind | `core/src/lib.rs` | none | classifies a container |
| AFF4-Logical | `core/src/logical.rs` | the archive, plain or decrypted in memory, and the file list | `open`, `open_encrypted`, `files`, `read_file` |
| Encrypted streams | `core/src/crypto.rs` | none | `decrypt_reader`, `derive_vek` |
| External | crates `zip-core`, `flate2`, `snap`, `lz4_flex`, `aes`, `xts-mode`, digests | | called, not part of this repository |

How they interact.  `open_reader` reads `information.turtle`, has the metadata
parser find the stream (and map), loads `/map` and `/idx`, and builds a reader.
A `read` asks the map where the cursor's byte lives (`resolve`), and serves the
read from a fill, a tile, or the chunk layer, at most one region or chunk per
call.  `Aff4Source` serialises threads over one such reader: it locks, seeks, and
calls `read` in a loop.  The audit opens a reader, lists its unreadable regions,
streams all chunks past the map into the hashers, and compares.  A logical
container may sit inside a decrypted stream.  Nothing is written to disk: there
is no persistence, no crash recovery, no network and no timer.

What is hard about it:

* the shared cursor of `Aff4Source`: many reader calls make up one `read_at`,
  which may fail or panic half-way and leaves the cursor anywhere;
* the arithmetic at the joints: the end of a map region, of a chunk, of a
  segment, of the disk and of the buffer, the seam of the tile, and `u64`
  against `i64` at 2^63;
* unchecked additions: a debug build panics (and poisons the mutex), a release
  build wraps;
* two orders of trust: what a producer that follows the standard writes, and
  what a damaged container may hold, which the reader must survive;
* a medium that fails for a while, under any read;
* metadata that is matched as text, where the document is a graph: an answer may come
  from another node, from inside a literal, or be cut at the wrong delimiter.

What makes each component correct:

* Map: the lookup agrees with "the entry that covers the position", for every
  byte of the region it returns; entries come in any order; blank `/idx` lines
  take no number.
* Chunk layer: decoding, sparse chunks and padding give exactly the content.
* Aff4Reader: a read delivers the virtual disk at the cursor, never nothing
  before the end; a failing call moves nothing; a seek lands where it was asked to
  or changes nothing; a copy ends.
* Aff4Source: `read_at` behaves as if it had no cursor, always returns, and a
  panic does not wedge it nor leave another reader behind the mutex.
* Audit: one finding per unreadable region and per diverging digest, from the
  whole content only, and it ends.
* Decryption: the output is the content, of the declared size, for the right
  password, or an error; the loop ends on every container.
* Metadata: whatever the order of the nodes and the layout of the text, what the
  parsers learn is what the graph says.
* Logical containers: `read_file` returns the file its entry describes, however
  the names of the files resemble one another; `container_kind` calls what opens as a
  collection Logical, and nothing that decrypts Disk.

`PROJECT.json` lists every hazard with its line and the properties that catch it;
those without a property say why.

## 2. Modules and the code

| Module | Models | Kind |
|---|---|---|
| `U64` | `u64`/`i64` arithmetic, casts, panicking or wrapping `+` | operators |
| `Aff4Map` | `map.rs` | operators |
| `Selections` | filters and stable sorts of a `Vec` (the standard library's) | operators |
| `Metadata` | `meta.rs`: `parse_turtle` over the answers of blocks | operators |
| `VolumeMetadata` | `meta.rs`: `parse_logical_files`, `parse_encrypted_meta` over such answers | operators |
| `TurtleText` | `meta.rs`: how the answers are found in the text | operators |
| `TurtleGraph` | not code of the crate: the graph of nodes, how a producer writes it, what it says | external, reference definitions |
| `TurtleDocument` | a producer that writes a document, and the parsers that read it | state machine |
| `Fixtures` | `testutil.rs` | operators |
| `ImageStream` | the chunk layer of `lib.rs` | operators |
| `ReaderOps` | `detect_zip_base`, `open_reader`, one `read`, one `seek` | operators |
| `DiskContent` | not code: what the disk's bytes are, which containers are well formed, what an opened reader satisfies | reference definitions |
| `VirtualDisk` | not code: an image as its client sees it | abstract specification |
| `PositionedRead` | not code: a source as its threads see it | abstract specification |
| `Aff4Reader` | a reader driven by a client | state machine |
| `Aff4Source` | `vfs.rs` | state machine |
| `ImageAudit` | `forensic/src/lib.rs` and `read_image_stream_content` | state machine |
| `EncryptedStream` | `crypto.rs` | state machine |
| `LogicalContainer` | `logical.rs`, `container_kind`; decrypts with `EncryptedStream` | state machine |
| `MCImages`, `MCAff4Reader`, `MCAff4Source`, `MCImageAudit`, `MCEncryptedStream`, `MCLogicalContainer`, `MCTurtleDocument` | small containers and inputs | model checking |
| `ReaderProofs`, `ReadProofs`, `Aff4ReaderProofs`, `Aff4SourceProofs`, `ImageAuditProofs`, `EncryptedStreamProofs`, `LogicalContainerProofs`, `TurtleProofs` | | proofs |

`U64, Selections <- Aff4Map <- ImageStream (with Metadata) <- ReaderOps <- DiskContent`, and
the reader, the source and the audit extend `DiskContent`; `EncryptedStream`
extends `ReaderOps` (it shares the chunk bounds and `detect_zip_base` with the reader)
and `LogicalContainer` extends it.  `Metadata <- VolumeMetadata <- TurtleText <- TurtleGraph`,
which `TurtleDocument` extends, and `Fixtures` together with `ReaderOps`.  The pure part of the crate is
written as operators because the crate itself is: everything below `Aff4Reader`
takes `&self` or owned values and returns a result.  The operators are shared by
the machines, so a change to `Resolve` is seen by the reader, the source
and the audit alike.

**Aff4Reader.**  `file` is the container, `rd` the reader without its cursor,
`pos` the cursor, `last` the last call with its arguments and result.  `Open` is
`open_reader`, `Read(len)` is `Read::read` with a buffer of `len` bytes,
`ReadFault(len)` the same call when the archive underneath returns an I/O error,
`Seek(whence, n)` is `Seek::seek`.  `disk`, the content the container stands
for, is computed once from `DiskContent` and read by no action.

**Aff4Source.**  `holder` and `poisoned` are the mutex; per thread, `pc` tells
where it stands in `read_at`, `call` what it was asked, `buf` what it has got,
`answer` what its last finished call returned.  `ReadAt` is the call up to the lock
(it returns at once when there is nothing to read), `Lock` the acquisition (a
poisoned mutex is taken all the same, as `PoisonError::into_inner` does),
`SeekTo` the seek, `ReadMore` one turn of the loop, `ReadFault` that turn when
the medium fails, `Done` the exit of the loop.  Each of these is one atomic step
because the reader is only touched under the lock; between any two of them other
threads may run.  `Finish` drops the guard, on every way out; a panic poisons.
`rd` is the reader behind the mutex but for its cursor, `pos`; `TypeOK` says that it stays
the one `open_reader` made of the file.

**ImageAudit.**  `stage` says how far `audit_image` is: `Open`, `Collect` (the
unreadable regions, and the jobs: hashes with a hasher), `Feed` (one chunk of
`read_image_stream_content` into all hashers), `FeedEnd`, `Compare` (one job),
`CompareEnd`.  `FeedFault` is a failing medium: the call returns the error and the
findings collected so far go with it.

**EncryptedStream.**  `step` says where `decrypt_reader` is: `Open` is everything up
to the loop (metadata, key, the allocation of the output), `LoadSegment` the head of the
outer loop, `DecryptChunk` one turn of the inner loop, `NextSegment` its end,
`Finished` the return.  `out` is the plaintext so far; `produced` in the code is its
length.  `Fault` is a failing medium.

**LogicalContainer.**  `phase` is "closed" before an open, `volume` the archive that was
opened, `files` the entries.  `OpenPlain` is `open`; `OpenEncrypted` starts a
decryption, `Decrypt` is a step of it, `OpenInner` opens what came out as a volume of
its own; `ReadFile` is `read_file`.  `ContainerKind` is an operator: the code keeps no
state between the probe and the opening.

**TurtleDocument.**  `nodes` is what has been described so far, `text` what has been written
of it, `style` the layout that this producer keeps to.  `WriteNode` appends a node.  The
code takes no step here: its parsers are the operators `ParseTurtle`, `ParseLogicalFiles`
and `ParseEncryptedMeta` over `blocks`, the blocks that the code finds in the text
(`VolumeBlocks(text)`), and the properties compare what they return with what the same
parser makes of `graph` (`Described` of each node: its own statements, answering to its own
subject only), or compare the blocks with the nodes themselves (`Shows`).  `DiskAnswers` has the fields that `parse_turtle` asks for, `VolumeAnswers`
those that the other two ask for as well.  The code splits a block into its tokens for each
predicate it looks up; the model keeps the tokens beside the text of the block.

**Fixtures.**  A fixture is the text that the template makes, read by `DiskBlocks` or
`VolumeBlocks`, and the ZIP entries written beside it.  The runs `reader` and `logical`
open them like any other container, so these runs go from the text to the bytes a client gets.

Definitions under a comment that begins with `Mutant:` model no code.  They are
plausible mistakes in the definition that follows them, and each property of a
passing run is known to be violated when one of them takes its place.

## 3. How the data is abstracted

* `Word` stands for 2^64 and `TileSize` for 1 MiB.  They are constants, so the
  proofs hold for the real values and the model checker can reach the edges.
  `usize` is taken as 64 bits wide.
* A turtle is a sequence of blocks, and a block the record of the answers the
  parser gets from its text: which marker words and ARNs it contains, the numbers
  and IRIs after the predicates.  `TurtleText` finds these answers in a text; the
  other modules take them as given.
* A text is a sequence of symbols: the characters that the code looks for (white space,
  `;`, `.`, `,`, quotes and angle brackets) and the words between them.  An IRI or a name
  is one word or several, so one can begin with another.  A numeral, a prefixed
  name and the digits of a hex literal are one word each: numbers are not cut in the
  middle, and a word does not begin with digits unless it is a numeral.  Hex digits stand for
  what they encode (`Hex`), in either case, with an even number of them or not.
* A ZIP base is a naming convention and an ARN.  `detect_zip_base` looks for a
  name that begins with the candidate followed by `/`; an ARN that continues
  another one after a slash is not distinguished from it in the code, and does
  not occur here.
* A codec is a partial function from stored to decoded bytes, one per
  compression method: any function at all, also one that decodes to too few or
  too many bytes.
* A digest is the content it was taken over: digests are assumed to be free of
  collisions.  Hex formatting, the texts, notes and severities of findings are
  left out.
* An I/O error of the archive can happen at any read that opens an entry.
* Errors keep their variant in the operators; the machines keep "err" or "panic".
  An error of `open` and one of `read` are both "err" to the client.

* A cipher is an operator (`Decipher`) of the volume key, the tweak and the sector
  that keeps the sector's length.  The one for model checking is a toy in which the
  key, the tweak and each byte matter.  XTS panics on a sector below one cipher block
  (`CipherBlock`).  Key derivation is its inputs, and a wrapped key opens under the key
  it was wrapped under only: the integrity check of RFC 3394.
* The name of a ZIP entry of a logical container is a sequence of characters, since
  `resolve_segment` cuts and compares names; the encoded scheme `aff4%3A%2F%2F`
  counts as one.  The decrypted bytes are mapped to the volume they are an archive of
  (`Volumes`).

Well-formed images (`WellFormed`) are those an imager that follows the standard
writes: map entries that neither overlap nor leave the address space nor their
target, every chunk present and decoding to its piece of the content, possibly
padded, a stream as long as declared, and a disk that ends below 2^63: `seek` casts
through `i64` and refuses positions from there on, so the upper part of a larger disk
can only be reached by reading up to it (`README.md:93` gives the limit as 9.2 EiB; 2^63
bytes are 8 EiB, or 9.2 EB).
Properties about content hold for these.  Type correctness, termination and
exclusion hold for every container.

## 4. The runs

| Run | Question | Result |
|---|---|---|
| `reader` | any sequence of open, read, failing read and seek, release build, over well-formed, refused and malformed containers and the test fixtures: is an opened reader sound (`TypeOK`), does a read of a well-formed image return the disk (`ReadsDeliverDisk`), does the reader implement `VirtualDisk` on such images (`IsVirtualDisk`), are fixtures read as documented (`FixturesReadBack`), does a client that reads on reach the end, through failures (`CopyReachesEnd`)? | holds |
| `reader_short_chunk` | does a read before the end return something (`NoEarlyEnd`)? | violated, section 8 |
| `reader_nested_map` | is a byte that one entry covers read from that entry (`CoveredReadsTarget`)? | violated, section 8 |
| `source` | two threads, debug build (panics and poisoning): `TypeOK`, `CursorFollowsHolder`; does the source implement `PositionedRead` on readable images (`IsPositionedRead`); does every step bring the call of one thread nearer to its end and leave those of the others as they are (`CallsAdvance`); does every `read_at` return (`EveryCallReturns`), also on short chunks, overflowing maps and disks beyond 2^63? | holds |
| `audit` | over every mix of hashes, unreadable regions, lost and short chunks: has every supported hash, and no other, a job (`TypeOK`); do the hashers see the content (`HashersSeeContent`), are the findings those there are (`FindingsExact`), does the audit end (`AuditEnds`)? | holds |
| `audit_empty_result` | does an empty result mean everything reconciled (`EmptyMeansReconciled`)? | violated, section 8 |
| `decrypt_huge_size` | does `decrypt_reader` never panic (`MustNotPanic`)? | violated, section 8 |
| `logical` | opening plain and encrypted containers of files, with the right and a wrong password, and reading from them.  The decryption: `TypeOK`, `PlainSoFar`, `DecryptsExactly`; is a well-encrypted stream never refused (`GoodStreamAccepted`), does the loop get past no segment that is not there (`LoopBounded`); `DecryptEnds`, `DecryptSucceeds`.  The files: `LTypeOK`; does `read_file` return the entry's own file (`FilesAreTheirOwn`); is what opens as a collection called Logical by `container_kind`, and nothing that decrypts Disk (`KindFitsOpener`)? | holds |
| `logical_prefixed` | are files stored under a prefix found (`PrefixedFilesFound`)? | violated, section 8 |
| `turtle` | documents of streams, maps, files, encrypted streams and key bags, in any order and style: are the answers well typed (`TypeOK`), has each node a block that answers as it does (`BlocksAreTheNodes`), do the three parsers learn what the graph says (`DiskMetaIsTheGraphs`, `FilesAreTheGraphs`, `EncryptedMetaIsTheGraphs`)? | holds |
| `turtle_names` | is a file's name returned as it was recorded (`NamesAsRecorded`)? | violated, section 8 |
| `turtle_dependent` | is the stream that a map is given the one it names (`DependentStreamIsNamed`)? | violated, section 8 |

The two abstract specifications say what the detailed ones are for.
`VirtualDisk` has no map, no chunks and no archive: a content, a cursor, and the
contract of `Read` and `Seek`.  `PositionedRead` has no cursor and no lock:
every answer depends on the content and the call alone.  `IsPositionedRead` is
the linearizability of `read_at` over a fixed content: whatever the interleaving,
a call that returns has all the bytes it asked for up to the end of the disk.
The refinement mapping shows the abstract specification only the images that it can promise
something about, and takes any other for one that was refused (the reader) or is never asked
(the source).  For the reader these are the well-formed ones; for the source the
`Readable` ones, which include `OverflowMap`, where a debug build panics: an unwinding call
returns nothing, and the calls after it are right.

The properties of `turtle` have the premise `Separated`: no literal has a character or a
word that the parsers take for one of the document, and no stream's or key bag's ARN is
part of that of another.  The runs `turtle_names` and `turtle_dependent` show what
happens without it.

## 5. Bounds, and why they are enough

* `Word = 64`: 2^63 is 32.  Disks are 5 to 10 bytes, and one is 36 bytes, beyond
  2^63.  The seek arguments {0, 4, 8, 31, 32, 63} and {-32, -3, 0, 2, 31} contain
  both extremes of `u64` and `i64`, both sides of 2^63, positions inside and
  behind a disk, and sums that overflow `i64`.
* Chunks of 2 bytes, 2 chunks to a segment, a content of 5 bytes: three chunks
  in two segments, the last one padded, short or exact.  Among them are a
  compressed, a raw and a sparse chunk, and one that decodes short.
* The tile is 10 bytes long: no seed length (7 and 14) divides it, so the seed
  restarts at its end as it does at 1 MiB, and a mapped range straddles that seam.
* Maps of up to five entries: unsorted, with an empty entry, gaps before, between
  and behind, the stream twice, every target kind, a target id without an `/idx`
  line, an `/idx` with blank lines and bad hex.
* Read sizes {0, 1, 3, 12}: nothing, a byte, more than a chunk, more than a disk.
  The cursor can reach every position of a disk with them.
* Two threads with two calls each (`MaxCalls`), of three kinds (in one chunk, across regions
  and segments and past the end, at a position `seek` cannot take): the lock is
  symmetric, a third thread adds waiters but no new order between the cursor's
  users, and the second call meets what the first one left: a moved cursor, a
  poisoned mutex.  The theorems about `Aff4Source`
  remove the bound for all but liveness.
* Encrypted streams: three sectors of two bytes in two segments or in one, stored out
  of order, the last padded, with more index entries than content; every refusal of
  the metadata; a segment missing, empty, short or long for its number, and chunks
  outside of their bevy or below a cipher block.  The iteration count is limited to 16.
* Logical containers: every non-empty set of five ARNs whose paths end in one another,
  under each of the three naming conventions, and the mixtures of markers.
* Documents: up to four of nine nodes, the two files and three key bags included, which puts
  every node before, after and between any two others; three styles that attach or detach
  each delimiter and write integers plain or typed.  The map needs two other nodes at most,
  an encrypted stream one.  Numbers reach beyond `Word`.  Two of the key bags do not open.
* Fixtures: a chunk has two bytes (`CHUNK_SIZE`), data shorter, as long or longer.
* Runs in a debug build (`OverflowChecks = TRUE`) and in a release build
  (`FALSE`): panics matter to the source, wrap-around to the reader.

No constant is declared symmetric: threads could be, but liveness is checked.

## 6. Fairness, and runs that stop

* `CopyReachesEnd` has its fairness as a premise: from some point on the client only
  reads, as `std::io::copy` does, and reads that are not refused by the medium keep happening.
  If the medium failed every time no copy could end.  Nothing is assumed about the reader.
* `FairSpec` of `Aff4Source` has weak fairness on each thread's own steps: the
  scheduler runs a thread that can run.  For the lock this is weaker than what a
  fair mutex gives; it suffices because each thread makes `MaxCalls` calls and so
  cannot overtake a waiter for ever.  Nobody has to call `read_at`, and no medium
  has to fail.
* `FairSpec` of `ImageAudit`: the one thread of the audit runs on.  A failure ends
  it, too, so no assumption about the medium is needed.
* `LFairSpec` of `LogicalContainer`: `decrypt_reader` is one call of one thread, which runs
  on until it returns; a failure of the medium makes it return.

`CHECK_DEADLOCK FALSE` is set where the system stops: threads that have made their calls,
an audit or a decryption that has returned, a logical container that was refused, a
document with its last node.  It is
on for the reader, whose client can always go on.

## 7. The proofs

Every theorem holds for every value of the constants: any word size, any set of
containers, any buffers, any number of threads, files, chunks and segments.

| Theorem | Says | Module |
|---|---|---|
| `ReaderTypeCorrect` | `Aff4Reader!Spec => []TypeOK` | `Aff4ReaderProofs` |
| `ReaderDeliversDisk` | `Aff4Reader!Spec => []ReadsDeliverDisk` | `Aff4ReaderProofs` |
| `ReaderIsVirtualDisk` | `Aff4Reader!Spec => IsVirtualDisk`: the reader implements `VirtualDisk` | `Aff4ReaderProofs` |
| `ReadCorrect` | one read below the end of a well-formed image succeeds with 1 to `len` bytes of the disk | `ReadProofs` |
| `ResolveCorrect` | binary search and gap rule find the right target for every byte of the region returned, without overflow, on a well-formed map | `ReadProofs` |
| `OpenEstablishesReader` | opening refuses a container or returns a sound reader | `ReaderProofs` |
| `SourceTypeCorrect` | `Aff4Source!Spec => []TypeOK`, with the reader being that of the file | `Aff4SourceProofs` |
| `SourceCursorFollowsHolder` | `Aff4Source!Spec => []CursorFollowsHolder` | `Aff4SourceProofs` |
| `SourceIsPositionedRead` | `Aff4Source!Spec => IsPositionedRead`: `read_at` implements `PositionedRead` | `Aff4SourceProofs` |
| `SourceCallsAdvance` | `Aff4Source!Spec => CallsAdvance` | `Aff4SourceProofs` |
| `AuditTypeCorrect` | `ImageAudit!Spec => []TypeOK`, with a job for each supported hash and no other | `ImageAuditProofs` |
| `AuditHashesContent` | `ImageAudit!Spec => []HashersSeeContent` | `ImageAuditProofs` |
| `AuditFindingsExact` | `ImageAudit!Spec => []FindingsExact` | `ImageAuditProofs` |
| `DecryptTypeCorrect` | `EncryptedStream!Spec => []TypeOK` | `EncryptedStreamProofs` |
| `DecryptFollowsContent` | `EncryptedStream!Spec => []PlainSoFar` | `EncryptedStreamProofs` |
| `DecryptReturnsContent` | `EncryptedStream!Spec => []DecryptsExactly` | `EncryptedStreamProofs` |
| `DecryptAcceptsGood` | `EncryptedStream!Spec => GoodStreamAccepted` | `EncryptedStreamProofs` |
| `DecryptBounded` | `EncryptedStream!Spec => []LoopBounded` | `EncryptedStreamProofs` |
| `LogicalRunsDecryption` | `LSpec => EncryptedStream!Spec`: the container decrypts as `decrypt_reader` does | `LogicalContainerProofs` |
| `LogicalTypeCorrect` | `LSpec => []LTypeOK` | `LogicalContainerProofs` |
| `LogicalFilesAreTheirOwn` | `LSpec => []FilesAreTheirOwn` | `LogicalContainerProofs` |
| `LogicalKindFits` | `LSpec => []KindFitsOpener` | `LogicalContainerProofs` |
| `ParsersLearnTheGraph` | `TurtleDocument!Spec => [](BlocksAreTheNodes => ..)`: where each node has its block, the three parsers learn what the graph says | `TurtleProofs` |
| `NamesHoldWhereShown` | such documents, if `Separated`, have neither of the two faults of section 8 | `TurtleProofs` |

Assumptions, all named and evaluated by the runs: `WordAssumption` (the word is
positive and even), `TileAssumption` (the tile is not empty), `CodecAssumption`
(codecs decode to bytes), `ClientAssumption`, `ThreadAssumption` and `FilesAssumption` (files are
containers in the sense of `IsContainer`, which allows any entries, numbers and
bytes; arguments have their Rust types; the free mutex is no thread),
`CipherAssumption` (XTS keeps the length of a sector), `SealedAssumption` (containers have
finitely many entries, numbers, index entries and bytes where the code reads them, and the key was wrapped under no
password but the imager's), `VolumeAssumption` (entries of an archive have names).

The argument, bottom up:

1. `ReaderProofs`, first part.  A strict total order gives every element of a finite set of
   positions exactly one rank (`EveryRankTaken`), so `Arrange` lists each position
   once and in order (`ArrangePlaces`): the parsed map is sorted (`ParsedEntriesSorted`), and
   `partition_point` is defined on it (`PartitionPointExists`).
2. `ReaderProofs`, second part.  Every operator keeps the Rust types, for every container: a
   cursor never leaves `u64`, a cast from a non-negative `i64` is exact, a read
   returns bytes and leaves the cursor within the disk.  `OpenEstablishesReader`
   gives `IsReader`, which is what the divisions and subtractions below need:
   chunk sizes are not zero, entries are not empty, the map is sorted, and without a map
   the disk is as long as the stream.
3. `ReadProofs`.  On well-stored streams: the position in a stream determines its
   chunk and offset and the piece cut from it is the content
   (`ChunkBytesCorrect`); a position in an entry is covered by this entry and no
   other, and one outside of the entry found is covered by none
   (`EntryCorrect`, `GapCorrect`).  `ResolveSound` and `ReadSound` need `SoundMap` and
   `SoundImage` only: entries apart and inside their targets, and no addition that
   wraps unnoticed.  They say that a read is right unless it panics.  On a well-formed image
   nothing overflows, which gives `ResolveCorrect` and `ReadCorrect`; on the readable images
   of the source a debug build may panic, but is never wrong.
4. `Aff4ReaderProofs`.  `TypeOK` is inductive given step 2.  `ReadsDeliverDisk`
   is not: it needs to know that the reader is the one the container opens to,
   since `disk` is computed from the container.  `ReaderOfFile` says this (open
   implies `rd` is what `OpenReader(file)` returns, and `disk` is `DiskOf(file)`).
   The refinement also needs `CursorInRange`.  Then each step of the reader is a step of
   `VirtualDisk` under the mapping: `Open` to opening the disk or to a refusal, `Read` by
   `ReadCorrect`, `Seek` by the exactness of the casts below 2^63 (`CastExact`), a failing
   call to a failure that changes nothing.
5. `Aff4SourceProofs`.  `CursorFollowsHolder` needs `LockInv`: a thread past the
   lock is the holder, so no two are (`MutexHeld`), and starts with an empty
   buffer (`BufferFresh`).  Given these, only the holder moves the cursor, and by
   what it appends to its buffer.  That the wrapped reader is that of the file is part of
   `TypeOK`; the refinement adds `WithinDisk` (who waits or reads started below the end) and
   `BufferOfDisk` (what a call has got is the piece of the disk behind its offset).  `ReadAt` maps to
   `Ask`, or to `AskAndAnswer` when it returns at once; the step with which a call leaves the lock,
   by return, error or panic, maps to `Answer`; the lock, the seek and the turns of the loop are stutters.
   `CallsAdvance` has two parts.  `StepOfOne`: a step of a thread changes `pc`, `call`, `buf` and
   `answer` at that thread only.  `StepsFall` compares `StepsLeft` before and after it: that it
   is a number needs that no more has been read than was wanted, and that it falls in
   `ReadMore`, that a read that does not end the loop returns a byte at least.
6. `ImageAuditProofs`.  `ContentSeen`: what has been fed is, per stage, nothing, the
   content up to the chunk at hand, or all of it.  `FindingsSoFar`: the findings are the
   regions' and then those of the jobs compared so far.  `Selects` says "these elements of a
   sequence, each once and in order" through the positions they came from, so the
   composition of the filter by algorithm and the loop over digests needs no induction:
   a selection of a selection is one.
7. `EncryptedStreamProofs`.  `PlainSoFar` is not inductive.  It needs `Unlocked` (in the
   loops, the key is one of the container's and the password is the imager's),
   and `SegmentLoaded` (the index and bevy at hand are those of the segment, and on a
   well-encrypted stream no more chunks of a segment are taken than are declared for it), so that
   `ChunkId` is the number that the imager used.
   `LoopBounded` needs `SegmentsThere`: all segments before the current one have an index, so
   their numbers inject into the entries of the index.  `GoodStreamAccepted` needs `FirstWanted`
   (on a well-encrypted stream a segment that was loaded begins below the declared end): a segment or chunk
   that is still wanted is then one that the imager wrote (`AtSegment`, `GoodChunk`), which
   every check of the loop lets through.
8. `LogicalContainerProofs`.  A step of the container is a step of the decryption or leaves it
   alone, hence `LogicalRunsDecryption`, and the theorems of step 7 hold in it.  `LInv`: the files listed are
   those that `OpenLogical` makes of the volume (`Opened`), what was read is the content of an entry with the
   name of the listed segment (`ReadOfSegment`), and what is being decrypted has the marker
   of an encrypted stream (`DecryptsEncrypted`).
   `FilesAreTheirOwn` then rests on `SegmentIsItsOwn`: if each file has an entry under
   one of its three candidate names, no other file's candidates meet it (`NamesApart`).
   This takes more than distinct ARNs: a file whose path begins with the encoded scheme
   `aff4%3A%2F%2F` can look like another file's encoded name.  `Consistent`,
   the premise of the property, therefore asks that no path spells the scheme (`SchemeFree`) and that
   the recorded digests are of what was stored (`DigestsCover`); so it does of the volumes of the run.
9. `TurtleProofs`.  The parsers search: for the first block with a word, for the first that
   contains an ARN as well, for all with a word.  `Shows` relates blocks to a graph by the places of
   the nodes, with anything unmarked before, between and behind.  Places keep the order, so the first
   block of a kind is at the place of the first node of it (`FirstAtPlace`), and a filter returns the
   blocks at the places of the nodes it would return (`FilteredAtPlaces`, which compares
   ranks as step 1 does).  Hence each parser returns the same of both, for any number of blocks.

Only model-checked:

* liveness, which TLAPS does not prove (nor `ENABLED`): `CopyReachesEnd`, `EveryCallReturns`,
  `AuditEnds`, `DecryptEnds`, `DecryptSucceeds`.  Their safety part is proved but for the audit: a call of
  the source can only take as many steps as `StepsLeft` says (`CallsAdvance`), the decryption can only
  go through the segments there are (`LoopBounded`), and on a good stream it can end only well or by
  the medium (`GoodStreamAccepted`); that every read below the end of a well-formed image moves the
  cursor is part of `ReaderIsVirtualDisk`.  That a step is always possible, and taken, is left to TLC;
* `BlocksAreTheNodes` and `TurtleDocument!TypeOK`, the properties of the text: `Spell` and `ToString` make strings of
  which the provers know nothing, not even that two numbers have different numerals, and splitting and joining
  texts is recursion over them.  `DiskMetaIsTheGraphs`, `FilesAreTheGraphs` and `EncryptedMetaIsTheGraphs`
  are proved from the first of these (`ParsersLearnTheGraph`), and checked by TLC without it;
* `FixturesReadBack`, a statement about six given containers, which evaluation decides.

No operator is declared RECURSIVE, and none that is proved about recurses: sorting and filtering
are stated by rank (`Arrange`), the binary search by what it finds (`PartitionPoint`), and where the
code loops over reads or chunks the machines take a step per turn, so the proofs need no induction over data.

## 8. Where the code and its documentation disagree

Each of these is a run that is expected to find its property violated.

* `reader_short_chunk`: `core/src/lib.rs:429` calls an empty ImageStream read
  unreachable.  A chunk that decodes to fewer bytes than the chunk size, other than
  the last one, reaches it: `read` returns `Ok(0)` in the middle of the disk, which
  a client takes for its end, without an error.  (`vfs.rs:68` repeats the claim; the
  source's loop ends all the same, with a short answer.)
* `reader_nested_map`: `core/src/map.rs:172` says the gap default is for
  positions no entry covers.  Only the last entry that starts at or before the
  position is looked at, so behind the end of an entry nested in a longer one, the
  longer one is not seen.  The standard forbids overlap; the parser does not refuse it.
* `audit_empty_result`: `forensic/src/lib.rs:89` says an empty result means
  every declared hash reconciled.  A hash with an algorithm the build has no hasher for
  is dropped, and an image whose only hash diverges this way gives an empty result.

* `decrypt_huge_size`: `fuzz/fuzz_targets/fuzz_decrypt.rs:4` states that decryption must
  not panic.  `crypto.rs:70` allocates the declared size, and from 2^63 on `Vec` panics
  with a capacity overflow, before a byte is read.  (A sector below 16 bytes makes
  XTS panic as well; the run `logical` has such a container.)
* `logical_prefixed`: `logical.rs:160` says the suffix match handles container-relative
  prefixes.  It takes the longest entry name that ends in the path tail, without regard to
  a boundary: with files `a` and `x/a` stored as `p/a` and `p/x/a`, reading `a` returns
  the content of `p/x/a`.

* `turtle_names`: `logical.rs:26` says `original_file_name` is the path as recorded.
  `normalize_turtle` (`meta.rs:56`) blanks semicolons, tabs and line breaks in the whole
  document, literals included: the name `a;b` comes back as `a b`.
* `turtle_dependent`: `meta.rs:112` says the block found is that of the ImageStream that
  the map depends on.  It is the first that contains the ARN anywhere: with the streams
  `aff4://s2` and `aff4://s`, in this order, a map of `aff4://s` gets the size, chunk
  geometry and bevies of `aff4://s2`.

## 9. What is not modelled

* The accessors (`files()`, `virtual_disk_size()` and the like), which return a field.
* The ciphers, the key derivation and the key wrap: other crates.
* Characters within a word: digits followed by letters, a predicate that begins with the
  name of another, white space other than blank, tab and line ends, escapes in literals.
* Documents outside of the three styles: a comma between digests without white space around
  it, or a final dot attached to the last value, which Turtle allows and the splitting
  does not see.  A literal that spells a marker.  They are listed as hazards.
* ZIP, codecs and digests are other crates; they appear as what this code uses of them.
* Memory: a declared chunk size or entry of exabytes is a number here, and its
  allocation, which may abort the process, is not modelled, but for the panic of the
  decryption's output capacity.
* One panic of a debug build: `chunk_bounds_from_index` (`lib.rs:475`) adds 12 to an offset
  without a check, which overflows for the one chunk number right below 2^64 / 12.  The model
  gives the error that a release build returns, and that either returns for every other
  number behind the index.  No container of the runs has segments of so many chunks.
* Fuzz targets, build and release files.

## 10. Plan

Done, in this order: `U64`, `Selections`, `Aff4Map`, `Metadata` (blocks), `ImageStream`,
`ReaderOps`, `DiskContent`, `Aff4Reader` with `VirtualDisk`, `Aff4Source` with
`PositionedRead`, `ImageAudit`, `EncryptedStream`, `LogicalContainer`; the proofs of
section 7; `VolumeMetadata`, `TurtleText`, `TurtleGraph`, `TurtleDocument`, `Fixtures`.
No component of the crate is left to model.

The safety properties of all the machines but `TurtleDocument` are proved, and of that one what
follows from `BlocksAreTheNodes`.  What remains to TLC is what the provers have no means for: fairness, and the
text below the blocks.
