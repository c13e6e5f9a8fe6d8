---------------------------- MODULE VolumeMetadata ----------------------------
(***************************************************************************)
(* core/src/meta.rs: what information.turtle says of a collection of files *)
(* (parse_logical_files) and of an encrypted stream (parse_encrypted_meta).*)
(*                                                                         *)
(* Over those of Metadata, a block that these ask has                      *)
(*   name, lastWritten   the literal after that predicate, Missing when    *)
(*                       there is none;                                    *)
(*   keyBag              an IRI or NoArn;                                  *)
(*   iterations, keySize NoNumber when missing;                            *)
(*   salt                NoSalt when missing or not hex;                   *)
(*   wrappedKey          [hex, kek, vek]: the key vek wrapped under kek.   *)
(***************************************************************************)
EXTENDS Metadata, Selections

CONSTANT IterationLimit   \* first iteration count that is no u32 (2^32)

ASSUME IterationAssumption == IterationLimit \in Nat

NoSalt == ""
Missing == [ok |-> FALSE]

\* One LogicalFileMeta for each FileImage node, in order.  A file without a
\* size counts as empty, one without a name goes by its ARN.
ParseLogicalFiles(blocks) ==
    LET about == WithWord(blocks, "aff4:FileImage")
        nodes == Arrange(blocks, about, Ascending(about))
    IN  IF \E i \in 1 .. Len(nodes) : nodes[i].iri = NoArn THEN Err("BadFormat")
        ELSE Ok([i \in 1 .. Len(nodes) |->
                    LET b == nodes[i]
                    IN  [arn |-> b.iri,
                         original_file_name |-> IF b.name.ok THEN b.name.val ELSE b.iri,
                         size |-> IF b.size = NoNumber THEN 0 ELSE b.size,
                         hashes |-> b.hashes,
                         last_written |-> b.lastWritten]])

\* Block records that the keybag search may find: they contain its ARN.
KeyBagBlocks(blocks, arn) == WithArn(blocks, arn) \cap WithWord(blocks, "KeyBag")

UsableKeyBag(k) ==
    /\ k.iterations # NoNumber /\ k.iterations < IterationLimit
    /\ k.keySize # NoNumber
    /\ k.salt # NoSalt
    /\ k.wrappedKey.hex

ParseEncryptedMeta(blocks) ==
    LET streams == WithWord(blocks, "aff4:EncryptedStream")
        s == FirstOf(blocks, streams)
        bags == KeyBagBlocks(blocks, s.keyBag)
        k == FirstOf(blocks, bags)
    IN  IF \/ streams = {}
           \/ s.iri = NoArn
           \/ s.chunkSize \in {NoNumber, 0}
           \/ s.chunksInSegment \in {NoNumber, 0}
           \/ s.size = NoNumber
           \/ s.keyBag = NoArn
           \/ bags = {}
        THEN Err("BadFormat")
        ELSE IF "PasswordWrappedKeyBag" \notin k.words THEN Err("Encrypted")
        ELSE IF ~UsableKeyBag(k) THEN Err("BadFormat")
        ELSE Ok([stream_arn |-> s.iri, chunks_per_segment |-> s.chunksInSegment, size |-> s.size,
                 salt |-> k.salt, iterations |-> k.iterations, key_size |-> k.keySize,
                 wrapped_key |-> k.wrappedKey])
=============================================================================
