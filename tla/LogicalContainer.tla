-------------------------- MODULE LogicalContainer --------------------------
(***************************************************************************)
(* core/src/logical.rs: a container of files.  It is opened as it is, or   *)
(* its EncryptedStream is decrypted (EncryptedStream) and the plaintext    *)
(* opened as a volume of its own; then its files are read.                 *)
(*                                                                         *)
(* A volume is has_turtle, turtle, entries, the ZIP entries [name,         *)
(* content] in the order of file_names, and `captured`, by ARN what the    *)
(* imager stored; no code reads that.  A name is a sequence of characters, *)
(* the encoded scheme aff4%3A%2F%2F counting as one.                       *)
(***************************************************************************)
EXTENDS EncryptedStream

SE == INSTANCE SequencesExt

CONSTANTS Spelled,   \* an ARN's text after the scheme: [authority, path]
          Volumes    \* the bytes that are a ZIP archive, and its volume

Encoded == "aff4%3A%2F%2F"

\* The ARNs of the files of a volume.
Arns(v) == {v.turtle[i].iri : i \in {j \in 1 .. Len(v.turtle) : "aff4:FileImage" \in v.turtle[j].words}}

\* Volumes: any turtle and any entries, but for entries without a name.
IsVolume(v) ==
    /\ Len(v.turtle) \in Nat
    /\ Len(v.entries) \in Nat
    /\ \A k \in 1 .. Len(v.entries) : v.entries[k].name \in Seq(STRING) \ {<<>>}
    /\ \A a \in Arns(v) \ {NoArn} : {Spelled[a].authority, Spelled[a].path} \subseteq Seq(STRING)

ASSUME VolumeAssumption ==
    /\ \A f \in Files : IsVolume(f)
    /\ \A bytes \in DOMAIN Volumes : IsVolume(Volumes[bytes])

Width(name) == Len(name) + 12 * Cardinality({i \in 1 .. Len(name) : name[i] = Encoded})

NamesOf(v) == [i \in 1 .. Len(v.entries) |-> v.entries[i].name]

\* str::trim_start_matches('/')
TrimSlashes(s) ==
    LET rest == {i \in 1 .. Len(s) : s[i] # "/"}
    IN  IF rest = {} THEN <<>> ELSE SubSeq(s, CHOOSE i \in rest : \A j \in rest : i <= j, Len(s))

\* The path after the authority, with its slash.
PathTail(arn) ==
    IF Spelled[arn].path = <<>> THEN Spelled[arn].authority ELSE Spelled[arn].path

UrlencodeArn(arn) == <<Encoded>> \o Spelled[arn].authority \o Spelled[arn].path

\* Mutant: the name without the slash comes first.
BareFirst(arn) == <<TrimSlashes(PathTail(arn)), PathTail(arn), UrlencodeArn(arn)>>

Candidates(arn) == <<PathTail(arn), TrimSlashes(PathTail(arn)), UrlencodeArn(arn)>>

\* Entries whose name ends in the tail, and of them the last of the longest.
\* No entry's name is empty.
SuffixMatches(names, arn) ==
    {i \in 1 .. Len(names) :
        SE!Last(names[i]) # "/" /\ SE!IsSuffix(TrimSlashes(PathTail(arn)), names[i])}

LongestOf(names, S) ==
    names[CHOOSE i \in S : \A j \in S \ {i} :
            \/ Width(names[j]) < Width(names[i])
            \/ Width(names[j]) = Width(names[i]) /\ j < i]

\* Mutant: the tail is taken for the name of what it is the end of.
ResolveToTail(names, arn) ==
    LET exact == {c \in 1 .. 3 : \E i \in 1 .. Len(names) : names[i] = Candidates(arn)[c]}
    IN  IF exact # {} THEN Ok(Candidates(arn)[CHOOSE c \in exact : \A d \in exact : c <= d])
        ELSE IF SuffixMatches(names, arn) # {} THEN Ok(PathTail(arn))
        ELSE Err("BadFormat")

ResolveSegment(names, arn) ==
    LET exact == {c \in 1 .. 3 : \E i \in 1 .. Len(names) : names[i] = Candidates(arn)[c]}
    IN  IF exact # {} THEN Ok(Candidates(arn)[CHOOSE c \in exact : \A d \in exact : c <= d])
        ELSE IF SuffixMatches(names, arn) # {} THEN Ok(LongestOf(names, SuffixMatches(names, arn)))
        ELSE Err("BadFormat")

OpenLogical(v) ==
    LET parsed == ParseLogicalFiles(v.turtle)
        Segment(i) == ResolveSegment(NamesOf(v), parsed.val[i].arn)
    IN  IF ~v.has_turtle THEN Err("Zip")
        ELSE IF ~parsed.ok THEN parsed
        ELSE IF parsed.val = <<>> \/ \E i \in 1 .. Len(parsed.val) : ~Segment(i).ok
        THEN Err("BadFormat")
        ELSE Ok([i \in 1 .. Len(parsed.val) |->
                    LET p == parsed.val[i]
                    IN  [arn |-> p.arn, segment |-> Segment(i).val,
                         original_file_name |-> p.original_file_name, size |-> p.size,
                         hashes |-> p.hashes, last_written |-> p.last_written]])

\* Mutant: disk images are recognised first.
DiskFirst(v) ==
    LET disk == ParseTurtle(v.turtle)
        logical == ParseLogicalFiles(v.turtle)
    IN  IF ~v.has_turtle THEN Err("Zip")
        ELSE IF disk.ok THEN Ok("Disk")
        ELSE IF logical.ok /\ logical.val # <<>> THEN Ok("Logical")
        ELSE IF disk.err = "Encrypted" THEN Ok("Encrypted")
        ELSE disk

\* container_kind, of a container whose medium does not fail.
ContainerKind(v) ==
    LET logical == ParseLogicalFiles(v.turtle)
        disk == ParseTurtle(v.turtle)
    IN  IF ~v.has_turtle THEN Err("Zip")
        ELSE IF ~logical.ok THEN logical
        ELSE IF logical.val # <<>> THEN Ok("Logical")
        ELSE IF disk.ok THEN Ok("Disk")
        ELSE IF disk.err = "Encrypted" THEN Ok("Encrypted")
        ELSE disk

----------------------------------------------------------------------------
VARIABLES phase,    \* "closed", "decrypting", "open" or "refused"
          volume,   \* the archive that is open
          files,    \* its LogicalEntry's
          read      \* what the last read_file returned

container == <<phase, volume, files, read>>

NoContent == ""
NoRead == [file |-> 0, res |-> "none", content |-> NoContent]

LInit ==
    /\ Init
    /\ phase = "closed"
    /\ volume = [entries |-> <<>>]
    /\ files = <<>>
    /\ read = NoRead

\* LogicalContainer::open_reader of a volume.
OpenReaderOn(v) ==
    \E o \in {OpenLogical(v)} :
        IF o.ok THEN phase' = "open" /\ volume' = v /\ files' = o.val
        ELSE phase' = "refused" /\ UNCHANGED <<volume, files>>

Refuse == phase' = "refused" /\ UNCHANGED <<volume, files>>

\* LogicalContainer::open, on a medium that may fail.
OpenPlain ==
    /\ phase = "closed"
    /\ OpenReaderOn(file) \/ Refuse
    /\ UNCHANGED <<vars, read>>

\* LogicalContainer::open_encrypted: decrypt, and open what comes out.
OpenEncrypted ==
    /\ phase = "closed"
    /\ phase' = "decrypting"
    /\ UNCHANGED <<vars, volume, files, read>>

Decrypt ==
    /\ phase = "decrypting"
    /\ Advance
    /\ UNCHANGED container

DecryptFault ==
    /\ phase = "decrypting"
    /\ Fault
    /\ UNCHANGED container

OpenInner ==
    /\ phase = "decrypting"
    /\ step = "done"
    /\ IF outcome.res = "ok" /\ outcome.bytes \in DOMAIN Volumes
       THEN OpenReaderOn(Volumes[outcome.bytes])
       ELSE Refuse
    /\ UNCHANGED <<vars, read>>

\* LogicalContainer::read_file
ReadFile(i) ==
    /\ phase = "open"
    /\ \E k \in 1 .. Len(volume.entries) :
          /\ volume.entries[k].name = files[i].segment
          /\ read' = [file |-> i, res |-> "ok", content |-> volume.entries[k].content]
    /\ UNCHANGED <<vars, phase, volume, files>>

\* A decrypted volume is in memory; any other can fail.
ReadFails(i) ==
    /\ phase = "open"
    /\ step = "open"
    /\ read' = [file |-> i, res |-> "err", content |-> NoContent]
    /\ UNCHANGED <<vars, phase, volume, files>>

LNext ==
    \/ OpenPlain
    \/ OpenEncrypted
    \/ Decrypt
    \/ DecryptFault
    \/ OpenInner
    \/ \E i \in 1 .. Len(files) : ReadFile(i) \/ ReadFails(i)

LSpec == LInit /\ [][LNext]_<<vars, container>>

\* decrypt_reader is one call of one thread: it runs on until it returns.
LFairSpec == LSpec /\ WF_<<vars, container>>(Decrypt)

-----------------------------------------------------------------------------
(* Properties                                                              *)

\* A container that opens has files, and an entry of its archive for each.
LTypeOK ==
    /\ phase \in {"closed", "decrypting", "open", "refused"}
    /\ phase = "open" =>
          /\ files # <<>>
          /\ \A i \in 1 .. Len(files) :
                \E k \in 1 .. Len(volume.entries) : volume.entries[k].name = files[i].segment

\* The files are stored under name(arn), each under one of its own, and the
\* other entries (metadata) have none of the names that are looked for.
StoredUnder(v, name(_)) ==
    /\ \A a, b \in Arns(v) : a # b => name(a) # name(b)
    /\ \A a \in Arns(v) : \E k \in 1 .. Len(v.entries) :
          v.entries[k] = [name |-> name(a), content |-> v.captured[a]]
    /\ \A k, l \in 1 .. Len(v.entries) : v.entries[k].name = v.entries[l].name => k = l
    /\ \A k \in 1 .. Len(v.entries) :
          \/ \E a \in Arns(v) : v.entries[k].name = name(a)
          \/ \A a \in Arns(v), c \in 1 .. 3 : v.entries[k].name # Candidates(a)[c]

\* The digests that the metadata declares are those of what was stored.
DigestsCover(v) ==
    \A i \in 1 .. Len(v.turtle) :
        LET b == v.turtle[i]
        IN  "aff4:FileImage" \in b.words =>
                \A k \in 1 .. Len(b.hashes) : b.hashes[k].of = v.captured[b.iri]

\* No path spells the encoded scheme: one that begins with it would look like
\* the encoded name of another file.
SchemeFree(v) ==
    \A a \in Arns(v) : \A i \in 1 .. Len(PathTail(a)) : PathTail(a)[i] # Encoded

Consistent(v) ==
    /\ DigestsCover(v)
    /\ SchemeFree(v)
    /\ \E c \in 1 .. 3 : LET Name(a) == Candidates(a)[c] IN StoredUnder(v, Name)

OwnContent ==
    read.res = "ok" =>
        LET entry == files[read.file]
        IN  /\ read.content = volume.captured[entry.arn]
            /\ \A k \in 1 .. Len(entry.hashes) : entry.hashes[k].of = read.content

\* read_file returns the content of the file that the entry describes and its
\* digests cover, when all files are stored by one of the three naming conventions;
\* also when the name of one file is the end of another's, and in a volume that
\* was decrypted.
FilesAreTheirOwn == phase = "open" /\ Consistent(volume) => OwnContent

\* container_kind sends no collection and no encrypted stream to the wrong opener:
\* what opens as a collection of files is called one, and what decrypts is not called
\* a disk.  It does not say that nothing else is called Logical: a disk image with a
\* file node beside it is.
KindFitsOpener ==
    /\ phase = "open" /\ step = "open" => ContainerKind(file) = Ok("Logical")
    /\ step \in {"segment", "chunk"} => ContainerKind(file) # Ok("Disk")

\* The comment of resolve_segment (logical.rs): the suffix match handles
\* container-relative prefixes.  So files stored under one prefix are found.
Prefixed(v) ==
    \E k \in 1 .. Len(v.entries) : \E n \in 1 .. Len(v.entries[k].name) :
        LET Name(a) == SubSeq(v.entries[k].name, 1, n) \o TrimSlashes(PathTail(a))
        IN  v.entries[k].name[n] = "/" /\ StoredUnder(v, Name)

PrefixedFilesFound == phase = "open" /\ Prefixed(volume) => OwnContent
=============================================================================
