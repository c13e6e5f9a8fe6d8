------------------------- MODULE MCLogicalContainer -------------------------
(***************************************************************************)
(* LogicalContainer on volumes of up to five files, whose names end in one *)
(* another, in every naming convention; and on the encrypted containers    *)
(* of MCEncryptedStream; and on the fixtures of the tests.                 *)
(***************************************************************************)
EXTENDS LogicalContainer, MCEncryptedStream, Fixtures

Text(authority, path) == [authority |-> authority, path |-> path]
MCSpelled ==
    ("v/a" :> Text(<<"v">>, <<"/", "a">>)) @@ ("v/x/a" :> Text(<<"v">>, <<"/", "x", "/", "a">>))
      @@ ("v" :> Text(<<"v">>, <<>>)) @@ ("u/v" :> Text(<<"u">>, <<"/", "v">>))
      @@ ("v//a" :> Text(<<"v">>, <<"/", "/", "a">>))
      @@ ("aff4://issen-test-logical-volume/dir/a.txt" :> Text(<<"volume">>, <<"/", "dir", "/", "a.txt">>))

MCHex == [w \in {"00112233445566778899aabbccddeeff", "deadbeef", "900150"} |->
             [even |-> TRUE,
              means |-> CASE w = "900150" -> "abc" [] w = "deadbeef" -> [kek |-> Kek0, vek |-> VolumeKey]
                          [] OTHER -> "salt"]]

ArnSets == SUBSET {"v/a", "v/x/a", "v", "u/v", "v//a"} \ {{}}

Metafile == [name |-> <<"information.turtle">>, content |-> "turtle"]

DiskBlock == [Blank EXCEPT !.words = {"ImageStream"}, !.arns = {"S"}, !.iri = "S", !.size = 5,
                           !.chunkSize = 2, !.chunksInSegment = 2]

FileNode(arn) ==
    [Blank EXCEPT !.words = {"aff4:FileImage"}, !.arns = {arn}, !.iri = arn,
                  !.hashes = <<[algorithm |-> "MD5", of |-> arn]>>]

\* The archive of an imager that stores each file under name(arn).
VolumeOf(arns, name(_)) ==
    [has_turtle |-> TRUE,
     turtle |-> SE!SetToSeq({FileNode(a) : a \in arns}),
     entries |-> <<Metafile>> \o SE!SetToSeq({[name |-> name(a), content |-> a] : a \in arns}),
     captured |-> [a \in arns |-> a]]

ByConvention(arns, c) == LET Name(a) == Candidates(a)[c] IN VolumeOf(arns, Name)
UnderPrefix(arns) == LET Name(a) == <<"p", "/">> \o TrimSlashes(PathTail(a)) IN VolumeOf(arns, Name)

\* As a container: the other fields are those of the decryption.
Plainly(v) == v @@ Sealed
Encrypting(f) == f @@ [entries |-> <<>>, captured |-> <<>>]

\* Disk images and encrypted streams beside the files, no files, no entry for
\* one, and a node without a subject.
Hybrid == Plainly([ByConvention({"v/a"}, 1) EXCEPT
                     !.turtle = <<DiskBlock, FileNode("v/a"), StreamBlock>>])
DiskAndFiles == Plainly([ByConvention({"v/a"}, 2) EXCEPT !.turtle = <<DiskBlock, FileNode("v/a")>>])
NoFiles == Plainly([ByConvention({"v/a"}, 1) EXCEPT !.turtle = <<>>])
LostFile == Plainly([ByConvention({"v/a", "v/x/a"}, 1) EXCEPT !.entries = <<Metafile>>])
Nameless == Plainly([ByConvention({"v/a"}, 1) EXCEPT !.turtle = <<FileNode(NoArn)>>])
NoTurtle == Plainly([ByConvention({"v/a"}, 1) EXCEPT !.has_turtle = FALSE])

\* What the sealed content of EncryptedStream is an archive of.
MCVolumes == Plain :> ByConvention({"v/a", "v/x/a"}, 3)

MCLogicalFiles ==
    {Plainly(ByConvention(arns, c)) : arns \in ArnSets, c \in 1 .. 3}
      \cup {Plainly(UnderPrefix({"v/a"})), Hybrid, DiskAndFiles, NoFiles, LostFile, Nameless, NoTurtle}
      \cup {Encrypting(f) : f \in MCCipherFiles}
      \cup {Plainly(TestAff4Logical(<<"dir", "/", "a.txt">>, "abc", 3, "900150")),
            Encrypting([Sealed EXCEPT !.turtle = VolumeBlocks(EncryptedTurtle)])}

PrefixedFiles == {Plainly(UnderPrefix(arns)) : arns \in {{"v/a"}, {"v/a", "v/x/a"}}}
=============================================================================
