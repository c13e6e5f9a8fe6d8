--------------------------- MODULE MCTurtleDocument ---------------------------
(***************************************************************************)
(* TurtleDocument on a disk image, a collection of files and an encrypted  *)
(* stream, alone and in one document, in every order.                      *)
(***************************************************************************)
EXTENDS TurtleDocument

\* Digests in either case, one with a digit too few, a salt, and a wrapped key.
Even(means) == [even |-> TRUE, means |-> means]
MCHex ==
    ("5d41402a" :> Even("hello")) @@ ("5D41402A" :> Even("hello")) @@ ("aaf4c61" :> [even |-> FALSE, means |-> "hello"])
      @@ ("0011" :> Even("salt")) @@ ("deadbeef" :> Even([kek |-> "kek", vek |-> 3]))

MCStyles ==
    { [link |-> <<" ", ";", " ">>, comma |-> <<" ", ",", " ">>, end |-> <<" ", ".", "\n">>, quoted |-> FALSE],
      [link |-> <<";", "\n", "\t">>, comma |-> <<",", " ">>, end |-> <<" ", ".", "\r", "\n", " ">>, quoted |-> TRUE],
      [link |-> <<"\t", ";", "\n">>, comma |-> <<",", "\n", "\t">>, end |-> <<"\n", ".", "\n">>, quoted |-> FALSE] }

Stream(iri, size, more) ==
    Node(iri, <<"aff4:ImageStream">>,
         << <<"aff4:size", Integer(size)>>, <<"aff4:chunkSize", Integer(2)>>,
            <<"aff4:chunksInSegment", Integer(4)>> >> \o more)

Hashed(first, second) == <<"aff4:hash", first, second>>

Inner == Stream(<<"aff4://s">>, 5,
                << Hashed(HashOf("5d41402a", "MD5"), HashOf("aaf4c61", "SHA1")),
                   <<"aff4:imageStreamHash", HashOf("0011", "MD5")>>,
                   <<"aff4:compressionMethod", Iri(<<"https://www.ietf.org/rfc/rfc1950.txt">>)>> >>)
Other == Stream(<<"aff4://t">>, 7, << <<"aff4:compressionMethod", PrefixedName("aff4:NullCompressor")>> >>)
Image == Node(<<"aff4://m">>, <<"aff4:Map">>,
              << <<"aff4:dependentStream", Iri(<<"aff4://s">>)>>, <<"aff4:size", Integer(12)>>,
                 <<"aff4:mapGapDefaultStream", PrefixedName("aff4:SymbolicStreamFF")>> >>)

File(iri, props) == Node(iri, <<"aff4:FileImage", "aff4:Image">>, props)
Named(symbols) == <<"aff4:originalFileName", Literal(symbols)>>

Dream == File(<<"aff4://v", "/", "a">>,
              << Named(<<"my", " ", "dream", ".", "txt">>), <<"aff4:lastWritten", Literal(<<"2018-09-17">>)>>,
                 <<"aff4:size", Integer(5)>>, Hashed(HashOf("5D41402A", "SHA1"), HashOf("5d41402a", "MD5")) >>)
\* No name, and more bytes than a u64 counts.
Huge == File(<<"aff4://v", "/", "b">>, << <<"aff4:size", Integer(Word)>>, <<"aff4:lastWritten", Literal(<<"now">>)>> >>)

Sealed ==
    Node(<<"aff4://e">>, <<"aff4:EncryptedStream">>,
         << <<"aff4:chunkSize", Integer(2)>>, <<"aff4:chunksInSegment", Integer(2)>>, <<"aff4:size", Integer(5)>>,
            <<"aff4:keyBag", Iri(<<"aff4://e", "/keybag">>)>> >>)
KeyBag(types, salt) ==
    Node(<<"aff4://e", "/keybag">>, types,
         << <<"aff4:iterations", Integer(9)>>, <<"aff4:salt", Digits(salt)>>, <<"aff4:keySizeInBytes", Integer(32)>>,
            <<"aff4:wrappedKey", Digits("deadbeef")>> >>)

MCNodes == { Inner, Other, Image, Dream, Huge, Sealed, KeyBag(<<"aff4:PasswordWrappedKeyBag">>, "0011"),
             KeyBag(<<"aff4:PasswordWrappedKeyBag">>, "aaf4c61"), KeyBag(<<"aff4:CertEncryptedKeyBag">>, "0011") }

\* A name that is legal on any file system, and one stream named like another.
OddNames == {Dream, File(<<"aff4://v", "/", "c">>, << Named(<<"a", ";", "b">>), <<"aff4:size", Integer(1)>> >>)}
AlikeStreams == {Inner, Image, Stream(<<"aff4://s", "2">>, 9, <<>>)}
=============================================================================
