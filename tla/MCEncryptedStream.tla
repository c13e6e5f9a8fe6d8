-------------------------- MODULE MCEncryptedStream --------------------------
(***************************************************************************)
(* EncryptedStream on small containers: sectors and segments of two, five  *)
(* bytes of content, and a toy cipher whose output depends on the key, the *)
(* tweak and every byte.                                                   *)
(***************************************************************************)
EXTENDS EncryptedStream, MCImages

Pad(v, id) == 7 * v + 11 * id + 1
MCDecipher(v, id, s) == [i \in 1 .. Len(s) |-> (s[i] + 256 * 256 - Pad(v, id)) % 256]
Encipher(v, id, s) == [i \in 1 .. Len(s) |-> (s[i] + Pad(v, id)) % 256]

VolumeKey == 3
Kek0 == <<"right", "salt", 5>>

Blank == [words |-> {}, arns |-> {}, iri |-> NoArn, size |-> NoNumber, chunkSize |-> NoNumber,
          chunksInSegment |-> NoNumber, keyBag |-> NoArn, iterations |-> NoNumber,
          keySize |-> NoNumber, salt |-> NoSalt, dependentStream |-> NoArn, hashes |-> <<>>,
          name |-> Missing, lastWritten |-> Missing,
          wrappedKey |-> [hex |-> FALSE, kek |-> Kek0, vek |-> 0]]

StreamBlock ==
    [Blank EXCEPT !.words = {"aff4:EncryptedStream"}, !.arns = {"S", "K"}, !.iri = "S", !.size = 5,
                  !.chunkSize = 2, !.chunksInSegment = 2, !.keyBag = "K"]

KeyBagBlock ==
    [Blank EXCEPT !.words = {"KeyBag", "PasswordWrappedKeyBag"}, !.arns = {"K"}, !.iri = "K",
                  !.iterations = 5, !.keySize = 32, !.salt = "salt",
                  !.wrappedKey = [hex |-> TRUE, kek |-> Kek0, vek |-> VolumeKey]]

\* The three sectors of the content, the last one padded.
Sector(c) == Encipher(VolumeKey, c, <<<<1, 2>>, <<0, 0>>, <<5, 9>>>>[c + 1])

\* Chunks are stored out of order; the last segment has two entries too many.
Sealed ==
    [has_turtle |-> TRUE, turtle |-> <<KeyBagBlock, StreamBlock>>, secret |-> "right",
     plain |-> Plain, map |-> <<>>, idx |-> <<>>,
     index |-> (<<S("iri"), 0>> :> <<At(2, 2), At(0, 2)>>) @@
               (<<S("iri"), 1>> :> <<At(0, 2), At(0, 0), At(0, 0)>>),
     bevy |-> (<<S("iri"), 0>> :> (Sector(1) \o Sector(0))) @@ (<<S("iri"), 1>> :> Sector(2))]

WithStream(block) == [Sealed EXCEPT !.turtle = <<KeyBagBlock, block>>]
WithKeyBag(block) == [Sealed EXCEPT !.turtle = <<block, StreamBlock>>]
WithIndex(seg, entries) == [Sealed EXCEPT !.index[<<S("iri"), seg>>] = entries]

\* All of the content in one segment, and nothing to decrypt.
OneSegment ==
    [WithStream([StreamBlock EXCEPT !.chunksInSegment = 4]) EXCEPT
        !.index = <<S("bare"), 0>> :> <<At(0, 2), At(2, 2), At(4, 2)>>,
        !.bevy = <<S("bare"), 0>> :> (Sector(0) \o Sector(1) \o Sector(2))]
Nothing == [WithStream([StreamBlock EXCEPT !.size = 0]) EXCEPT !.plain = <<>>, !.index = <<>>, !.bevy = <<>>]

SealedFiles == {Sealed, OneSegment, Nothing}

\* Key bags that do not open, and metadata without one.
KeyFiles ==
    { WithKeyBag([KeyBagBlock EXCEPT !.keySize = 16]),
      WithKeyBag([KeyBagBlock EXCEPT !.words = {"KeyBag"}]),
      WithKeyBag([KeyBagBlock EXCEPT !.iterations = 16]),
      WithKeyBag([KeyBagBlock EXCEPT !.arns = {"L"}]),
      WithStream([StreamBlock EXCEPT !.chunkSize = 0]),
      [Sealed EXCEPT !.has_turtle = FALSE] }

\* A segment missing, empty, too short, too long for its number, with a chunk
\* beyond its bevy, or with less than a cipher block, or
\* with a number that is no u64.
DamagedFiles ==
    { [Sealed EXCEPT !.bevy = <<S("iri"), 0>> :> (Sector(1) \o Sector(0))],
      WithIndex(1, <<>>),
      WithIndex(0, <<At(2, 2)>>),
      WithIndex(0, <<At(2, 2), At(0, 2), At(0, 2)>>),
      WithIndex(0, <<At(2, 2), At(0, 63)>>),
      WithIndex(0, <<At(2, 2), At(3, 2)>>),
      WithIndex(0, <<At(2, 2), At(0, 0)>>),
      WithStream([StreamBlock EXCEPT !.size = 8, !.chunksInSegment = 63]) }

HugeSize == WithStream([StreamBlock EXCEPT !.size = 32])

MCPasswords == {"right", "wrong"}
MCCipherFiles == SealedFiles \cup KeyFiles \cup DamagedFiles \cup {HugeSize}
HugeFiles == {HugeSize}
=============================================================================
