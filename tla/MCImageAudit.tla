---------------------------- MODULE MCImageAudit ----------------------------
(* ImageAudit: the containers of MCImages with every mix of stored hashes. *)
EXTENDS ImageAudit, MCImages

Hash(algorithm, of) == [algorithm |-> algorithm, of |-> of]
Other == <<1, 2, 0, 0, 6>>

HashLists ==
    { <<>>,
      <<Hash("MD5", Plain)>>,
      <<Hash("SHA1", Other), Hash("CRC32", Other), Hash("BLAKE2B", Plain), Hash("SHA512", Other)>>,
      <<Hash("CRC32", Other)>> }

\* The ImageStream block is the last one of every turtle.
WithHashes(f, hs) == [f EXCEPT !.turtle[Len(f.turtle)].hashes = hs]

\* Two unreadable regions, declared out of order.
TwoUnreadable ==
    Mapped(RawStream("encoded"), 10, {},
           <<E(8, 2, 0, 2), E(3, 5, 0, 0), E(0, 2, 4, 2), E(2, 0, 0, 2)>>)

MCFiles ==
    {WithHashes(f, hs) : f \in {DirectPacked, DirectRaw, TwoUnreadable, ShortChunk, LostBevy},
                         hs \in HashLists}
      \cup ClosedFiles
UncheckedFiles == {WithHashes(DirectRaw, <<Hash("CRC32", Other)>>)}
=============================================================================
