---------------------------- MODULE MCAff4Reader ----------------------------
(* Aff4Reader on the containers of MCImages and on the test fixtures. *)
EXTENDS Aff4Reader, MCImages, Fixtures

MCReadSizes == {0, 1, 3, 12}
MCSeekStarts == {0, 4, 8, 31, 32, 63}
MCSeekDeltas == {-32, -3, 0, 2, 31}

MCHex == [w \in {"00112233445566778899aabbccddeeff", "deadbeef"} |->
             [even |-> TRUE, means |-> IF w = "deadbeef" THEN [kek |-> "kek", vek |-> 0] ELSE "salt"]]

\* What their comments say of the fixtures: the disk, or that it is refused.
Fixture(container, image) == [container |-> container, image |-> image]
FixtureDisks == { Fixture(TestAff4(<<7>>), ImageOf(<<7>>)), Fixture(TestAff4Lz4(<<1, 2, 9>>), ImageOf(<<1, 2>>)),
                  Fixture(TestAff4Map(<<3, 4>>), MapImageOf(<<3, 4>>)) }
FixtureRefusals == {TestAff4Encrypted, TestAff4WithGeometry(0, 1), TestAff4WithGeometry(2, 0)}

AllFiles == GoodFiles \cup ClosedFiles \cup BadFiles \cup {f.container : f \in FixtureDisks} \cup FixtureRefusals
ShortFiles == {ShortChunk}
NestedFiles == {NestedMap}

\* The comments of testutil.rs, from the text of the fixture to the bytes a client
\* gets: a fixture image opens and reads as its data, padded and behind the gap;
\* the encrypted one and those with no geometry are refused, never read.
FixturesReadBack ==
    /\ file \in FixtureRefusals => phase # "open"
    /\ \A f \in FixtureDisks : file = f.container =>
          /\ phase # "refused"
          /\ last.op = "read" /\ last.res = "ok" =>
                last.bytes = SubSeq(f.image, last.from + 1, last.from + Len(last.bytes))
          /\ last.op = "read" /\ last.res = "ok" /\ last.bytes = <<>> =>
                last.arg = 0 \/ last.from >= Len(f.image)
=============================================================================
