---------------------------- MODULE MCAff4Source ----------------------------
(* Aff4Source: two threads over the containers of MCImages. *)
EXTENDS Aff4Source, MCImages

Req(offset, len) == [offset |-> offset, len |-> len]

\* Inside one chunk, across regions and segments, at and past the end, and at a
\* position Seek cannot take.
MCRequests == {Req(0, 3), Req(2, 7), Req(35, 1)}

SharedFiles == {DirectPacked, MappedGaps, OverflowMap, ShortChunk, HugeMap}
=============================================================================
