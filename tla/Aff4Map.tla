------------------------------ MODULE Aff4Map ------------------------------
(***************************************************************************)
(* core/src/map.rs: the AFF4 Map.  /map entries redirect ranges of the     *)
(* virtual disk to target streams that the /idx sidecar names.             *)
(*                                                                         *)
(* A /map file is the sequence of its whole 28-byte entries.  An /idx line *)
(* is a record: its text (only compared with the stream's ARN, "" for a    *)
(* blank line), the fragment its text ends with, and the value of the two  *)
(* hex digits that follow SymbolicStream (NoHex when there are none).      *)
(***************************************************************************)
EXTENDS U64, Selections, Sequences, FiniteSets

CONSTANT TileSize   \* 1 MiB, scaled

ASSUME TileAssumption == TileSize \in Nat \ {0}

Byte == 0 .. 255
NoHex == -1

MapEntry == [map_offset : U64s, length : U64s, target_offset : U64s, target_id : Nat]

IdxLine == [text : STRING,
            fragment : {"Zero", "UnknownData", "UnreadableData", "SymbolicStream", "other"},
            hex : Byte \cup {NoHex}]

TargetKind == [tag : {"ImageStream", "Fill", "UnknownTile", "UnreadableTile", "Unknown"},
               byte : Byte]

Fill(b) == [tag |-> "Fill", byte |-> b]
ImageStreamKind == [tag |-> "ImageStream", byte |-> 0]
UnknownKind == [tag |-> "Unknown", byte |-> 0]
UnknownTile == [tag |-> "UnknownTile", byte |-> 0]
UnreadableTile == [tag |-> "UnreadableTile", byte |-> 0]

----------------------------------------------------------------------------
\* "UNKNOWN" and "UNREADABLEDATA" in ASCII.
Seed(kind) ==
    IF kind = UnknownTile
    THEN <<85, 78, 75, 78, 79, 87, 78>>
    ELSE <<85, 78, 82, 69, 65, 68, 65, 66, 76, 69, 68, 65, 84, 65>>

\* The tile restarts at every TileSize boundary, which no seed length divides.
ByteAt(kind, p) == Seed(kind)[((p % TileSize) % Len(Seed(kind))) + 1]

----------------------------------------------------------------------------
\* Drop the empty entries, then a stable sort on map_offset.
Kept(raw) == {i \in 1 .. Len(raw) : raw[i].length > 0}

\* Mutant: the entries stay in file order.
FileOrder(raw) == Ascending(Kept(raw))

SortedBefore(raw) ==
    {p \in Kept(raw) \X Kept(raw) :
        \/ raw[p[1]].map_offset < raw[p[2]].map_offset
        \/ raw[p[1]].map_offset = raw[p[2]].map_offset /\ p[1] < p[2]}

ParseMapEntries(raw) == Arrange(raw, Kept(raw), SortedBefore(raw))

ClassifyTarget(line, image_stream_arn) ==
    IF line.text = image_stream_arn THEN ImageStreamKind
    ELSE IF line.fragment = "Zero" THEN Fill(0)
    ELSE IF line.fragment = "UnknownData" THEN UnknownTile
    ELSE IF line.fragment = "UnreadableData" THEN UnreadableTile
    ELSE IF line.fragment = "SymbolicStream" /\ line.hex # NoHex THEN Fill(line.hex)
    ELSE UnknownKind

\* Blank lines of /idx take no target_id.
NonBlank(idx) == {i \in 1 .. Len(idx) : idx[i].text # ""}

ParseIdx(idx, image_stream_arn) ==
    LET lines == Arrange(idx, NonBlank(idx), Ascending(NonBlank(idx)))
    IN  [i \in 1 .. Cardinality(NonBlank(idx)) |-> ClassifyTarget(lines[i], image_stream_arn)]

----------------------------------------------------------------------------
\* A LoadedMap m has fields entries, targets and gap_default.

KindOf(m, e) ==
    IF e.target_id + 1 \in 1 .. Len(m.targets) THEN m.targets[e.target_id + 1] ELSE UnknownKind

\* slice::partition_point of `map_offset <= pos`: the number of leading
\* entries that start at or before pos.
PartitionPoint(entries, pos) ==
    CHOOSE k \in 0 .. Len(entries) :
        /\ \A i \in 1 .. k : entries[i].map_offset <= pos
        /\ k < Len(entries) => entries[k + 1].map_offset > pos

Region(kind, target_offset, bytes_in_region) ==
    [panics |-> FALSE, kind |-> kind, target_offset |-> target_offset,
     bytes_in_region |-> bytes_in_region]

RegionPanic == [Region(UnknownKind, 0, 0) EXCEPT !.panics = TRUE]

InGap(m, idx, virtual_pos, virtual_size) ==
    LET gap_end == IF idx < Len(m.entries) THEN m.entries[idx + 1].map_offset ELSE virtual_size
    IN  Region(m.gap_default, 0, Greatest(SaturatingSub(gap_end, virtual_pos), 1))

InEntry(m, e, virtual_pos) ==
    LET offset_in_entry == virtual_pos - e.map_offset
    IN  IF AddPanics(e.target_offset, offset_in_entry)
        THEN RegionPanic
        ELSE Region(KindOf(m, e), Add64(e.target_offset, offset_in_entry),
                    e.length - offset_in_entry)

\* Only the last entry that starts at or before virtual_pos is looked at.
Resolve(m, virtual_pos, virtual_size) ==
    LET idx == PartitionPoint(m.entries, virtual_pos)
        e == m.entries[idx]
    IN  IF idx = 0 THEN InGap(m, idx, virtual_pos, virtual_size)
        ELSE IF AddPanics(e.map_offset, e.length) THEN RegionPanic
        ELSE IF virtual_pos < Add64(e.map_offset, e.length) THEN InEntry(m, e, virtual_pos)
        ELSE InGap(m, idx, virtual_pos, virtual_size)

\* Positions of the entries whose target is aff4:UnreadableData, and their
\* (offset, length) pairs in map order.
Unreadable(m) ==
    {i \in 1 .. Len(m.entries) : KindOf(m, m.entries[i]) = UnreadableTile}

UnreadableRegions(m) ==
    LET es == Arrange(m.entries, Unreadable(m), Ascending(Unreadable(m)))
    IN  [k \in 1 .. Cardinality(Unreadable(m)) |-> <<es[k].map_offset, es[k].length>>]
============================================================================
