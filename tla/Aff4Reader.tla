----------------------------- MODULE Aff4Reader -----------------------------
(***************************************************************************)
(* core/src/lib.rs: an Aff4Reader as its client drives it.  The file is    *)
(* fixed; open, read and seek are the calls; the cursor `pos` is the only  *)
(* part of an opened reader that changes.                                  *)
(***************************************************************************)
EXTENDS DiskContent

CONSTANTS Files,       \* containers a client may open
          ReadSizes,   \* buffer lengths it reads with
          SeekStarts,  \* arguments of SeekFrom::Start (u64)
          SeekDeltas   \* arguments of SeekFrom::End and SeekFrom::Current (i64)

ASSUME ClientAssumption ==
    /\ \A f \in Files : IsContainer(f)
    /\ ReadSizes \subseteq Nat
    /\ SeekStarts \subseteq U64s
    /\ SeekDeltas \subseteq -SignBit .. SignBit - 1

VARIABLES file,    \* the container
          disk,    \* the virtual disk it stands for: fixed, and no code reads it
          phase,   \* "closed", "open" or "refused" (the last open failed)
          rd,      \* the opened reader, but for its cursor
          pos,     \* its cursor
          last     \* the last call, its arguments and its result

vars == <<file, disk, phase, rd, pos, last>>

NoReader == [mapped |-> FALSE]

Call(op, whence, from, arg, o) ==
    [op |-> op, whence |-> whence, from |-> from, arg |-> arg,
     res |-> o.res, bytes |-> o.bytes]

Init ==
    /\ file \in Files
    /\ disk = DiskOf(file)
    /\ phase = "closed"
    /\ rd = NoReader
    /\ pos = 0
    /\ last = Call("none", "Start", 0, 0, Returns(<<>>))

\* Aff4Reader::open_reader.  A client may drop its reader and open the file
\* again at any time.
Open ==
    LET o == OpenReader(file)
    IN  /\ phase' = IF o.ok THEN "open" ELSE "refused"
        /\ rd' = IF o.ok THEN o.val ELSE NoReader
        /\ pos' = 0
        /\ last' = Call("open", "Start", 0, 0, IF o.ok THEN Returns(<<>>) ELSE Fails("err"))
        /\ UNCHANGED <<file, disk>>

\* Read::read with a buffer of len bytes.
Read(len) ==
    /\ phase = "open"
    /\ LET o == ReadOutcome(rd, pos, len)
       IN  /\ pos' = pos + Len(o.bytes)
           /\ last' = Call("read", "Start", pos, len, o)
    /\ UNCHANGED <<file, disk, phase, rd>>

\* The same call when the medium under the archive fails.
ReadFault(len) ==
    /\ phase = "open"
    /\ TouchesArchive(rd, pos, len)
    /\ last' = Call("read", "Start", pos, len, Fails("err"))
    /\ UNCHANGED <<file, disk, phase, rd, pos>>

\* Seek::seek.
Seek(whence, n) ==
    /\ phase = "open"
    /\ LET o == SeekOutcome(rd, pos, whence, n)
       IN  /\ pos' = o.pos
           /\ last' = Call("seek", whence, pos, n, Fails(o.res))
    /\ UNCHANGED <<file, disk, phase, rd>>

Next ==
    \/ Open
    \/ \E len \in ReadSizes : Read(len) \/ ReadFault(len)
    \/ \E n \in SeekStarts : Seek("Start", n)
    \/ \E n \in SeekDeltas : Seek("End", n) \/ Seek("Current", n)

Spec == Init /\ [][Next]_vars
-----------------------------------------------------------------------------
(* Properties                                                              *)

\* Opening only lets a reader through whose geometry, tables and sorted map
\* the arithmetic of read and seek can rely on, and the cursor stays a u64.
TypeOK ==
    /\ file \in Files
    /\ phase \in {"closed", "open", "refused"}
    /\ phase = "open" => IsReader(rd)
    /\ pos \in U64s
    /\ last.bytes \in Seq(Byte)

\* Read::read over a well-formed image returns the bytes of the virtual disk
\* at the cursor, however the client cuts its reads and wherever it seeks,
\* and returns none only at the end of the disk.
ReadsDeliverDisk ==
    phase = "open" /\ WellFormed(rd, file.plain) /\ last.op = "read" /\ last.res = "ok" =>
        /\ last.bytes = DiskBytes(disk, last.from, Len(last.bytes))
        /\ Len(last.bytes) <= last.arg
        /\ last.bytes = <<>> => last.arg = 0 \/ last.from >= rd.virtual_size

\* An image that is open is one a disk is promised of.
Promised == phase = "open" => WellFormed(rd, file.plain)

\* A client that from some point on only reads (std::io::copy) and is not refused
\* by the medium for ever gets to the end of a well-formed image.
Reading == last'.op = "read" /\ last'.arg > 0

CopyReachesEnd ==
    /\ <>[][Reading]_vars
    /\ []<><<Reading /\ last'.res = "ok">>_vars
    => <>[](phase = "open" /\ Promised => pos >= rd.virtual_size)

\* The reader is a VirtualDisk as long as a well-formed image is open: Read and
\* Seek of the crate keep its contract, and a failing call changes nothing.  Any
\* other image counts as refused.
Disk == INSTANCE VirtualDisk WITH
            Limit <- SignBit, content <- disk,
            mounted <- (phase = "open" /\ Promised),
            cursor <- (IF Promised THEN pos ELSE 0),
            answer <- (IF Promised THEN last ELSE Call("open", "Start", 0, 0, Fails("err")))

IsVirtualDisk == Disk!Spec

\* The comment of Read::read on its empty ImageStream read (lib.rs): a region
\* is non-empty and the offset in bounds, so the read returns something.
NoEarlyEnd ==
    last.op = "read" /\ last.res = "ok" /\ last.arg > 0 /\ last.from < rd.virtual_size
        => last.bytes # <<>>

\* The doc of resolve (map.rs): the gap default is for positions no entry
\* covers.  So a byte that one entry alone covers is the byte of its target.
CoveredReadsTarget ==
    phase = "open" /\ rd.mapped /\ last.op = "read" /\ last.res = "ok" /\ last.bytes # <<>> =>
        \A i \in 1 .. Len(rd.loaded_map.entries) :
            LET e == rd.loaded_map.entries[i]
                kind == KindOf(rd.loaded_map, e)
            IN  (/\ Covers(e, last.from)
                 /\ EndOf(e) < Word
                 /\ kind # ImageStreamKind
                 /\ \A j \in 1 .. Len(rd.loaded_map.entries) :
                       Covers(rd.loaded_map.entries[j], last.from) => j = i)
                => last.bytes[1] = TargetByte(kind, file.plain,
                                              e.target_offset + (last.from - e.map_offset))
=============================================================================
