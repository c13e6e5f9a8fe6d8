-------------------------- MODULE Aff4ReaderProofs --------------------------
(***************************************************************************)
(* Aff4Reader, for every set of containers and every client.               *)
(***************************************************************************)
EXTENDS Aff4Reader, ReadProofs

\* What a call leaves in `last`.
LEMMA CallBytes ==
    ASSUME NEW op, NEW whence, NEW from, NEW arg, NEW o
    PROVE  Call(op, whence, from, arg, o).bytes = o.bytes
BY DEF Call

\* Calls that deliver nothing.
LEMMA NoBytes ==
    /\ Returns(<<>>).bytes \in Seq(Byte)
    /\ \A res : Fails(res).bytes \in Seq(Byte)
<1>1. <<>> \in Seq(Byte)
  OBVIOUS
<1>2. Returns(<<>>).bytes = <<>> /\ \A res : Fails(res).bytes = <<>>
  BY DEF Returns, Fails
<1> QED BY <1>1, <1>2

\* Before anything is opened there is no reader and nothing has been read.
LEMMA TypeOKInit == Init => TypeOK
<1> SUFFICES ASSUME Init PROVE TypeOK
  OBVIOUS
<1>1. 0 \in U64s
  BY WordHalves DEF U64s
<1>2. last.bytes \in Seq(Byte)
  BY CallBytes, NoBytes DEF Init
<1>3. file \in Files /\ phase = "closed" /\ pos = 0
  BY DEF Init
<1> QED BY <1>1, <1>2, <1>3 DEF TypeOK

\* Every call keeps the reader as open_reader made it and the cursor a u64.
LEMMA TypeOKStep == TypeOK /\ [Next]_vars => TypeOK'
<1> SUFFICES ASSUME TypeOK, [Next]_vars PROVE TypeOK'
  OBVIOUS
<1> USE DEF TypeOK
<1>1. CASE Open
  <2> DEFINE o == OpenReader(file)
  <2>1. IsContainer(file)
    BY ClientAssumption
  <2>2. o.ok \in BOOLEAN /\ (o.ok => IsReader(o.val))
    BY <2>1, OpenEstablishesReader
  <2>3. 0 \in U64s
    BY WordHalves DEF U64s
  <2>4. last'.bytes = <<>>
    BY <1>1, CallBytes DEF Open, Returns, Fails
  <2>5. /\ phase' = IF o.ok THEN "open" ELSE "refused"
        /\ rd' = IF o.ok THEN o.val ELSE NoReader
        /\ pos' = 0
        /\ file' = file
    BY <1>1 DEF Open
  <2> HIDE DEF o
  <2> QED BY <2>2, <2>3, <2>4, <2>5
<1>2. ASSUME NEW len \in ReadSizes, Read(len) PROVE TypeOK'
  <2> DEFINE o == ReadOutcome(rd, pos, len)
  <2>1. IsReader(rd) /\ len \in Nat
    BY <1>2, ClientAssumption DEF Read
  <2>2. o.bytes \in Seq(Byte) /\ pos + Len(o.bytes) \in U64s
    BY <2>1, ReadTyped DEF IsAnswer
  <2>3. pos' = pos + Len(o.bytes) /\ last'.bytes = o.bytes
    BY <1>2, CallBytes DEF Read
  <2> HIDE DEF o
  <2> QED BY <1>2, <2>2, <2>3 DEF Read
<1>3. ASSUME NEW len \in ReadSizes, ReadFault(len) PROVE TypeOK'
  <2>1. last'.bytes \in Seq(Byte)
    BY <1>3, CallBytes, NoBytes DEF ReadFault
  <2>2. file' = file /\ phase' = phase /\ rd' = rd /\ pos' = pos
    BY <1>3 DEF ReadFault
  <2> QED BY <2>1, <2>2
<1>4. ASSUME NEW whence \in {"Start", "End", "Current"}, NEW n \in Int,
             whence = "Start" => n \in U64s, Seek(whence, n)
      PROVE  TypeOK'
  <2> DEFINE o == SeekOutcome(rd, pos, whence, n)
  <2>1. o.pos \in U64s
    BY <1>4, SeekTyped DEF Seek
  <2>2. pos' = o.pos /\ last'.bytes \in Seq(Byte)
    BY <1>4, CallBytes, NoBytes DEF Seek
  <2>3. file' = file /\ phase' = phase /\ rd' = rd
    BY <1>4 DEF Seek
  <2> HIDE DEF o
  <2> QED BY <2>1, <2>2, <2>3
<1>5. ASSUME NEW n \in SeekStarts, Seek("Start", n) PROVE TypeOK'
  <2>1. n \in U64s /\ n \in Int
    BY ClientAssumption, WordHalves DEF U64s
  <2> QED BY <1>4, <1>5, <2>1
<1>6. ASSUME NEW n \in SeekDeltas, Seek("End", n) \/ Seek("Current", n) PROVE TypeOK'
  <2>1. n \in Int
    BY ClientAssumption, WordHalves
  <2> QED BY <1>4, <1>6, <2>1
<1>7. CASE UNCHANGED vars
  BY <1>7 DEF vars
<1> HIDE DEF TypeOK
<1> QED BY <1>1, <1>2, <1>3, <1>5, <1>6, <1>7 DEF Next

\* A reader that open_reader let through stays one whose geometry, chunk
\* tables and sorted map the arithmetic of Read::read and Seek::seek can rely
\* on, and its cursor stays a u64, for every container and any calls.
THEOREM ReaderTypeCorrect == Spec => []TypeOK
BY TypeOKInit, TypeOKStep, PTL DEF Spec

-----------------------------------------------------------------------------
\* The opened reader is the one open_reader makes of the file: no call changes
\* anything of it but the cursor.
ReaderOfFile ==
    /\ disk = DiskOf(file)
    /\ phase = "open" => OpenReader(file).ok /\ rd = OpenReader(file).val

\* Nothing is open at first, so there is no reader to be of another file.
LEMMA ReaderOfFileInit == Init => ReaderOfFile
BY DEF Init, ReaderOfFile

\* open sets the reader and its file together; read and seek only move the cursor.
LEMMA ReaderOfFileStep == TypeOK /\ ReaderOfFile /\ [Next]_vars => ReaderOfFile'
<1> SUFFICES ASSUME TypeOK, ReaderOfFile, [Next]_vars PROVE ReaderOfFile'
  OBVIOUS
<1>1. CASE Open
  <2> DEFINE o == OpenReader(file)
  <2>1. o.ok \in BOOLEAN
    BY ClientAssumption, OpenEstablishesReader DEF TypeOK
  <2>2. /\ phase' = IF o.ok THEN "open" ELSE "refused"
        /\ rd' = IF o.ok THEN o.val ELSE NoReader
        /\ file' = file /\ disk' = disk
    BY <1>1 DEF Open
  <2>3. phase' = "open" => o.ok /\ rd' = o.val
    <3> HIDE DEF o
    <3> QED BY <2>1, <2>2
  <2> QED BY <2>2, <2>3 DEF ReaderOfFile
<1>2. CASE UNCHANGED <<file, disk, phase, rd>>
  BY <1>2 DEF ReaderOfFile
<1>3. Next => Open \/ UNCHANGED <<file, disk, phase, rd>>
  BY DEF Next, Read, ReadFault, Seek
<1> QED BY <1>1, <1>2, <1>3 DEF vars

\* What a call leaves in `last`.
LEMMA CallFields ==
    ASSUME NEW op, NEW whence, NEW from, NEW arg, NEW o
    PROVE  /\ Call(op, whence, from, arg, o).op = op
           /\ Call(op, whence, from, arg, o).from = from
           /\ Call(op, whence, from, arg, o).arg = arg
           /\ Call(op, whence, from, arg, o).res = o.res
           /\ Call(op, whence, from, arg, o).bytes = o.bytes
BY DEF Call

\* One read of an opened well-formed image, byte by byte.
LEMMA ReadDeliversDisk ==
    ASSUME TypeOK, ReaderOfFile, NEW len \in ReadSizes, phase = "open", WellFormed(rd, file.plain)
    PROVE  LET o == ReadOutcome(rd, pos, len)
               n == Len(o.bytes)
           IN  /\ o.res = "ok"
               /\ n \in Nat /\ n <= len
               /\ pos + n <= rd.virtual_size \/ n = 0
               /\ n = 0 => len = 0 \/ pos >= rd.virtual_size
               /\ \A i \in 1 .. n : o.bytes[i] = disk[pos + i - 1]
<1> DEFINE o == ReadOutcome(rd, pos, len)
           n == Len(o.bytes)
<1>1. IsReader(rd) /\ pos \in U64s /\ pos \in Nat /\ len \in Nat
  BY ClientAssumption, WordHalves DEF TypeOK, U64s
<1>2. rd.virtual_size \in Nat
  BY <1>1, ReaderNumbers
<1>3. CASE len = 0 \/ pos >= rd.virtual_size
  <2>1. o = Returns(<<>>)
    BY <1>3 DEF ReadOutcome
  <2>2. o.res = "ok" /\ o.bytes = <<>> /\ n = 0
    BY <2>1 DEF Returns
  <2> HIDE DEF o, n
  <2>3. 1 .. n = {}
    BY <2>2
  <2> QED BY <1>1, <1>3, <2>2, <2>3 DEF o, n
<1>4. CASE ~(len = 0 \/ pos >= rd.virtual_size)
  <2>1. pos < rd.virtual_size /\ len \in Nat \ {0}
    BY <1>1, <1>2, <1>4
  <2>2. /\ o.res = "ok"
        /\ n \in 1 .. len
        /\ pos + n <= rd.virtual_size
        /\ \A i \in 1 .. n : o.bytes[i] = DiskByte(rd, file.plain, pos + (i - 1))
    BY <2>1, <1>1, ReadCorrect
  <2> HIDE DEF o, n
  <2>3. n \in Nat /\ 1 <= n /\ n <= len /\ pos + n <= rd.virtual_size
    BY <2>2, <1>1
  <2>4. disk = [p \in 0 .. rd.virtual_size - 1 |-> DiskByte(rd, file.plain, p)]
    BY DEF ReaderOfFile, DiskOf
  <2>5. ASSUME NEW i \in 1 .. n PROVE o.bytes[i] = disk[pos + i - 1]
    <3>1. pos + (i - 1) \in 0 .. rd.virtual_size - 1 /\ pos + i - 1 = pos + (i - 1)
      BY <2>3, <1>1, <1>2
    <3> QED BY <3>1, <2>2, <2>4
  <2> QED BY <2>2, <2>3, <2>5 DEF o, n
<1> QED BY <1>3, <1>4

\* Read::read at any cursor of an opened reader.
LEMMA ReadDelivers ==
    ASSUME TypeOK, ReaderOfFile, NEW len \in ReadSizes, Read(len)
    PROVE  ReadsDeliverDisk'
<1> DEFINE o == ReadOutcome(rd, pos, len)
           n == Len(o.bytes)
<1>1. /\ phase' = "open" /\ phase = "open" /\ file' = file /\ disk' = disk /\ rd' = rd
      /\ last' = Call("read", "Start", pos, len, o)
  BY DEF Read
<1>2. last'.from = pos /\ last'.arg = len /\ last'.bytes = o.bytes
  BY <1>1, CallFields
<1> SUFFICES ASSUME WellFormed(rd, file.plain)
             PROVE  /\ o.bytes = DiskBytes(disk, pos, n)
                    /\ n <= len
                    /\ o.bytes = <<>> => len = 0 \/ pos >= rd.virtual_size
  BY <1>1, <1>2 DEF ReadsDeliverDisk
<1>3. /\ n <= len
      /\ n = 0 => len = 0 \/ pos >= rd.virtual_size
      /\ \A i \in 1 .. n : o.bytes[i] = disk[pos + i - 1]
  BY <1>1, ReadDeliversDisk
<1>4. o.bytes \in Seq(Byte)
  BY <1>1, ClientAssumption, ReadTyped DEF TypeOK, IsAnswer
<1> HIDE DEF o
<1>5. o.bytes = [i \in 1 .. n |-> o.bytes[i]]
  BY <1>4
<1>6. o.bytes = DiskBytes(disk, pos, n)
  BY <1>3, <1>5 DEF DiskBytes
<1> QED BY <1>3, <1>6

\* A read of a well-formed image delivers the disk; the other steps read nothing.
LEMMA ReadsDeliverDiskStep ==
    TypeOK /\ ReaderOfFile /\ ReadsDeliverDisk /\ [Next]_vars => ReadsDeliverDisk'
<1> SUFFICES ASSUME TypeOK, ReaderOfFile, ReadsDeliverDisk, [Next]_vars
             PROVE  ReadsDeliverDisk'
  OBVIOUS
<1>1. CASE Open
  <2>1. last'.op = "open"
    BY <1>1, CallFields DEF Open
  <2> QED BY <2>1 DEF ReadsDeliverDisk
<1>2. ASSUME NEW len \in ReadSizes, Read(len) PROVE ReadsDeliverDisk'
  BY <1>2, ReadDelivers
<1>3. ASSUME NEW len \in ReadSizes, ReadFault(len) PROVE ReadsDeliverDisk'
  <2>1. last'.res = "err"
    BY <1>3, CallFields DEF ReadFault, Fails
  <2> QED BY <2>1 DEF ReadsDeliverDisk
<1>4. ASSUME NEW whence, NEW n, Seek(whence, n) PROVE ReadsDeliverDisk'
  <2>1. last'.op = "seek"
    BY <1>4, CallFields DEF Seek
  <2> QED BY <2>1 DEF ReadsDeliverDisk
<1>5. CASE UNCHANGED vars
  BY <1>5 DEF vars, ReadsDeliverDisk
<1> QED BY <1>1, <1>2, <1>3, <1>4, <1>5 DEF Next

\* Over every well-formed image, in either build, with every buffer length
\* and after every sequence of reads, failed reads, seeks and re-opens, what
\* Read::read returns are the bytes of the virtual disk at the cursor, and it
\* returns none only for an empty buffer or at the end of the disk.
THEOREM ReaderDeliversDisk == Spec => []ReadsDeliverDisk
<1>1. Init => ReadsDeliverDisk
  <2> SUFFICES ASSUME Init PROVE ReadsDeliverDisk
    OBVIOUS
  <2>1. phase = "closed"
    BY DEF Init
  <2> QED BY <2>1 DEF ReadsDeliverDisk
<1>2. Init => TypeOK /\ ReaderOfFile /\ ReadsDeliverDisk
  BY <1>1, TypeOKInit, ReaderOfFileInit
<1>3. TypeOK /\ ReaderOfFile /\ ReadsDeliverDisk /\ [Next]_vars
        => (TypeOK /\ ReaderOfFile /\ ReadsDeliverDisk)'
  BY TypeOKStep, ReaderOfFileStep, ReadsDeliverDiskStep
<1> QED BY <1>2, <1>3, PTL DEF Spec

-----------------------------------------------------------------------------
(* The reader implements VirtualDisk.                                      *)

\* The cursor of an opened well-formed image is one that seek can address.
CursorInRange == phase = "open" /\ WellFormed(rd, file.plain) => pos < SignBit

Inv == TypeOK /\ ReaderOfFile /\ CursorInRange

\* A cast of a value the type holds, and the value an i64 sum wraps to.
LEMMA CastExact ==
    /\ \A a \in U64s : AsI64(a) = IF a < SignBit THEN a ELSE a - Word
    /\ \A x \in Int : x \in -SignBit .. SignBit - 1 => WrapI64(x) = x
    /\ \A x \in Int : x \in SignBit .. Word - 1 => WrapI64(x) = x - Word
<1>1. ASSUME NEW a \in U64s PROVE AsI64(a) = IF a < SignBit THEN a ELSE a - Word
  BY WordHalves DEF U64s, AsI64
<1>2. ASSUME NEW x \in Int, x \in 0 .. Word - 1 PROVE x % Word = x
  BY <1>2, WordHalves
<1>3. ASSUME NEW x \in Int, x \in -SignBit .. -1 PROVE x % Word = x + Word
  BY <1>3, WordHalves
<1>4. ASSUME NEW x \in Int, x \in -SignBit .. SignBit - 1 PROVE WrapI64(x) = x
  <2>1. CASE x >= 0
    BY <2>1, <1>2, <1>4, WordHalves DEF WrapI64, AsI64
  <2>2. CASE x < 0
    BY <2>2, <1>3, <1>4, WordHalves DEF WrapI64, AsI64
  <2> QED BY <2>1, <2>2
<1>5. ASSUME NEW x \in Int, x \in SignBit .. Word - 1 PROVE WrapI64(x) = x - Word
  BY <1>2, <1>5, WordHalves DEF WrapI64, AsI64
<1> QED BY <1>1, <1>4, <1>5

\* Where a seek is asked to go.
SeekTarget(whence, n) ==
    CASE whence = "Start" -> n
      [] whence = "End" -> rd.virtual_size + n
      [] whence = "Current" -> pos + n

\* Seek::seek goes exactly there if there is a position an i64 can name, and is
\* refused (or panics) and goes nowhere otherwise.
LEMMA SeekExact ==
    ASSUME IsReader(rd), rd.virtual_size < SignBit, pos \in U64s, pos < SignBit,
           NEW whence \in {"Start", "End", "Current"}, NEW n \in Int,
           whence = "Start" => n \in U64s,
           whence # "Start" => n \in -SignBit .. SignBit - 1
    PROVE  LET o == SeekOutcome(rd, pos, whence, n)
               t == SeekTarget(whence, n)
           IN  IF 0 <= t /\ t < SignBit THEN o = [res |-> "ok", pos |-> t]
               ELSE o.res # "ok" /\ o.pos = pos
<1> DEFINE o == SeekOutcome(rd, pos, whence, n)
           t == SeekTarget(whence, n)
           sum == SeekSum(rd, pos, whence, n)
<1>1. /\ pos \in Nat /\ rd.virtual_size \in Nat /\ rd.virtual_size \in U64s
      /\ Word = 2 * SignBit /\ SignBit \in Nat /\ Word \in Nat
  BY WordHalves, ReaderNumbers DEF U64s, IsReader
<1>2. AsI64(pos) = pos /\ AsI64(rd.virtual_size) = rd.virtual_size
  BY <1>1, CastExact
<1>3. CASE whence = "Start"
  <2>1. n \in U64s /\ n \in 0 .. Word - 1
    BY <1>3 DEF U64s
  <2>2. t = n /\ sum = AsI64(n)
    BY <1>3 DEF SeekTarget, SeekSum
  <2>3. sum = IF n < SignBit THEN n ELSE n - Word
    BY <2>1, <2>2, CastExact
  <2>4. sum \in Int /\ sum \in -SignBit .. SignBit - 1
    BY <2>1, <2>3, <1>1
  <2>5. FitsI64(sum) /\ WrapI64(sum) = sum
    BY <2>4, <1>1, CastExact DEF FitsI64
  <2>6. o = IF sum < 0 THEN [res |-> "err", pos |-> pos] ELSE [res |-> "ok", pos |-> sum]
    BY <2>5 DEF SeekOutcome
  <2> HIDE DEF o, t, sum
  <2>7. CASE n < SignBit
    BY <2>7, <2>1, <2>2, <2>3, <2>6, <1>1 DEF o, t
  <2>8. CASE ~(n < SignBit)
    <3>1. sum < 0 /\ ~(t < SignBit)
      BY <2>8, <2>1, <2>2, <2>3, <1>1
    <3>2. o = [res |-> "err", pos |-> pos]
      BY <3>1, <2>6
    <3> QED BY <3>1, <3>2 DEF o, t
  <2> QED BY <2>7, <2>8
<1>4. CASE whence # "Start"
  <2>1. t = sum /\ t \in Int /\ t \in -SignBit .. Word - 1
    <3>1. CASE whence = "End"
      BY <3>1, <1>1, <1>2, <1>4 DEF SeekTarget, SeekSum
    <3>2. CASE whence = "Current"
      BY <3>2, <1>1, <1>2, <1>4 DEF SeekTarget, SeekSum
    <3> QED BY <3>1, <3>2, <1>4
  <2>2. CASE t < SignBit
    <3>1. FitsI64(sum) /\ WrapI64(sum) = t
      BY <2>1, <2>2, <1>1, CastExact DEF FitsI64
    <3>2. o = IF t < 0 THEN [res |-> "err", pos |-> pos] ELSE [res |-> "ok", pos |-> t]
      BY <3>1 DEF SeekOutcome
    <3> HIDE DEF o, t, sum
    <3> QED BY <3>2, <2>1, <2>2 DEF o, t
  <2>3. CASE ~(t < SignBit)
    <3>1. WrapI64(sum) < 0
      <4>1. t \in SignBit .. Word - 1
        BY <2>1, <2>3, <1>1
      <4>2. WrapI64(sum) = t - Word
        BY <4>1, <2>1, CastExact
      <4> HIDE DEF t, sum
      <4> QED BY <4>1, <4>2, <1>1
    <3>2. o = IF OverflowChecks /\ ~FitsI64(sum) THEN [res |-> "panic", pos |-> pos]
              ELSE [res |-> "err", pos |-> pos]
      BY <3>1 DEF SeekOutcome
    <3> HIDE DEF o, t, sum
    <3> QED BY <3>2, <2>3 DEF o, t
  <2> QED BY <2>2, <2>3
<1> QED BY <1>3, <1>4

\* The invariant holds before anything is opened.
LEMMA InvInit == Init => Inv
BY TypeOKInit, ReaderOfFileInit DEF Init, Inv, CursorInRange

\* One seek of an opened well-formed image, for the three whences the client has.
LEMMA SeekStays ==
    ASSUME Inv, phase = "open", WellFormed(rd, file.plain),
           NEW whence \in {"Start", "End", "Current"}, NEW n,
           whence = "Start" => n \in SeekStarts, whence # "Start" => n \in SeekDeltas
    PROVE  LET o == SeekOutcome(rd, pos, whence, n)
               t == SeekTarget(whence, n)
           IN  IF 0 <= t /\ t < SignBit THEN o = [res |-> "ok", pos |-> t]
               ELSE o.res # "ok" /\ o.pos = pos
<1>1. /\ whence = "Start" => n \in U64s
      /\ whence # "Start" => n \in -SignBit .. SignBit - 1
  BY ClientAssumption
<1>3. n \in Int
  BY <1>1, WordHalves DEF U64s
<1>2. /\ IsReader(rd) /\ pos \in U64s /\ pos < SignBit
      /\ rd.virtual_size < SignBit
  BY DEF Inv, TypeOK, CursorInRange, WellFormed
<1> QED BY <1>1, <1>2, <1>3, SeekExact

\* Only a read and a seek move the cursor, and both keep it a u64.
LEMMA CursorInRangeStep == Inv /\ [Next]_vars => CursorInRange'
<1> SUFFICES ASSUME Inv, [Next]_vars, phase' = "open", WellFormed(rd', file'.plain)
             PROVE  pos' < SignBit
  BY DEF CursorInRange
<1>1. pos \in Nat /\ SignBit \in Nat \ {0}
  BY WordHalves DEF Inv, TypeOK, U64s
<1>2. CASE Open
  BY <1>1, <1>2 DEF Open
<1>3. ASSUME phase = "open", rd' = rd, file' = file
      PROVE  WellFormed(rd, file.plain) /\ pos < SignBit
  BY <1>3 DEF Inv, CursorInRange
<1>4. ASSUME NEW len \in ReadSizes, Read(len) PROVE pos' < SignBit
  <2> DEFINE n == Len(ReadOutcome(rd, pos, len).bytes)
  <2>1. phase = "open" /\ rd' = rd /\ file' = file /\ pos' = pos + n
    BY <1>4 DEF Read
  <2>2. n \in Nat /\ (pos + n <= rd.virtual_size \/ n = 0)
    BY <2>1, <1>3, ReadDeliversDisk DEF Inv
  <2>3. rd.virtual_size \in Nat /\ rd.virtual_size < SignBit
    BY <2>1, <1>3, ReaderNumbers DEF Inv, TypeOK, WellFormed
  <2> HIDE DEF n
  <2> QED BY <1>1, <1>3, <2>1, <2>2, <2>3
<1>5. ASSUME NEW len \in ReadSizes, ReadFault(len) PROVE pos' < SignBit
  BY <1>3, <1>5 DEF ReadFault
<1>6. ASSUME NEW whence \in {"Start", "End", "Current"}, NEW n,
             whence = "Start" => n \in SeekStarts, whence # "Start" => n \in SeekDeltas,
             Seek(whence, n)
      PROVE  pos' < SignBit
  <2> DEFINE o == SeekOutcome(rd, pos, whence, n)
             t == SeekTarget(whence, n)
  <2>1. phase = "open" /\ rd' = rd /\ file' = file /\ pos' = o.pos
    BY <1>6 DEF Seek
  <2>2. IF 0 <= t /\ t < SignBit THEN o = [res |-> "ok", pos |-> t]
        ELSE o.res # "ok" /\ o.pos = pos
    BY <2>1, <1>3, <1>6, SeekStays
  <2> HIDE DEF o, t
  <2> QED BY <1>3, <2>1, <2>2
<1>7. CASE UNCHANGED vars
  BY <1>7 DEF vars, Inv, CursorInRange
<1>8. ASSUME NEW n \in SeekStarts, Seek("Start", n) PROVE pos' < SignBit
  BY <1>6, <1>8
<1>9. ASSUME NEW n \in SeekDeltas, Seek("End", n) \/ Seek("Current", n) PROVE pos' < SignBit
  BY <1>6, <1>9
<1> QED BY <1>2, <1>4, <1>5, <1>7, <1>8, <1>9 DEF Next

\* Every call of a client keeps the invariant.
LEMMA InvStep == Inv /\ [Next]_vars => Inv'
BY TypeOKStep, ReaderOfFileStep, CursorInRangeStep DEF Inv

\* The disk of an open image has as many bytes as its metadata says.
LEMMA SizeOfDisk ==
    ASSUME Inv, phase = "open"
    PROVE  Disk!DiskSize = rd.virtual_size
<1>1. rd.virtual_size \in Nat
  BY ReaderNumbers DEF Inv, TypeOK
<1>2. DOMAIN disk = 0 .. rd.virtual_size - 1
  BY DEF Inv, ReaderOfFile, DiskOf
<1> DEFINE b == rd.virtual_size - 1
<1>3. b \in Int /\ 0 \in Int
  BY <1>1
<1> HIDE DEF b
<1>4. Cardinality(0 .. b) = IF 0 > b THEN 0 ELSE b - 0 + 1
  BY <1>3, FS_Interval
<1>5. Cardinality(DOMAIN disk) = rd.virtual_size
  BY <1>1, <1>2, <1>4 DEF b
<1>6. Disk!DiskSize = Cardinality(DOMAIN disk)
  BY DEF Disk!DiskSize, Disk!Cardinality, Cardinality
<1> QED BY <1>5, <1>6

\* Each call is a step of VirtualDisk, or, while no promise is made, a stutter.
LEMMA DiskStep == Inv /\ Inv' /\ [Next]_vars => [Disk!Next]_(Disk!vars)
<1> SUFFICES ASSUME Inv, Inv', [Next]_vars PROVE Disk!Next \/ UNCHANGED Disk!vars
  OBVIOUS
<1> DEFINE cursor == IF Promised THEN pos ELSE 0
           answer == IF Promised THEN last ELSE Call("open", "Start", 0, 0, Fails("err"))
           mounted == phase = "open" /\ Promised
<1>1. CASE Open
  <2>1. /\ phase' \in {"open", "refused"} /\ pos' = 0 /\ disk' = disk
        /\ last'.op = "open"
        /\ phase' = "open" => last'.res = "ok"
        /\ phase' # "open" => last'.res = "err"
    BY <1>1, CallFields DEF Open, Returns, Fails
  <2>2. CASE Promised'
    BY <2>1, <2>2 DEF Disk!Next, Disk!Mount
  <2>3. CASE ~Promised'
    <3>1. answer'.op = "open" /\ answer'.res = "err"
      BY <2>3, CallFields DEF Fails
    <3> QED BY <2>1, <2>3, <3>1 DEF Disk!Next, Disk!Mount
  <2> QED BY <2>2, <2>3
<1>2. CASE phase = "open" /\ ~Promised /\ UNCHANGED <<file, disk, phase, rd>>
  <2>1. Promised' = Promised
    BY <1>2 DEF Promised
  <2> QED BY <1>2, <2>1, CallFields DEF Disk!vars, Call, Fails
<1>3. ASSUME phase = "open", Promised, UNCHANGED <<file, disk, phase, rd>>
      PROVE  /\ Promised' /\ mounted /\ mounted' /\ disk' = disk
             /\ cursor = pos /\ cursor' = pos' /\ answer' = last'
  BY <1>3 DEF Promised
<1>4. ASSUME Promised, NEW len \in ReadSizes, Read(len) PROVE Disk!Next
  <2> DEFINE o == ReadOutcome(rd, pos, len)
             n == Len(o.bytes)
  <2>1. /\ phase = "open" /\ UNCHANGED <<file, disk, phase, rd>>
        /\ pos' = pos + n /\ last' = Call("read", "Start", pos, len, o)
    BY <1>4 DEF Read
  <2>2. /\ last'.op = "read" /\ last'.res = o.res /\ last'.from = pos
        /\ last'.arg = len /\ last'.bytes = o.bytes
    BY <2>1, CallFields
  <2>3. /\ o.res = "ok"
        /\ n <= len
        /\ pos + n <= rd.virtual_size \/ n = 0
        /\ n = 0 => len = 0 \/ pos >= rd.virtual_size
        /\ \A i \in 1 .. n : o.bytes[i] = disk[pos + i - 1]
    BY <2>1, <1>4, ReadDeliversDisk DEF Inv, Promised
  <2>4. Disk!DiskSize = rd.virtual_size
    BY <2>1, SizeOfDisk
  <2>5. mounted /\ mounted' /\ cursor = pos /\ cursor' = pos' /\ answer' = last'
    BY <1>3, <1>4, <2>1
  <2> HIDE DEF o, mounted, cursor, answer
  <2>6. Disk!Read
    BY <2>1, <2>2, <2>3, <2>4, <2>5 DEF Disk!Read, mounted, cursor, answer
  <2> QED BY <2>6 DEF Disk!Next
<1>5. ASSUME Promised, NEW len \in ReadSizes, ReadFault(len) PROVE Disk!Next
  <2>1. /\ phase = "open" /\ UNCHANGED <<file, disk, phase, rd, pos>>
        /\ last'.op = "read" /\ last'.res = "err" /\ last'.bytes = <<>>
    BY <1>5, CallFields DEF ReadFault, Fails
  <2>2. mounted /\ mounted' /\ cursor = pos /\ cursor' = pos' /\ answer' = last'
    BY <1>3, <1>5, <2>1
  <2> HIDE DEF mounted, cursor, answer
  <2>3. Disk!ReadFails
    BY <2>1, <2>2 DEF Disk!ReadFails, mounted, cursor, answer
  <2> QED BY <2>3 DEF Disk!Next
<1>6. ASSUME Promised, NEW whence \in {"Start", "End", "Current"}, NEW n,
             whence = "Start" => n \in SeekStarts, whence # "Start" => n \in SeekDeltas,
             Seek(whence, n)
      PROVE  Disk!Next
  <2> DEFINE o == SeekOutcome(rd, pos, whence, n)
             t == SeekTarget(whence, n)
  <2>1. /\ phase = "open" /\ UNCHANGED <<file, disk, phase, rd>>
        /\ pos' = o.pos /\ last' = Call("seek", whence, pos, n, Fails(o.res))
    BY <1>6 DEF Seek
  <2>2. /\ last'.op = "seek" /\ last'.res = o.res /\ last'.whence = whence
        /\ last'.arg = n
    BY <2>1 DEF Call, Fails
  <2>3. IF 0 <= t /\ t < SignBit THEN o = [res |-> "ok", pos |-> t]
        ELSE o.res # "ok" /\ o.pos = pos
    BY <2>1, <1>6, SeekStays DEF Promised
  <2>4. Disk!DiskSize = rd.virtual_size
    BY <2>1, SizeOfDisk
  <2>5. mounted /\ mounted' /\ cursor = pos /\ cursor' = pos' /\ answer' = last'
    BY <1>3, <1>6, <2>1
  <2>6. Disk!Target(whence, n) = t
    BY <2>4, <2>5 DEF Disk!Target, SeekTarget
  <2> HIDE DEF o, t, mounted, cursor, answer
  <2>7. IF 0 <= t /\ t < SignBit THEN last'.res = "ok" /\ pos' = t
        ELSE last'.res # "ok" /\ pos' = pos
    BY <2>1, <2>2, <2>3
  <2>8. Disk!Seek
    BY <2>1, <2>2, <2>5, <2>6, <2>7 DEF Disk!Seek, mounted, cursor, answer
  <2> QED BY <2>8 DEF Disk!Next
<1>7. ASSUME UNCHANGED vars PROVE UNCHANGED Disk!vars
  BY <1>7 DEF vars, Promised, Disk!vars
<1>8. ASSUME Next, ~Open PROVE phase = "open" /\ UNCHANGED <<file, disk, phase, rd>>
  BY <1>8 DEF Next, Read, ReadFault, Seek
<1>9. CASE Promised /\ Next /\ ~Open
  <2>1. ASSUME NEW n \in SeekStarts, Seek("Start", n) PROVE Disk!Next
    BY <1>6, <1>9, <2>1
  <2>2. ASSUME NEW n \in SeekDeltas, Seek("End", n) \/ Seek("Current", n) PROVE Disk!Next
    BY <1>6, <1>9, <2>2
  <2> QED BY <1>4, <1>5, <1>9, <2>1, <2>2 DEF Next
<1> QED BY <1>1, <1>2, <1>7, <1>8, <1>9

\* The reader behaves as VirtualDisk says, for every set of containers, every
\* client and either build: an opened well-formed image has a fixed content, a
\* read returns a non-empty piece of it at the cursor and moves the cursor by
\* what it returned, a seek goes exactly where it was asked to or nowhere, and a
\* failing call changes nothing.
THEOREM ReaderIsVirtualDisk == Spec => IsVirtualDisk
<1>1. Init => Disk!Init
  BY DEF Init, Disk!Init, Promised
<1>2. Init => Inv
  BY InvInit
<1>3. Inv /\ [Next]_vars => Inv'
  BY InvStep
<1>4. Inv /\ Inv' /\ [Next]_vars => [Disk!Next]_(Disk!vars)
  BY DiskStep
<1> QED BY <1>1, <1>2, <1>3, <1>4, PTL DEF Spec, IsVirtualDisk, Disk!Spec
=============================================================================
