----------------------------- MODULE Aff4Source -----------------------------
(***************************************************************************)
(* core/src/vfs.rs: one Aff4Reader behind a Mutex, shared by threads that  *)
(* call read_at.  A call takes the lock, moves the shared cursor, and      *)
(* reads in a loop; a panic inside unlocks the mutex and poisons it.       *)
(***************************************************************************)
EXTENDS DiskContent

CONSTANTS Threads,
          NoThread,   \* the mutex is free
          Files,      \* containers the source may be made from
          Requests,   \* [offset, len] a thread may ask for
          MaxCalls    \* calls each thread makes

ASSUME ThreadAssumption ==
    /\ NoThread \notin Threads
    /\ MaxCalls \in Nat
    /\ \A f \in Files : IsContainer(f)
    /\ Requests \subseteq [offset : U64s, len : U64s]

VARIABLES file, disk,   \* as in Aff4Reader; neither changes
          rd,           \* the wrapped reader, but for its cursor
          pos,          \* the cursor of the wrapped reader
          holder,       \* who holds the mutex
          poisoned,     \* a holder panicked
          pc,           \* per thread: "idle", "lock", "seek" or "read"
          call,         \* per thread: its call, [offset, len]
          buf,          \* per thread: the bytes read so far
          answer,       \* per thread: what its last finished call returned
          calls         \* per thread: calls made

vars == <<file, disk, rd, pos, holder, poisoned, pc, call, buf, answer, calls>>

fixed == <<file, disk, rd>>

Want(t) == Least(call[t].len, SaturatingSub(rd.virtual_size, call[t].offset))

Init ==
    /\ file \in {f \in Files : OpenReader(f).ok}
    /\ disk = DiskOf(file)
    /\ rd = OpenReader(file).val
    /\ pos = 0
    /\ holder = NoThread
    /\ poisoned = FALSE
    /\ pc = [t \in Threads |-> "idle"]
    /\ call = [t \in Threads |-> [offset |-> 0, len |-> 0]]
    /\ buf = [t \in Threads |-> <<>>]
    /\ answer = [t \in Threads |-> Returns(<<>>)]
    /\ calls = [t \in Threads |-> 0]

\* read_at is called.  At or beyond the end it returns without the lock.
ReadAt(t, req) ==
    /\ pc[t] = "idle"
    /\ calls[t] < MaxCalls
    /\ calls' = [calls EXCEPT ![t] = @ + 1]
    /\ call' = [call EXCEPT ![t] = req]
    /\ IF SaturatingSub(rd.virtual_size, req.offset) = 0
       THEN answer' = [answer EXCEPT ![t] = Returns(<<>>)] /\ pc' = pc
       ELSE pc' = [pc EXCEPT ![t] = "lock"] /\ answer' = answer
    /\ buf' = [buf EXCEPT ![t] = <<>>]
    /\ UNCHANGED <<fixed, pos, holder, poisoned>>

\* Mutant: the lock is not waited for.
LockNobodyWaits(t) ==
    /\ pc[t] = "lock"
    /\ holder' = t
    /\ pc' = [pc EXCEPT ![t] = "seek"]
    /\ UNCHANGED <<fixed, pos, poisoned, call, buf, answer, calls>>

\* Mutant: a poisoned mutex is not taken again.
LockUnlessPoisoned(t) ==
    /\ pc[t] = "lock"
    /\ holder = NoThread
    /\ ~poisoned
    /\ holder' = t
    /\ pc' = [pc EXCEPT ![t] = "seek"]
    /\ UNCHANGED <<fixed, pos, poisoned, call, buf, answer, calls>>

\* inner.lock().unwrap_or_else(PoisonError::into_inner): a poisoned mutex is
\* taken all the same.
Lock(t) ==
    /\ pc[t] = "lock"
    /\ holder = NoThread
    /\ holder' = t
    /\ pc' = [pc EXCEPT ![t] = "seek"]
    /\ UNCHANGED <<fixed, pos, poisoned, call, buf, answer, calls>>

\* The call returns o, or unwinds, and the guard is dropped.
Finish(t, o) ==
    /\ answer' = [answer EXCEPT ![t] = o]
    /\ pc' = [pc EXCEPT ![t] = "idle"]
    /\ holder' = NoThread
    /\ poisoned' = (poisoned \/ o.res = "panic")

\* Mutant: the call reads on from where the last one stopped.
SeekNowhere(t) ==
    /\ pc[t] = "seek"
    /\ pc' = [pc EXCEPT ![t] = "read"]
    /\ UNCHANGED <<fixed, pos, holder, poisoned, call, buf, answer, calls>>

SeekTo(t) ==
    LET o == SeekOutcome(rd, pos, "Start", call[t].offset)
    IN  /\ pc[t] = "seek"
        /\ pos' = o.pos
        /\ IF o.res = "ok"
           THEN pc' = [pc EXCEPT ![t] = "read"] /\ UNCHANGED <<answer, holder, poisoned>>
           ELSE Finish(t, Fails(o.res))
        /\ UNCHANGED <<fixed, call, buf, calls>>

\* One guard.read of the loop.  A read of 0 bytes breaks out of it.
ReadMore(t) ==
    /\ pc[t] = "read"
    /\ Len(buf[t]) < Want(t)
    /\ \E o \in {ReadOutcome(rd, pos, Want(t) - Len(buf[t]))} :
        /\ pos' = pos + Len(o.bytes)
        /\ buf' = [buf EXCEPT ![t] = @ \o o.bytes]
        /\ IF o.res # "ok" THEN Finish(t, o)
           ELSE IF o.bytes = <<>> THEN Finish(t, Returns(buf[t]))
           ELSE UNCHANGED <<pc, answer, holder, poisoned>>
    /\ UNCHANGED <<fixed, call, calls>>

\* Mutant: the call starts over when the medium fails.
ReadFaultRetries(t) ==
    /\ pc[t] = "read"
    /\ Len(buf[t]) < Want(t)
    /\ TouchesArchive(rd, pos, Want(t) - Len(buf[t]))
    /\ pc' = [pc EXCEPT ![t] = "seek"]
    /\ buf' = [buf EXCEPT ![t] = <<>>]
    /\ UNCHANGED <<fixed, pos, holder, poisoned, call, answer, calls>>

\* Mutant: the map is taken out of the reader while it reads a chunk, and not put
\* back when that fails.
ReadFaultLosesMap(t) ==
    /\ pc[t] = "read"
    /\ Len(buf[t]) < Want(t)
    /\ TouchesArchive(rd, pos, Want(t) - Len(buf[t]))
    /\ Finish(t, Fails("err"))
    /\ rd' = [rd EXCEPT !.mapped = FALSE]
    /\ UNCHANGED <<file, disk, pos, call, buf, calls>>

\* The same read when the medium under the archive fails.
ReadFault(t) ==
    /\ pc[t] = "read"
    /\ Len(buf[t]) < Want(t)
    /\ TouchesArchive(rd, pos, Want(t) - Len(buf[t]))
    /\ Finish(t, Fails("err"))
    /\ UNCHANGED <<fixed, pos, call, buf, calls>>

\* The loop has what it wants.
Done(t) ==
    /\ pc[t] = "read"
    /\ Len(buf[t]) >= Want(t)
    /\ Finish(t, Returns(buf[t]))
    /\ UNCHANGED <<fixed, pos, call, buf, calls>>

Step(t) == Lock(t) \/ SeekTo(t) \/ ReadMore(t) \/ Done(t)

Next == \E t \in Threads : Step(t) \/ ReadFault(t) \/ \E req \in Requests : ReadAt(t, req)

Spec == Init /\ [][Next]_vars

\* A thread that can run does: the scheduler does not stop a thread for ever,
\* and with MaxCalls calls each nobody can overtake a waiter for ever.
FairSpec == Spec /\ \A t \in Threads : WF_vars(Step(t))

-----------------------------------------------------------------------------
(* Properties                                                              *)

\* The shared reader never changes but for its cursor: whatever threads have done
\* to it, also by a panic, it is the sound reader that open_reader made of the file.
\* The private state of a call is what read_at says.
TypeOK ==
    /\ file \in Files
    /\ OpenReader(file).ok
    /\ rd = OpenReader(file).val
    /\ disk = DiskOf(file)
    /\ IsReader(rd)
    /\ pos \in U64s
    /\ holder \in Threads \cup {NoThread}
    /\ poisoned \in BOOLEAN
    /\ pc \in [Threads -> {"idle", "lock", "seek", "read"}]
    /\ call \in [Threads -> [offset : U64s, len : U64s]]
    /\ buf \in [Threads -> Seq(Byte)]
    /\ DOMAIN answer = Threads
    /\ \A t \in Threads : answer[t].res \in {"ok", "err", "panic"} /\ answer[t].bytes \in Seq(Byte)
    /\ calls \in [Threads -> 0 .. MaxCalls]

\* While a call of read_at is in its loop the shared cursor stands right
\* behind the bytes it has got, whatever other threads ask for meanwhile.
CursorFollowsHolder ==
    \A t \in Threads : pc[t] = "read" => pos = call[t].offset + Len(buf[t])

\* Images that a call can only read right or fail on: the stream is well stored,
\* no two entries of the map share a position, and none leaves the address space
\* unless the build notices.
Readable ==
    /\ WellStored(rd, file.plain)
    /\ LET entries == rd.loaded_map.entries
       IN  \A i \in 1 .. Len(entries) :
              LET e == entries[i]
              IN  /\ i < Len(entries) => EndOf(e) <= entries[i + 1].map_offset
                  /\ OverflowChecks \/ Greatest(EndOf(e), e.target_offset + e.length) < Word
                  /\ KindOf(rd.loaded_map, e) = ImageStreamKind =>
                        e.target_offset + e.length <= rd.image_stream_size

\* The source over such an image is a PositionedRead: read_at returns all the bytes
\* of the disk it was asked for, or fails, also after a panic of another thread has
\* poisoned the mutex.  Over any other image nobody is promised anything.
Source == INSTANCE PositionedRead WITH
              content <- disk,
              waiting <- (IF Readable THEN {t \in Threads : pc[t] # "idle"} ELSE {}),
              call <- (IF Readable THEN call ELSE [t \in Threads |-> [offset |-> 0, len |-> 0]]),
              answer <- (IF Readable THEN answer ELSE [t \in Threads |-> Returns(<<>>)])

IsPositionedRead == Source!Spec

\* The most steps a call has left to take: the lock, the seek, the bytes it still
\* wants one by one, and its return.
StepsLeft(t) ==
    CASE pc[t] = "idle" -> 0
      [] pc[t] = "lock" -> Want(t) + 3
      [] pc[t] = "seek" -> Want(t) + 2
      [] pc[t] = "read" -> (Want(t) - Len(buf[t])) + 1

\* Every step is one thread's alone: it brings the read_at that the thread is in
\* nearer to its end, and leaves the call and the answer of every other thread as
\* they are.  No chunk that decodes short or long, no failure and no panic makes a
\* call start over, whatever the container holds.
CallsAdvance ==
    [][\E t \in Threads :
          /\ pc[t] # "idle" => StepsLeft(t)' \in 0 .. StepsLeft(t) - 1
          /\ \A u \in Threads \ {t} : UNCHANGED <<pc[u], call[u], buf[u], answer[u]>>]_vars

\* Every read_at returns (or unwinds): a panicking reader, a failing medium
\* or a short chunk does not wedge the source.
EveryCallReturns == \A t \in Threads : pc[t] # "idle" ~> pc[t] = "idle"
=============================================================================
