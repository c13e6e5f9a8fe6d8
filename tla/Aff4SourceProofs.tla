-------------------------- MODULE Aff4SourceProofs --------------------------
(***************************************************************************)
(* Aff4Source, for any number of threads, calls and containers.            *)
(***************************************************************************)
EXTENDS Aff4Source, ReadProofs

\* The mutex is held by the thread that is in its critical section, and by no
\* other.
MutexHeld == \A t \in Threads : pc[t] \in {"seek", "read"} <=> holder = t

\* A call that has not read yet has an empty buffer.
BufferFresh == \A t \in Threads : pc[t] \in {"lock", "seek"} => buf[t] = <<>>

\* What a thread still wants is a number.
LEMMA WantTyped ==
    ASSUME TypeOK, NEW t \in Threads
    PROVE  Want(t) \in Nat /\ Len(buf[t]) \in Nat
<1>1. call[t] \in [offset : U64s, len : U64s] /\ buf[t] \in Seq(Byte) /\ rd.virtual_size \in U64s
  BY DEF TypeOK, IsReader
<1>2. call[t].len \in Nat /\ call[t].offset \in Nat /\ rd.virtual_size \in Nat
  BY <1>1, WordHalves DEF U64s
<1> QED BY <1>1, <1>2 DEF Want, Least, SaturatingSub

\* A seek to an absolute position that succeeds lands exactly there.
LEMMA SeekStartExact ==
    ASSUME NEW r, NEW p, NEW n \in U64s, SeekOutcome(r, p, "Start", n).res = "ok"
    PROVE  SeekOutcome(r, p, "Start", n).pos = n
<1> DEFINE sum == SeekSum(r, p, "Start", n)
<1>1. n \in Nat /\ n < Word
  BY WordHalves DEF U64s
<1>2. sum = AsI64(n)
  BY DEF SeekSum
<1>3. CASE n < SignBit
  <2>1. sum = n
    BY <1>1, <1>2, <1>3, WordHalves DEF AsI64
  <2>2. n % Word = n
    BY <1>1, WordHalves
  <2>3. WrapI64(sum) = n
    BY <2>1, <2>2, <1>1, <1>3, WordHalves DEF WrapI64, AsI64
  <2> HIDE DEF sum
  <2> QED BY <2>3 DEF SeekOutcome, sum
<1>4. CASE ~(n < SignBit)
  <2>1. sum = n - Word
    BY <1>1, <1>2, <1>4, WordHalves DEF AsI64
  <2>2. (n - Word) % Word = n
    <3>1. n - Word = Word * (-1) + n /\ n \in 0 .. Word - 1
      BY <1>1, WordHalves
    <3> QED BY <3>1, <1>1, WordHalves
  <2>3. WrapI64(sum) < 0
    BY <2>1, <2>2, <1>1, <1>4, WordHalves DEF WrapI64, AsI64
  <2> HIDE DEF sum
  <2>4. SeekOutcome(r, p, "Start", n).res \in {"panic", "err"}
    BY <2>3 DEF SeekOutcome, sum
  <2> QED BY <2>4
<1> QED BY <1>1, <1>3, <1>4, WordHalves

\* A guard is dropped: the call is over and its answer is what it returned.
LEMMA FinishTyped ==
    ASSUME TypeOK, NEW t \in Threads, NEW o, Finish(t, o),
           o.res \in {"ok", "err", "panic"}, o.bytes \in Seq(Byte)
    PROVE  /\ holder' \in Threads \cup {NoThread}
           /\ poisoned' \in BOOLEAN
           /\ pc' \in [Threads -> {"idle", "lock", "seek", "read"}]
           /\ DOMAIN answer' = Threads
           /\ \A s \in Threads : answer'[s].res \in {"ok", "err", "panic"}
                                 /\ answer'[s].bytes \in Seq(Byte)
<1>1. /\ holder' = NoThread /\ pc' = [pc EXCEPT ![t] = "idle"]
      /\ poisoned' = (poisoned \/ o.res = "panic")
      /\ answer' = [answer EXCEPT ![t] = o]
  BY DEF Finish
<1>2. poisoned' \in BOOLEAN
  BY <1>1
<1>3. pc' \in [Threads -> {"idle", "lock", "seek", "read"}]
  BY <1>1 DEF TypeOK
<1>4. DOMAIN answer' = Threads
  BY <1>1 DEF TypeOK
<1>5. ASSUME NEW s \in Threads
      PROVE  answer'[s].res \in {"ok", "err", "panic"} /\ answer'[s].bytes \in Seq(Byte)
  <2>1. answer'[s] = IF s = t THEN o ELSE answer[s]
    BY <1>1 DEF TypeOK
  <2> QED BY <2>1 DEF TypeOK
<1> QED BY <1>1, <1>2, <1>3, <1>4, <1>5

\* No thread has called read_at yet.
LEMMA TypeOKInit == Init => TypeOK
<1> SUFFICES ASSUME Init PROVE TypeOK
  OBVIOUS
<1>1. /\ file \in Files /\ OpenReader(file).ok /\ rd = OpenReader(file).val
      /\ disk = DiskOf(file) /\ IsReader(rd)
  <2>1. file \in Files /\ OpenReader(file).ok /\ rd = OpenReader(file).val /\ disk = DiskOf(file)
    BY DEF Init
  <2> QED BY <2>1, ThreadAssumption, OpenEstablishesReader
<1>2. 0 \in U64s /\ <<>> \in Seq(Byte)
  BY WordHalves DEF U64s
<1>3. pos \in U64s /\ holder \in Threads \cup {NoThread} /\ poisoned \in BOOLEAN
  BY <1>2 DEF Init
<1>4. /\ pc \in [Threads -> {"idle", "lock", "seek", "read"}]
      /\ call \in [Threads -> [offset : U64s, len : U64s]]
      /\ buf \in [Threads -> Seq(Byte)]
      /\ calls \in [Threads -> 0 .. MaxCalls]
  BY <1>2, ThreadAssumption DEF Init
<1>5. /\ DOMAIN answer = Threads
      /\ \A t \in Threads : answer[t].res = "ok" /\ answer[t].bytes = <<>>
  BY DEF Init, Returns
<1> QED BY <1>1, <1>2, <1>3, <1>4, <1>5 DEF TypeOK

\* No step of read_at gives the shared reader or a call a value it cannot
\* have, also when a thread panics or the medium fails.
LEMMA TypeOKStep == TypeOK /\ [Next]_vars => TypeOK'
<1> SUFFICES ASSUME TypeOK, [Next]_vars PROVE TypeOK'
  OBVIOUS
<1> DEFINE Frame == UNCHANGED fixed /\ call' = call /\ calls' = calls
           Answers == /\ DOMAIN answer' = Threads
                      /\ \A s \in Threads : answer'[s].res \in {"ok", "err", "panic"}
                                            /\ answer'[s].bytes \in Seq(Byte)
           Control == /\ holder' \in Threads \cup {NoThread}
                      /\ poisoned' \in BOOLEAN
                      /\ pc' \in [Threads -> {"idle", "lock", "seek", "read"}]
                      /\ Answers
<1>1. ASSUME Frame, Control, pos' \in U64s, buf' \in [Threads -> Seq(Byte)] PROVE TypeOK'
  BY <1>1 DEF TypeOK, fixed
<1>2. ASSUME UNCHANGED answer PROVE Answers
  BY <1>2 DEF TypeOK
<1>3. ASSUME UNCHANGED <<pc, answer, holder, poisoned>> PROVE Control
  BY <1>3 DEF TypeOK
<1>4. ASSUME NEW t \in Threads, NEW o, Finish(t, o),
             o.res \in {"ok", "err", "panic"}, o.bytes \in Seq(Byte)
      PROVE  Control
  BY <1>4, FinishTyped
<1>5. /\ \A res \in {"err", "panic"} : /\ Fails(res).res \in {"ok", "err", "panic"}
                                       /\ Fails(res).bytes \in Seq(Byte)
      /\ \A bytes \in Seq(Byte) : /\ Returns(bytes).res \in {"ok", "err", "panic"}
                                  /\ Returns(bytes).bytes \in Seq(Byte)
  <2>1. <<>> \in Seq(Byte)
    OBVIOUS
  <2> QED BY <2>1 DEF Fails, Returns
<1>6. ASSUME NEW t \in Threads, NEW req \in Requests, ReadAt(t, req) PROVE TypeOK'
  <2>1. /\ call' = [call EXCEPT ![t] = req] /\ calls' = [calls EXCEPT ![t] = @ + 1]
        /\ buf' = [buf EXCEPT ![t] = <<>>] /\ calls[t] < MaxCalls
        /\ UNCHANGED <<file, disk, rd>> /\ pos' = pos /\ holder' = holder /\ poisoned' = poisoned
    BY <1>6 DEF ReadAt, fixed
  <2>2. \/ pc' = pc /\ answer' = [answer EXCEPT ![t] = Returns(<<>>)]
        \/ pc' = [pc EXCEPT ![t] = "lock"] /\ answer' = answer
    BY <1>6 DEF ReadAt
  <2>3. req \in [offset : U64s, len : U64s] /\ <<>> \in Seq(Byte) /\ MaxCalls \in Nat
    BY ThreadAssumption
  <2>4. call' \in [Threads -> [offset : U64s, len : U64s]] /\ buf' \in [Threads -> Seq(Byte)]
    BY <2>1, <2>3 DEF TypeOK
  <2>5. calls' \in [Threads -> 0 .. MaxCalls]
    BY <2>1, <2>3 DEF TypeOK
  <2>6. pc' \in [Threads -> {"idle", "lock", "seek", "read"}]
    BY <2>2 DEF TypeOK
  <2>7. Answers
    <3>1. CASE answer' = answer
      BY <3>1, <1>2
    <3>2. CASE answer' = [answer EXCEPT ![t] = Returns(<<>>)]
      <4>1. \A s \in Threads : answer'[s] = IF s = t THEN Returns(<<>>) ELSE answer[s]
        BY <3>2 DEF TypeOK
      <4>2. DOMAIN answer' = Threads
        BY <3>2 DEF TypeOK
      <4> QED BY <4>1, <4>2, <1>5, <2>3 DEF TypeOK
    <3> QED BY <2>2, <3>1, <3>2
  <2> QED BY <2>1, <2>4, <2>5, <2>6, <2>7 DEF TypeOK
<1>7. ASSUME NEW t \in Threads, Lock(t) PROVE TypeOK'
  <2>1. /\ Frame /\ pos' = pos /\ buf' = buf /\ answer' = answer /\ poisoned' = poisoned
        /\ holder' = t /\ pc' = [pc EXCEPT ![t] = "seek"]
    BY <1>7 DEF Lock, fixed
  <2>2. pc' \in [Threads -> {"idle", "lock", "seek", "read"}]
    BY <2>1 DEF TypeOK
  <2>3. Control
    BY <2>1, <2>2, <1>2 DEF TypeOK
  <2> QED BY <2>1, <2>3, <1>1 DEF TypeOK
<1>8. ASSUME NEW t \in Threads, SeekTo(t) PROVE TypeOK'
  <2> DEFINE o == SeekOutcome(rd, pos, "Start", call[t].offset)
  <2>1. /\ Frame /\ pos' = o.pos /\ buf' = buf
        /\ IF o.res = "ok"
           THEN pc' = [pc EXCEPT ![t] = "read"] /\ UNCHANGED <<answer, holder, poisoned>>
           ELSE Finish(t, Fails(o.res))
    BY <1>8 DEF SeekTo, fixed
  <2>2. o.pos \in U64s
    <3>1. call[t].offset \in U64s /\ call[t].offset \in Int /\ IsReader(rd) /\ pos \in U64s
      BY WordHalves DEF TypeOK, U64s
    <3> QED BY <3>1, SeekTyped
  <2>3. o.res \in {"ok", "err", "panic"}
    BY DEF SeekOutcome
  <2> HIDE DEF o
  <2>4. Control
    <3>1. CASE o.res = "ok"
      <4>1. pc' \in [Threads -> {"idle", "lock", "seek", "read"}]
        BY <2>1, <3>1 DEF TypeOK
      <4> QED BY <2>1, <3>1, <4>1, <1>2 DEF TypeOK
    <3>2. CASE o.res # "ok"
      <4>1. Finish(t, Fails(o.res)) /\ o.res \in {"err", "panic"}
        BY <2>1, <2>3, <3>2
      <4> QED BY <4>1, <1>4, <1>5
    <3> QED BY <3>1, <3>2
  <2> QED BY <2>1, <2>2, <2>4, <1>1 DEF TypeOK
<1>9. ASSUME NEW t \in Threads, ReadMore(t) PROVE TypeOK'
  <2> DEFINE o == ReadOutcome(rd, pos, Want(t) - Len(buf[t]))
  <2>1. /\ Frame /\ pos' = pos + Len(o.bytes) /\ buf' = [buf EXCEPT ![t] = @ \o o.bytes]
        /\ IF o.res # "ok" THEN Finish(t, o)
           ELSE IF o.bytes = <<>> THEN Finish(t, Returns(buf[t]))
           ELSE UNCHANGED <<pc, answer, holder, poisoned>>
    BY <1>9 DEF ReadMore, fixed
  <2>2. IsAnswer(o, Want(t) - Len(buf[t])) /\ pos + Len(o.bytes) \in U64s
    <3>1. Want(t) - Len(buf[t]) \in Nat
      BY <1>9, WantTyped DEF ReadMore
    <3> QED BY <3>1, ReadTyped DEF TypeOK
  <2>3. o.res \in {"ok", "err", "panic"} /\ o.bytes \in Seq(Byte) /\ buf[t] \in Seq(Byte)
    BY <2>2 DEF IsAnswer, TypeOK
  <2> HIDE DEF o
  <2>4. buf' \in [Threads -> Seq(Byte)]
    <3>1. buf[t] \o o.bytes \in Seq(Byte)
      BY <2>3
    <3> QED BY <2>1, <3>1 DEF TypeOK
  <2>5. Control
    <3>1. CASE o.res # "ok"
      BY <2>1, <2>3, <3>1, <1>4
    <3>2. CASE o.res = "ok" /\ o.bytes = <<>>
      BY <2>1, <2>3, <3>2, <1>4, <1>5
    <3>3. CASE o.res = "ok" /\ o.bytes # <<>>
      BY <2>1, <3>3, <1>3
    <3> QED BY <3>1, <3>2, <3>3
  <2> QED BY <2>1, <2>2, <2>4, <2>5, <1>1 DEF TypeOK
<1>10. ASSUME NEW t \in Threads, ReadFault(t) \/ Done(t) PROVE TypeOK'
  <2>1. /\ Frame /\ pos' = pos /\ buf' = buf
        /\ Finish(t, Fails("err")) \/ Finish(t, Returns(buf[t]))
    BY <1>10 DEF ReadFault, Done, fixed
  <2>2. buf[t] \in Seq(Byte)
    BY DEF TypeOK
  <2>3. Control
    BY <2>1, <2>2, <1>4, <1>5
  <2> QED BY <2>1, <2>3, <1>1 DEF TypeOK
<1>11. CASE UNCHANGED vars
  BY <1>11 DEF vars, TypeOK
<1> QED BY <1>6, <1>7, <1>8, <1>9, <1>10, <1>11 DEF Next, Step

\* The shared reader of an Aff4Source is, but for its cursor, the one open_reader made
\* of the file, through failing media and panics, and every call has the state read_at
\* says, for any number of threads.
THEOREM SourceTypeCorrect == Spec => []TypeOK
BY TypeOKInit, TypeOKStep, PTL DEF Spec

-----------------------------------------------------------------------------
\* Before a call may read it holds the mutex, and starts with an empty buffer.
LockInv == MutexHeld /\ BufferFresh

\* The mutex is free and no thread is inside read_at.
LEMMA LockInvInit == Init => LockInv
BY ThreadAssumption DEF Init, LockInv, MutexHeld, BufferFresh

\* The mutex is held from lock to the end of read_at's block, by whoever moves the cursor.
LEMMA LockInvStep == TypeOK /\ LockInv /\ [Next]_vars => LockInv'
<1> SUFFICES ASSUME TypeOK, LockInv, [Next]_vars PROVE LockInv'
  OBVIOUS
<1>1. /\ pc \in [Threads -> {"idle", "lock", "seek", "read"}]
      /\ buf \in [Threads -> Seq(Byte)]
      /\ NoThread \notin Threads
  BY ThreadAssumption DEF TypeOK
\* The holder leaves its critical section and drops the guard.
<1>2. ASSUME NEW t \in Threads, pc[t] \in {"seek", "read"}, NEW o, Finish(t, o),
             \A s \in Threads : s # t => buf'[s] = buf[s]
      PROVE  LockInv'
  <2>1. holder' = NoThread /\ pc' = [pc EXCEPT ![t] = "idle"]
    BY <1>2 DEF Finish
  <2>2. \A s \in Threads : s # t => pc[s] \notin {"seek", "read"}
    BY <1>2 DEF LockInv, MutexHeld
  <2>3. \A s \in Threads : pc'[s] = IF s = t THEN "idle" ELSE pc[s]
    BY <2>1, <1>1
  <2>4. MutexHeld'
    BY <2>1, <2>2, <2>3, <1>1 DEF MutexHeld
  <2>5. BufferFresh'
    BY <1>2, <2>3 DEF LockInv, BufferFresh
  <2> QED BY <2>4, <2>5 DEF LockInv
<1>3. ASSUME NEW t \in Threads, NEW req \in Requests, ReadAt(t, req) PROVE LockInv'
  <2>1. /\ holder' = holder /\ pc[t] = "idle"
        /\ \A s \in Threads : pc'[s] = pc[s] \/ (s = t /\ pc'[s] \in {"idle", "lock"})
        /\ \A s \in Threads : buf'[s] = IF s = t THEN <<>> ELSE buf[s]
    BY <1>3, <1>1 DEF ReadAt
  <2>2. MutexHeld'
    BY <2>1 DEF LockInv, MutexHeld
  <2>3. BufferFresh'
    BY <2>1 DEF LockInv, BufferFresh
  <2> QED BY <2>2, <2>3 DEF LockInv
<1>4. ASSUME NEW t \in Threads, Lock(t) PROVE LockInv'
  <2>1. /\ holder = NoThread /\ holder' = t /\ pc[t] = "lock" /\ buf' = buf
        /\ \A s \in Threads : pc'[s] = IF s = t THEN "seek" ELSE pc[s]
    BY <1>4, <1>1 DEF Lock
  <2>2. MutexHeld'
    BY <2>1, <1>1 DEF LockInv, MutexHeld
  <2>3. BufferFresh'
    BY <2>1 DEF LockInv, BufferFresh
  <2> QED BY <2>2, <2>3 DEF LockInv
<1>5. ASSUME NEW t \in Threads, SeekTo(t) PROVE LockInv'
  <2> DEFINE o == SeekOutcome(rd, pos, "Start", call[t].offset)
  <2>1. /\ pc[t] = "seek" /\ buf' = buf
        /\ \/ pc' = [pc EXCEPT ![t] = "read"] /\ holder' = holder
           \/ Finish(t, Fails(o.res))
    BY <1>5 DEF SeekTo
  <2> HIDE DEF o
  <2>2. CASE Finish(t, Fails(o.res))
    BY <2>1, <2>2, <1>2
  <2>3. CASE pc' = [pc EXCEPT ![t] = "read"] /\ holder' = holder
    <3>1. \A s \in Threads : pc'[s] = IF s = t THEN "read" ELSE pc[s]
      BY <2>3, <1>1
    <3>2. MutexHeld'
      BY <2>1, <2>3, <3>1 DEF LockInv, MutexHeld
    <3>3. BufferFresh'
      BY <2>1, <3>1 DEF LockInv, BufferFresh
    <3> QED BY <3>2, <3>3 DEF LockInv
  <2> QED BY <2>1, <2>2, <2>3
<1>6. ASSUME NEW t \in Threads, ReadMore(t) PROVE LockInv'
  <2> DEFINE o == ReadOutcome(rd, pos, Want(t) - Len(buf[t]))
  <2>1. /\ pc[t] = "read"
        /\ buf' = [buf EXCEPT ![t] = @ \o o.bytes]
        /\ \/ Finish(t, o)
           \/ Finish(t, Returns(buf[t]))
           \/ pc' = pc /\ holder' = holder
    BY <1>6 DEF ReadMore
  <2>2. \A s \in Threads : s # t => buf'[s] = buf[s]
    BY <2>1, <1>1
  <2> HIDE DEF o
  <2>3. CASE pc' = pc /\ holder' = holder
    <3>1. MutexHeld'
      BY <2>3 DEF LockInv, MutexHeld
    <3>2. BufferFresh'
      BY <2>1, <2>2, <2>3 DEF LockInv, BufferFresh
    <3> QED BY <3>1, <3>2 DEF LockInv
  <2> QED BY <2>1, <2>2, <2>3, <1>2
<1>7. ASSUME NEW t \in Threads, ReadFault(t) \/ Done(t) PROVE LockInv'
  <2>1. /\ pc[t] = "read" /\ buf' = buf
        /\ Finish(t, Fails("err")) \/ Finish(t, Returns(buf[t]))
    BY <1>7 DEF ReadFault, Done
  <2> QED BY <2>1, <1>2
<1>8. CASE UNCHANGED vars
  BY <1>8 DEF vars, LockInv, MutexHeld, BufferFresh
<1> QED BY <1>3, <1>4, <1>5, <1>6, <1>7, <1>8 DEF Next, Step

\* The shared cursor belongs to the holder: only it moves the cursor, and by
\* what it reads.
LEMMA CursorStep ==
    TypeOK /\ LockInv /\ CursorFollowsHolder /\ [Next]_vars => CursorFollowsHolder'
<1> SUFFICES ASSUME TypeOK, LockInv, CursorFollowsHolder, [Next]_vars
             PROVE  CursorFollowsHolder'
  OBVIOUS
<1>1. /\ pc \in [Threads -> {"idle", "lock", "seek", "read"}]
      /\ buf \in [Threads -> Seq(Byte)]
      /\ call \in [Threads -> [offset : U64s, len : U64s]]
  BY DEF TypeOK
\* Nobody else is in its loop while t is in its critical section.
<1>2. ASSUME NEW t \in Threads, pc[t] \in {"seek", "read"}, NEW s \in Threads, s # t
      PROVE  pc[s] # "read"
  BY <1>2 DEF LockInv, MutexHeld
<1>3. ASSUME NEW t \in Threads, pc[t] \in {"seek", "read"}, NEW o, Finish(t, o)
      PROVE  CursorFollowsHolder'
  <2>1. \A s \in Threads : pc'[s] = IF s = t THEN "idle" ELSE pc[s]
    BY <1>1, <1>3 DEF Finish
  <2>2. \A s \in Threads : pc'[s] # "read"
    BY <2>1, <1>2, <1>3
  <2> QED BY <2>2 DEF CursorFollowsHolder
<1>4. ASSUME NEW t \in Threads, NEW req \in Requests, ReadAt(t, req)
      PROVE  CursorFollowsHolder'
  <2>1. /\ pos' = pos /\ pc'[t] # "read"
        /\ \A s \in Threads : s # t => /\ pc'[s] = pc[s]
                                     /\ call'[s] = call[s]
                                     /\ buf'[s] = buf[s]
    BY <1>1, <1>4 DEF ReadAt
  <2> QED BY <2>1 DEF CursorFollowsHolder
<1>5. ASSUME NEW t \in Threads, Lock(t) PROVE CursorFollowsHolder'
  <2>1. /\ pos' = pos /\ call' = call /\ buf' = buf
        /\ \A s \in Threads : pc'[s] = IF s = t THEN "seek" ELSE pc[s]
    BY <1>1, <1>5 DEF Lock
  <2> QED BY <2>1 DEF CursorFollowsHolder
<1>6. ASSUME NEW t \in Threads, SeekTo(t) PROVE CursorFollowsHolder'
  <2> DEFINE o == SeekOutcome(rd, pos, "Start", call[t].offset)
  <2>1. /\ pc[t] = "seek" /\ buf' = buf /\ call' = call /\ pos' = o.pos
        /\ IF o.res = "ok" THEN pc' = [pc EXCEPT ![t] = "read"] ELSE Finish(t, Fails(o.res))
    BY <1>6 DEF SeekTo
  <2>2. CASE o.res # "ok"
    BY <2>1, <2>2, <1>3
  <2>3. CASE o.res = "ok"
    <3>1. call[t].offset \in U64s
      BY <1>1
    <3>2. o.pos = call[t].offset
      BY <3>1, <2>3, SeekStartExact
    <3> HIDE DEF o
    <3>3. \A s \in Threads : pc'[s] = "read" => s = t
      <4>1. \A s \in Threads : pc'[s] = IF s = t THEN "read" ELSE pc[s]
        BY <2>1, <2>3, <1>1
      <4> QED BY <4>1, <2>1, <1>2
    <3>4. Len(buf[t]) = 0
      BY <2>1 DEF LockInv, BufferFresh
    <3>5. call[t].offset \in Nat
      BY <3>1, WordHalves DEF U64s
    <3> QED BY <2>1, <3>2, <3>3, <3>4, <3>5 DEF CursorFollowsHolder
  <2> QED BY <2>2, <2>3
<1>7. ASSUME NEW t \in Threads, ReadMore(t) PROVE CursorFollowsHolder'
  <2> DEFINE o == ReadOutcome(rd, pos, Want(t) - Len(buf[t]))
  <2>1. /\ pc[t] = "read" /\ call' = call /\ pos' = pos + Len(o.bytes)
        /\ buf' = [buf EXCEPT ![t] = @ \o o.bytes]
        /\ \/ Finish(t, o)
           \/ Finish(t, Returns(buf[t]))
           \/ pc' = pc
    BY <1>7 DEF ReadMore
  <2>2. o.bytes \in Seq(Byte)
    <3>1. Want(t) - Len(buf[t]) \in Nat
      BY <1>7, WantTyped DEF ReadMore
    <3> QED BY <3>1, ReadTyped DEF TypeOK, IsAnswer
  <2> HIDE DEF o
  <2>3. CASE pc' = pc
    <3>1. \A s \in Threads : pc'[s] = "read" => s = t
      BY <2>1, <2>3, <1>2
    <3>2. buf'[t] = buf[t] \o o.bytes
      BY <2>1, <1>1
    <3>3. Len(buf'[t]) = Len(buf[t]) + Len(o.bytes)
      <4>1. buf[t] \in Seq(Byte)
        BY <1>1
      <4> QED BY <3>2, <4>1, <2>2
    <3>4. pos = call[t].offset + Len(buf[t])
      BY <2>1 DEF CursorFollowsHolder
    <3>5. call[t].offset \in Nat /\ Len(buf[t]) \in Nat /\ Len(o.bytes) \in Nat
      <4>1. call[t].offset \in U64s /\ buf[t] \in Seq(Byte)
        BY <1>1
      <4> QED BY <4>1, <2>2, WordHalves DEF U64s
    <3>6. pos' = call'[t].offset + Len(buf'[t])
      <4> DEFINE from == call[t].offset
                 had == Len(buf[t])
                 got == Len(o.bytes)
      <4>1. from \in Nat /\ had \in Nat /\ got \in Nat
        BY <3>5
      <4>2. pos' = (from + had) + got /\ Len(buf'[t]) = had + got /\ call'[t].offset = from
        BY <2>1, <3>3, <3>4
      <4> HIDE DEF from, had, got
      <4> QED BY <4>1, <4>2
    <3> QED BY <3>1, <3>6 DEF CursorFollowsHolder
  <2> QED BY <2>1, <2>3, <1>3
<1>8. ASSUME NEW t \in Threads, ReadFault(t) \/ Done(t) PROVE CursorFollowsHolder'
  <2>1. pc[t] = "read" /\ (Finish(t, Fails("err")) \/ Finish(t, Returns(buf[t])))
    BY <1>8 DEF ReadFault, Done
  <2> QED BY <2>1, <1>3
<1>9. CASE UNCHANGED vars
  BY <1>9 DEF vars, CursorFollowsHolder
<1> QED BY <1>4, <1>5, <1>6, <1>7, <1>8, <1>9 DEF Next, Step

\* While a call of read_at reads, the shared cursor stands right behind the
\* bytes it has got, whatever other threads ask for, with any number of
\* threads, failures and panics.
THEOREM SourceCursorFollowsHolder == Spec => []CursorFollowsHolder
<1>1. Init => CursorFollowsHolder
  BY DEF Init, CursorFollowsHolder
<1>2. Init => TypeOK /\ LockInv /\ CursorFollowsHolder
  BY <1>1, TypeOKInit, LockInvInit
<1>3. TypeOK /\ LockInv /\ CursorFollowsHolder /\ [Next]_vars
        => (TypeOK /\ LockInv /\ CursorFollowsHolder)'
  BY TypeOKStep, LockInvStep, CursorStep
<1> QED BY <1>2, <1>3, PTL DEF Spec

-----------------------------------------------------------------------------
(* The source implements PositionedRead.                                   *)

\* A call that waits for the lock or holds it starts below the end of the disk.
WithinDisk == \A t \in Threads : pc[t] # "idle" => call[t].offset < rd.virtual_size

\* What a call has read is the piece of the disk behind its offset.
BufferOfDisk ==
    \A t \in Threads : pc[t] = "read" =>
        /\ Len(buf[t]) <= Want(t)
        /\ Readable => \A i \in 1 .. Len(buf[t]) : buf[t][i] = disk[call[t].offset + i - 1]

Inv ==
    /\ TypeOK
    /\ LockInv
    /\ CursorFollowsHolder
    /\ WithinDisk
    /\ BufferOfDisk

\* The invariant holds before the first call.
LEMMA InvInit == Init => Inv
<1> SUFFICES ASSUME Init PROVE Inv
  OBVIOUS
<1>1. TypeOK /\ LockInv
  BY TypeOKInit, LockInvInit
<1>2. \A t \in Threads : pc[t] = "idle"
  BY DEF Init
<1>3. CursorFollowsHolder /\ WithinDisk /\ BufferOfDisk
  BY <1>2 DEF CursorFollowsHolder, WithinDisk, BufferOfDisk
<1> QED BY <1>1, <1>3 DEF Inv

\* The numbers of a call that is not idle.
LEMMA CallNumbers ==
    ASSUME TypeOK, WithinDisk, NEW t \in Threads, pc[t] # "idle"
    PROVE  /\ call[t].offset \in Nat /\ call[t].len \in Nat /\ rd.virtual_size \in Nat
           /\ Want(t) = Least(call[t].len, rd.virtual_size - call[t].offset)
           /\ Want(t) \in Nat /\ call[t].offset + Want(t) <= rd.virtual_size
           /\ Len(buf[t]) \in Nat
<1> DEFINE offset == call[t].offset
           len == call[t].len
           size == rd.virtual_size
<1>1. offset \in Nat /\ len \in Nat /\ size \in Nat /\ Len(buf[t]) \in Nat
  <2>1. call[t] \in [offset : U64s, len : U64s] /\ buf[t] \in Seq(Byte) /\ IsReader(rd)
    BY DEF TypeOK
  <2> QED BY <2>1, ReaderNumbers, WordHalves DEF U64s
<1>2. offset < size
  BY DEF WithinDisk
<1>3. Want(t) = Least(len, SaturatingSub(size, offset))
  BY DEF Want
<1> HIDE DEF offset, len, size
<1>4. SaturatingSub(size, offset) = size - offset
  BY <1>1, <1>2 DEF SaturatingSub
<1>5. Least(len, size - offset) \in Nat /\ offset + Least(len, size - offset) <= size
  BY <1>1, <1>2 DEF Least
<1> QED BY <1>1, <1>3, <1>4, <1>5 DEF offset, len, size

\* An image the source makes a promise of is one reads are sound over.
LEMMA ReadableSound ==
    ASSUME IsReader(rd), Readable
    PROVE  SoundImage(rd, file.plain)
<1> DEFINE m == rd.loaded_map
<1>1. IsLoadedMap(m) /\ WellStored(rd, file.plain) /\ Len(m.entries) \in Nat
  BY DEF IsReader, IsLoadedMap, Readable
<1>2. ASSUME NEW i \in 1 .. Len(m.entries), NEW j \in 1 .. Len(m.entries), i < j
      PROVE  EndOf(m.entries[i]) <= m.entries[j].map_offset
  <2>1. i + 1 \in 1 .. Len(m.entries) /\ i < Len(m.entries) /\ (i + 1 = j \/ i + 1 < j)
    BY <1>1, <1>2
  <2>2. EndOf(m.entries[i]) <= m.entries[i + 1].map_offset
    BY <2>1 DEF Readable
  <2>3. m.entries[i + 1].map_offset <= m.entries[j].map_offset
    <3>1. CASE i + 1 = j
      BY <3>1, <1>1, EntryNumbers
    <3>2. CASE i + 1 < j
      BY <3>2, <2>1, <1>1 DEF IsLoadedMap, Sorted
    <3> QED BY <3>1, <3>2, <2>1
  <2>4. /\ EndOf(m.entries[i]) \in Nat /\ m.entries[i + 1].map_offset \in Nat
        /\ m.entries[j].map_offset \in Nat
    BY <2>1, <1>1, EntryNumbers
  <2>5. \A x, y, z \in Nat : x <= y /\ y <= z => x <= z
    OBVIOUS
  <2> QED BY <2>2, <2>3, <2>4, <2>5
<1>3. ASSUME NEW i \in 1 .. Len(m.entries)
      PROVE  LET e == m.entries[i]
             IN  /\ OverflowChecks \/ (EndOf(e) < Word /\ e.target_offset + e.length < Word)
                 /\ KindOf(m, e) = ImageStreamKind
                      => e.target_offset + e.length <= rd.image_stream_size
  <2> DEFINE e == m.entries[i]
  <2>1. /\ OverflowChecks \/ Greatest(EndOf(e), e.target_offset + e.length) < Word
        /\ KindOf(m, e) = ImageStreamKind => e.target_offset + e.length <= rd.image_stream_size
    BY DEF Readable
  <2>2. /\ EndOf(e) \in Nat /\ e.target_offset \in Nat /\ e.length \in Nat
    BY <1>1, EntryNumbers
  <2>3. Word \in Nat
    BY WordAssumption
  <2>4. \A a, b \in Nat : Greatest(a, b) < Word => a < Word /\ b < Word
    BY <2>3 DEF Greatest
  <2> HIDE DEF e
  <2>5. e.target_offset + e.length \in Nat
    BY <2>2
  <2> QED BY <2>1, <2>2, <2>4, <2>5 DEF e
<1>4. SoundMap(m, rd.image_stream_size)
  BY <1>2, <1>3 DEF SoundMap
<1> QED BY <1>1, <1>4 DEF SoundImage

\* One read of the loop gets a piece of the disk that fits behind what the call
\* has, or nothing at all; it does not stop short of what the call wants.
LEMMA LoopRead ==
    ASSUME Inv, NEW t \in Threads, pc[t] = "read", Len(buf[t]) < Want(t)
    PROVE  LET o == ReadOutcome(rd, pos, Want(t) - Len(buf[t]))
           IN  /\ o.bytes \in Seq(Byte)
               /\ Len(buf[t]) + Len(o.bytes) <= Want(t)
               /\ o.res # "ok" => o.bytes = <<>>
               /\ o.res = "ok" /\ Readable =>
                     /\ o.bytes # <<>>
                     /\ \A i \in 1 .. Len(o.bytes) :
                           o.bytes[i] = disk[call[t].offset + (Len(buf[t]) + i) - 1]
<1> DEFINE had == Len(buf[t])
           want == Want(t)
           offset == call[t].offset
           size == rd.virtual_size
           o == ReadOutcome(rd, pos, want - had)
<1>1. IsReader(rd) /\ pos \in U64s /\ TypeOK /\ WithinDisk
  BY DEF Inv, TypeOK
<1>2. /\ had \in Nat /\ want \in Nat /\ offset \in Nat /\ size \in Nat
      /\ offset + want <= size /\ had < want
  BY <1>1, CallNumbers
<1>3. pos = offset + had
  BY DEF Inv, CursorFollowsHolder
<1>4. want - had \in Nat \ {0} /\ pos \in Nat /\ pos < size
  <2> HIDE DEF had, want, offset, size
  <2> QED BY <1>2, <1>3
<1>5. IsAnswer(o, want - had)
  BY <1>1, <1>4, ReadTyped
<1>6. o.bytes \in Seq(Byte) /\ (o.res # "ok" => o.bytes = <<>>) /\ Len(o.bytes) <= want - had
  BY <1>5 DEF IsAnswer
<1>7. had + Len(o.bytes) <= want
  <2> DEFINE got == Len(o.bytes)
  <2>1. got \in Nat /\ got <= want - had
    BY <1>6
  <2> HIDE DEF had, want, got
  <2>2. had + got <= want
    BY <1>2, <2>1
  <2> QED BY <2>2 DEF got
<1>8. ASSUME o.res = "ok", Readable
      PROVE  /\ o.bytes # <<>>
             /\ \A i \in 1 .. Len(o.bytes) : o.bytes[i] = disk[offset + (had + i) - 1]
  <2>1. SoundImage(rd, file.plain)
    BY <1>1, <1>8, ReadableSound
  <2>2. /\ Len(o.bytes) \in 1 .. want - had
        /\ pos + Len(o.bytes) <= size
        /\ \A i \in 1 .. Len(o.bytes) : o.bytes[i] = DiskByte(rd, file.plain, pos + (i - 1))
    BY <2>1, <1>1, <1>4, <1>8, ReadSound
  <2>3. disk = [p \in 0 .. size - 1 |-> DiskByte(rd, file.plain, p)]
    BY DEF Inv, TypeOK, DiskOf
  <2> HIDE DEF o, had, want, offset, size
  <2>4. ASSUME NEW i \in 1 .. Len(o.bytes) PROVE o.bytes[i] = disk[offset + (had + i) - 1]
    <3>1. /\ pos + (i - 1) \in 0 .. size - 1
          /\ offset + (had + i) - 1 = pos + (i - 1)
      BY <2>2, <1>2, <1>3, <1>4
    <3> QED BY <3>1, <2>2, <2>3
  <2>5. o.bytes # <<>>
    BY <2>2, <1>4
  <2> QED BY <2>4, <2>5
<1> QED BY <1>6, <1>7, <1>8

\* read_at answers a call at or past the end before it takes the lock.
LEMMA WithinDiskStep == Inv /\ [Next]_vars => WithinDisk'
<1> SUFFICES ASSUME Inv, [Next]_vars PROVE WithinDisk'
  OBVIOUS
<1>1. /\ TypeOK /\ WithinDisk /\ rd' = rd
      /\ pc \in [Threads -> {"idle", "lock", "seek", "read"}]
      /\ call \in [Threads -> [offset : U64s, len : U64s]]
  BY DEF Inv, TypeOK, Next, Step, ReadAt, Lock, SeekTo, ReadMore, ReadFault, Done, fixed, vars
\* A call that goes on stays where it starts; only read_at starts one.
<1>2. ASSUME call' = call, \A t \in Threads : pc'[t] # "idle" => pc[t] # "idle"
      PROVE  WithinDisk'
  BY <1>1, <1>2 DEF WithinDisk
<1>3. ASSUME NEW t \in Threads, NEW req \in Requests, ReadAt(t, req) PROVE WithinDisk'
  <2>1. /\ \A s \in Threads : call'[s] = IF s = t THEN req ELSE call[s]
        /\ \A s \in Threads : s # t => pc'[s] = pc[s]
        /\ pc'[t] # "idle" => SaturatingSub(rd.virtual_size, req.offset) # 0
    BY <1>1, <1>3 DEF ReadAt
  <2>2. req.offset \in Nat /\ rd.virtual_size \in Nat
    <3>1. IsReader(rd) /\ req \in [offset : U64s, len : U64s]
      BY <1>1, ThreadAssumption DEF TypeOK
    <3> QED BY <3>1, ReaderNumbers, WordHalves DEF U64s
  <2>3. SaturatingSub(rd.virtual_size, req.offset) # 0 => req.offset < rd.virtual_size
    BY <2>2 DEF SaturatingSub
  <2> QED BY <1>1, <2>1, <2>3 DEF WithinDisk
<1>4. ASSUME NEW t \in Threads, Lock(t) PROVE WithinDisk'
  <2>1. call' = call /\ pc[t] = "lock" /\ pc' = [pc EXCEPT ![t] = "seek"]
    BY <1>4 DEF Lock
  <2> QED BY <1>1, <1>2, <2>1
<1>5. ASSUME NEW t \in Threads, NEW o, Finish(t, o), call' = call PROVE WithinDisk'
  <2>1. pc' = [pc EXCEPT ![t] = "idle"]
    BY <1>5 DEF Finish
  <2> QED BY <1>1, <1>2, <1>5, <2>1
<1>6. ASSUME NEW t \in Threads, SeekTo(t) PROVE WithinDisk'
  <2>1. /\ call' = call /\ pc[t] = "seek"
        /\ \/ pc' = [pc EXCEPT ![t] = "read"]
           \/ Finish(t, Fails(SeekOutcome(rd, pos, "Start", call[t].offset).res))
    BY <1>6 DEF SeekTo
  <2>2. CASE pc' = [pc EXCEPT ![t] = "read"]
    BY <1>1, <1>2, <2>1, <2>2
  <2> QED BY <1>5, <2>1, <2>2
<1>7. ASSUME NEW t \in Threads, ReadMore(t) \/ ReadFault(t) \/ Done(t) PROVE WithinDisk'
  <2>1. /\ call' = call
        /\ pc' = pc \/ \E o : Finish(t, o)
    BY <1>7 DEF ReadMore, ReadFault, Done
  <2> QED BY <1>2, <1>5, <2>1
<1>8. CASE UNCHANGED vars
  BY <1>2, <1>8 DEF vars
<1> QED BY <1>3, <1>4, <1>6, <1>7, <1>8 DEF Next, Step

\* What a thread has gathered stays the disk's bytes from its own offset on.
LEMMA BufferOfDiskStep == Inv /\ [Next]_vars => BufferOfDisk'
<1> SUFFICES ASSUME Inv, [Next]_vars PROVE BufferOfDisk'
  OBVIOUS
<1>1. /\ TypeOK /\ WithinDisk /\ BufferOfDisk /\ UNCHANGED fixed
      /\ pc \in [Threads -> {"idle", "lock", "seek", "read"}]
      /\ buf \in [Threads -> Seq(Byte)]
      /\ call \in [Threads -> [offset : U64s, len : U64s]]
  BY DEF Inv, TypeOK, Next, Step, ReadAt, Lock, SeekTo, ReadMore, ReadFault, Done, fixed, vars
<1>2. Readable' = Readable /\ disk' = disk /\ rd' = rd
  BY <1>1 DEF Readable, fixed
\* A thread whose call and buffer stay as they are keeps what it has.
<1>3. ASSUME NEW s \in Threads, pc[s] = "read", call'[s] = call[s], buf'[s] = buf[s]
      PROVE  /\ Len(buf'[s]) <= Want(s)'
             /\ Readable' => \A i \in 1 .. Len(buf'[s]) : buf'[s][i] = disk'[call'[s].offset + i - 1]
  <2>1. Want(s)' = Want(s)
    BY <1>2, <1>3 DEF Want
  <2> QED BY <1>1, <1>2, <1>3, <2>1 DEF BufferOfDisk
<1>4. ASSUME \A s \in Threads : pc'[s] = "read" =>
                 pc[s] = "read" /\ call'[s] = call[s] /\ buf'[s] = buf[s]
      PROVE  BufferOfDisk'
  BY <1>3, <1>4 DEF BufferOfDisk
<1>5. ASSUME NEW t \in Threads, NEW o, Finish(t, o),
             \A s \in Threads : s # t => call'[s] = call[s] /\ buf'[s] = buf[s]
      PROVE  BufferOfDisk'
  <2>1. \A s \in Threads : pc'[s] = IF s = t THEN "idle" ELSE pc[s]
    BY <1>1, <1>5 DEF Finish
  <2> QED BY <1>4, <1>5, <2>1
<1>6. ASSUME NEW t \in Threads, NEW req \in Requests, ReadAt(t, req) PROVE BufferOfDisk'
  <2>1. /\ pc'[t] \in {"idle", "lock"}
        /\ \A s \in Threads : s # t => /\ pc'[s] = pc[s] /\ call'[s] = call[s]
                                       /\ buf'[s] = buf[s]
    BY <1>1, <1>6 DEF ReadAt
  <2> QED BY <1>4, <2>1
<1>7. ASSUME NEW t \in Threads, Lock(t) PROVE BufferOfDisk'
  <2>1. /\ call' = call /\ buf' = buf
        /\ \A s \in Threads : pc'[s] = IF s = t THEN "seek" ELSE pc[s]
    BY <1>1, <1>7 DEF Lock
  <2> QED BY <1>4, <2>1
<1>8. ASSUME NEW t \in Threads, SeekTo(t) PROVE BufferOfDisk'
  <2>1. /\ call' = call /\ buf' = buf /\ pc[t] = "seek"
        /\ \/ pc' = [pc EXCEPT ![t] = "read"]
           \/ Finish(t, Fails(SeekOutcome(rd, pos, "Start", call[t].offset).res))
    BY <1>8 DEF SeekTo
  <2>2. CASE pc' = [pc EXCEPT ![t] = "read"]
    <3>1. \A s \in Threads : pc'[s] = IF s = t THEN "read" ELSE pc[s]
      BY <1>1, <2>2
    <3>2. Want(t) \in Nat
      BY <1>1, WantTyped
    <3>3. buf[t] = <<>> /\ Want(t)' = Want(t)
      BY <2>1, <1>2 DEF Inv, LockInv, BufferFresh, Want
    <3>4. Len(buf'[t]) = 0 /\ 1 .. Len(buf'[t]) = {}
      BY <2>1, <3>3
    <3>5. /\ Len(buf'[t]) <= Want(t)'
          /\ Readable' => \A i \in 1 .. Len(buf'[t]) :
                             buf'[t][i] = disk'[call'[t].offset + i - 1]
      BY <3>2, <3>3, <3>4
    <3>6. \A s \in Threads : s # t /\ pc'[s] = "read" => pc[s] = "read"
      BY <3>1
    <3> QED BY <1>3, <2>1, <3>5, <3>6 DEF BufferOfDisk
  <2> QED BY <1>5, <2>1, <2>2
<1>9. ASSUME NEW t \in Threads, ReadMore(t) PROVE BufferOfDisk'
  <2> DEFINE o == ReadOutcome(rd, pos, Want(t) - Len(buf[t]))
             offset == call[t].offset
  <2>1. /\ pc[t] = "read" /\ Len(buf[t]) < Want(t) /\ call' = call
        /\ buf' = [buf EXCEPT ![t] = @ \o o.bytes]
        /\ \/ Finish(t, o)
           \/ Finish(t, Returns(buf[t]))
           \/ o.res = "ok" /\ pc' = pc
    BY <1>9 DEF ReadMore
  <2>2. \A s \in Threads : s # t => buf'[s] = buf[s] /\ call'[s] = call[s]
    BY <2>1, <1>1
  <2>3. CASE o.res = "ok" /\ pc' = pc
    <3>1. /\ o.bytes \in Seq(Byte)
          /\ Len(buf[t]) + Len(o.bytes) <= Want(t)
          /\ Readable => \A i \in 1 .. Len(o.bytes) :
                            o.bytes[i] = disk[offset + (Len(buf[t]) + i) - 1]
      BY <2>1, <2>3, LoopRead
    <3> HIDE DEF o
    <3> DEFINE old == buf[t]
               new == buf[t] \o o.bytes
    <3>2. buf'[t] = new /\ Want(t)' = Want(t) /\ offset' = offset
      BY <2>1, <1>1, <1>2 DEF Want
    <3>3. /\ old \in Seq(Byte) /\ Len(new) = Len(old) + Len(o.bytes)
          /\ \A i \in 1 .. Len(new) :
                new[i] = IF i <= Len(old) THEN old[i] ELSE o.bytes[i - Len(old)]
      BY <1>1, <3>1
    <3>4. Readable => \A i \in 1 .. Len(old) : old[i] = disk[offset + i - 1]
      BY <1>1, <2>1 DEF BufferOfDisk
    <3>5. ASSUME Readable, NEW i \in 1 .. Len(new) PROVE new[i] = disk[offset + i - 1]
      <4> HIDE DEF old, new, offset
      <4>1. CASE i <= Len(old)
        BY <3>3, <3>4, <3>5, <4>1
      <4>2. CASE ~(i <= Len(old))
        <5> DEFINE k == i - Len(old)
        <5>1. k \in 1 .. Len(o.bytes) /\ Len(old) + k = i
          BY <3>1, <3>3, <4>2
        <5> HIDE DEF k
        <5>2. new[i] = o.bytes[k]
          BY <3>3, <4>2 DEF k
        <5>3. o.bytes[k] = disk[offset + (Len(old) + k) - 1]
          BY <3>1, <3>5, <5>1 DEF old
        <5> QED BY <5>1, <5>2, <5>3
      <4> QED BY <4>1, <4>2
    <3>6. /\ Len(buf'[t]) <= Want(t)'
          /\ Readable' => \A i \in 1 .. Len(buf'[t]) :
                             buf'[t][i] = disk'[call'[t].offset + i - 1]
      BY <1>2, <3>1, <3>2, <3>3, <3>5
    <3> QED BY <1>3, <2>2, <2>3, <3>6 DEF BufferOfDisk
  <2> QED BY <1>5, <2>1, <2>2, <2>3
<1>10. ASSUME NEW t \in Threads, ReadFault(t) \/ Done(t) PROVE BufferOfDisk'
  <2>1. /\ call' = call /\ buf' = buf
        /\ Finish(t, Fails("err")) \/ Finish(t, Returns(buf[t]))
    BY <1>10 DEF ReadFault, Done
  <2> QED BY <1>5, <2>1
<1>11. CASE UNCHANGED vars
  BY <1>4, <1>11 DEF vars
<1> QED BY <1>6, <1>7, <1>8, <1>9, <1>10, <1>11 DEF Next, Step

\* Every step of every thread keeps the invariant.
LEMMA InvStep == Inv /\ [Next]_vars => Inv'
BY TypeOKStep, LockInvStep, CursorStep, WithinDiskStep, BufferOfDiskStep DEF Inv

\* How much a call gets, said by PositionedRead and by the code.
LEMMA WantedIsWant ==
    ASSUME Inv
    PROVE  /\ \A c : c.offset >= rd.virtual_size => Source!Wanted(c) = 0
           /\ \A t \in Threads : pc[t] # "idle" => Source!Wanted(call[t]) = Want(t)
<1>1. rd.virtual_size \in Nat
  BY ReaderNumbers DEF Inv, TypeOK
<1>2. Source!DiskSize = rd.virtual_size
  <2> DEFINE b == rd.virtual_size - 1
  <2>1. b \in Int /\ 0 \in Int /\ DOMAIN disk = 0 .. b
    BY <1>1 DEF Inv, TypeOK, DiskOf
  <2> HIDE DEF b
  <2>2. Cardinality(0 .. b) = IF 0 > b THEN 0 ELSE b - 0 + 1
    BY <2>1, FS_Interval
  <2>3. Source!DiskSize = Cardinality(DOMAIN disk)
    BY DEF Source!DiskSize, Source!Cardinality, Cardinality
  <2> QED BY <1>1, <2>1, <2>2, <2>3 DEF b
<1>3. ASSUME NEW t \in Threads, pc[t] # "idle" PROVE Source!Wanted(call[t]) = Want(t)
  <2>1. /\ call[t].offset \in Nat /\ call[t].offset < rd.virtual_size
        /\ Want(t) = Least(call[t].len, rd.virtual_size - call[t].offset)
    BY <1>3, CallNumbers DEF Inv, WithinDisk
  <2> QED BY <1>1, <1>2, <2>1 DEF Source!Wanted, Source!Least, Least
<1> QED BY <1>2, <1>3 DEF Source!Wanted

\* Each step of a thread is a step of PositionedRead or a stutter: a call is
\* asked for when read_at is entered and answered when the guard is dropped.
LEMMA SourceStep == Inv /\ Inv' /\ [Next]_vars => [Source!Next]_(Source!vars)
<1> SUFFICES ASSUME Inv, Inv', [Next]_vars PROVE Source!Next \/ UNCHANGED Source!vars
  OBVIOUS
<1>1. /\ pc \in [Threads -> {"idle", "lock", "seek", "read"}]
      /\ call \in [Threads -> [offset : U64s, len : U64s]]
      /\ DOMAIN answer = Threads
      /\ UNCHANGED fixed
  BY DEF Inv, TypeOK, Next, Step, ReadAt, Lock, SeekTo, ReadMore, ReadFault, Done, fixed, vars
<1>2. Readable' = Readable /\ disk' = disk /\ rd' = rd
  BY <1>1 DEF Readable, fixed
<1>3. CASE ~Readable
  BY <1>2, <1>3 DEF Source!vars
<1> SUFFICES ASSUME Readable PROVE Source!Next \/ UNCHANGED Source!vars
  BY <1>3
\* While a promise is made the mapped variables are those of the source.
<1> DEFINE waiting == {t \in Threads : pc[t] # "idle"}
<1>4. ASSUME waiting' = waiting, call' = call, answer' = answer PROVE UNCHANGED Source!vars
  BY <1>2, <1>4 DEF Source!vars
<1>5. ASSUME NEW t \in Threads, t \notin waiting, waiting' = waiting \cup {t}, answer' = answer,
             \A u \in Threads \ {t} : call'[u] = call[u]
      PROVE  Source!Ask(t)
  BY <1>2, <1>5 DEF Source!Ask
<1>6. ASSUME NEW t \in Threads, t \in waiting, waiting' = waiting \ {t}, call' = call,
             \A u \in Threads \ {t} : answer'[u] = answer[u],
             Source!RightAnswer(call[t], answer'[t])
      PROVE  Source!Answer(t)
  BY <1>2, <1>6 DEF Source!Answer
<1>7. ASSUME NEW t \in Threads, t \notin waiting, waiting' = waiting,
             \A u \in Threads \ {t} : answer'[u] = answer[u] /\ call'[u] = call[u],
             Source!RightAnswer(call'[t], answer'[t])
      PROVE  Source!AskAndAnswer(t)
  BY <1>2, <1>7 DEF Source!AskAndAnswer
\* The guard is dropped with a right answer.
<1>8. ASSUME NEW t \in Threads, pc[t] # "idle", NEW o, Finish(t, o), call' = call,
             Source!RightAnswer(call[t], o)
      PROVE  Source!Next
  <2>1. /\ \A s \in Threads : pc'[s] = IF s = t THEN "idle" ELSE pc[s]
        /\ \A s \in Threads : answer'[s] = IF s = t THEN o ELSE answer[s]
    BY <1>1, <1>8 DEF Finish
  <2>2. waiting' = waiting \ {t}
    BY <2>1
  <2>3. Source!Answer(t)
    BY <1>6, <1>8, <2>1, <2>2
  <2> QED BY <2>3 DEF Source!Next
\* A failure delivers nothing.
<1>9. ASSUME NEW t \in Threads, NEW o, o.res # "ok", o.bytes = <<>>
      PROVE  Source!RightAnswer(call[t], o)
  BY <1>9 DEF Source!RightAnswer
<1>10. ASSUME NEW t \in Threads, NEW req \in Requests, ReadAt(t, req) PROVE Source!Next
  <2>1. /\ pc[t] = "idle"
        /\ \A s \in Threads : call'[s] = IF s = t THEN req ELSE call[s]
    BY <1>1, <1>10 DEF ReadAt
  <2>2. CASE SaturatingSub(rd.virtual_size, req.offset) = 0
    <3>1. /\ pc' = pc
          /\ \A s \in Threads : answer'[s] = IF s = t THEN Returns(<<>>) ELSE answer[s]
      BY <1>1, <1>10, <2>2 DEF ReadAt
    <3>2. req.offset \in Nat /\ rd.virtual_size \in Nat
      <4>1. IsReader(rd) /\ req \in [offset : U64s, len : U64s]
        BY ThreadAssumption DEF Inv, TypeOK
      <4> QED BY <4>1, ReaderNumbers, WordHalves DEF U64s
    <3>3. req.offset >= rd.virtual_size
      BY <2>2, <3>2 DEF SaturatingSub
    <3>4. Source!Wanted(req) = 0
      BY <3>3, WantedIsWant
    <3>5. Source!RightAnswer(req, Returns(<<>>))
      BY <3>4 DEF Source!RightAnswer, Returns
    <3>6. Source!AskAndAnswer(t)
      BY <1>7, <2>1, <3>1, <3>5
    <3> QED BY <3>6 DEF Source!Next
  <2>3. CASE SaturatingSub(rd.virtual_size, req.offset) # 0
    <3>1. answer' = answer /\ \A s \in Threads : pc'[s] = IF s = t THEN "lock" ELSE pc[s]
      BY <1>1, <1>10, <2>3 DEF ReadAt
    <3>2. waiting' = waiting \cup {t} /\ t \notin waiting
      BY <2>1, <3>1
    <3>3. Source!Ask(t)
      BY <1>5, <2>1, <3>1, <3>2
    <3> QED BY <3>3 DEF Source!Next
  <2> QED BY <2>2, <2>3
<1>11. ASSUME NEW t \in Threads, Lock(t) PROVE UNCHANGED Source!vars
  <2>1. /\ pc[t] = "lock" /\ call' = call /\ answer' = answer
        /\ \A s \in Threads : pc'[s] = IF s = t THEN "seek" ELSE pc[s]
    BY <1>1, <1>11 DEF Lock
  <2>2. waiting' = waiting
    BY <2>1
  <2> QED BY <1>4, <2>1, <2>2
<1>12. ASSUME NEW t \in Threads, SeekTo(t) PROVE Source!Next \/ UNCHANGED Source!vars
  <2> DEFINE o == SeekOutcome(rd, pos, "Start", call[t].offset)
  <2>1. /\ pc[t] = "seek" /\ call' = call
        /\ \/ pc' = [pc EXCEPT ![t] = "read"] /\ answer' = answer
           \/ o.res # "ok" /\ Finish(t, Fails(o.res))
    BY <1>12 DEF SeekTo
  <2> HIDE DEF o
  <2>2. CASE pc' = [pc EXCEPT ![t] = "read"] /\ answer' = answer
    <3>1. \A s \in Threads : pc'[s] = IF s = t THEN "read" ELSE pc[s]
      BY <1>1, <2>2
    <3>2. waiting' = waiting
      BY <2>1, <3>1
    <3> QED BY <1>4, <2>1, <2>2, <3>2
  <2>3. CASE o.res # "ok" /\ Finish(t, Fails(o.res))
    <3>1. Source!RightAnswer(call[t], Fails(o.res))
      BY <1>9, <2>3 DEF Fails
    <3> QED BY <1>8, <2>1, <2>3, <3>1
  <2> QED BY <2>1, <2>2, <2>3
<1>13. ASSUME NEW t \in Threads, ReadMore(t) PROVE Source!Next \/ UNCHANGED Source!vars
  <2> DEFINE o == ReadOutcome(rd, pos, Want(t) - Len(buf[t]))
  <2>1. /\ pc[t] = "read" /\ Len(buf[t]) < Want(t) /\ call' = call
        /\ IF o.res # "ok" THEN Finish(t, o)
           ELSE IF o.bytes = <<>> THEN Finish(t, Returns(buf[t]))
           ELSE UNCHANGED <<pc, answer, holder, poisoned>>
    BY <1>13 DEF ReadMore
  <2>2. /\ o.res # "ok" => o.bytes = <<>>
        /\ o.res = "ok" => o.bytes # <<>>
    BY <2>1, LoopRead
  <2> HIDE DEF o
  <2>3. CASE o.res # "ok"
    BY <1>8, <1>9, <2>1, <2>2, <2>3
  <2>4. CASE o.res = "ok"
    <3>1. waiting' = waiting /\ answer' = answer
      BY <2>1, <2>2, <2>4
    <3> QED BY <1>4, <2>1, <3>1
  <2> QED BY <2>3, <2>4
<1>14. ASSUME NEW t \in Threads, ReadFault(t) PROVE Source!Next
  <2>1. pc[t] = "read" /\ call' = call /\ Finish(t, Fails("err"))
    BY <1>14 DEF ReadFault
  <2>2. Source!RightAnswer(call[t], Fails("err"))
    BY <1>9 DEF Fails
  <2> QED BY <1>8, <2>1, <2>2
<1>15. ASSUME NEW t \in Threads, Done(t) PROVE Source!Next
  <2>1. /\ pc[t] = "read" /\ call' = call /\ Finish(t, Returns(buf[t]))
        /\ Len(buf[t]) >= Want(t)
    BY <1>15 DEF Done
  <2>2. /\ buf[t] \in Seq(Byte) /\ Len(buf[t]) <= Want(t) /\ Want(t) \in Nat
        /\ \A i \in 1 .. Len(buf[t]) : buf[t][i] = disk[call[t].offset + i - 1]
    BY <2>1, CallNumbers DEF Inv, TypeOK, BufferOfDisk
  <2>3. Len(buf[t]) = Want(t) /\ Source!Wanted(call[t]) = Want(t)
    BY <2>1, <2>2, WantedIsWant
  <2>4. buf[t] = [i \in 1 .. Want(t) |-> disk[call[t].offset + i - 1]]
    BY <2>2, <2>3
  <2>5. Source!RightAnswer(call[t], Returns(buf[t]))
    BY <2>3, <2>4 DEF Source!RightAnswer, Returns
  <2> QED BY <1>8, <2>1, <2>5
<1>16. CASE UNCHANGED vars
  BY <1>4, <1>16 DEF vars
<1> HIDE DEF waiting
<1> QED BY <1>10, <1>11, <1>12, <1>13, <1>14, <1>15, <1>16 DEF Next, Step

\* read_at has no cursor, for any number of threads and calls, every container,
\* either build and every schedule: over an image on which a read can only be
\* right or fail, a call returns all the bytes of the disk it was asked for, or
\* fails with none, and leaves the answers of other threads alone, also after a
\* panic has poisoned the mutex.
THEOREM SourceIsPositionedRead == Spec => IsPositionedRead
<1>1. Init => Source!Init
  BY DEF Init, Source!Init
<1>2. Init => Inv
  BY InvInit
<1>3. Inv /\ [Next]_vars => Inv'
  BY InvStep
<1>4. Inv /\ Inv' /\ [Next]_vars => [Source!Next]_(Source!vars)
  BY SourceStep
<1> QED BY <1>1, <1>2, <1>3, <1>4, PTL DEF Spec, IsPositionedRead, Source!Spec

-----------------------------------------------------------------------------
(* Calls come to their end.                                                *)

\* A call that has not returned has a step left to take.
LEMMA LeftTyped ==
    ASSUME Inv, NEW t \in Threads, pc[t] # "idle"
    PROVE  /\ Want(t) \in Nat /\ Len(buf[t]) \in Nat
           /\ pc[t] \in {"lock", "seek", "read"}
           /\ pc[t] = "lock" => StepsLeft(t) = Want(t) + 3
           /\ pc[t] = "seek" => StepsLeft(t) = Want(t) + 2
           /\ pc[t] = "read" => /\ StepsLeft(t) = (Want(t) - Len(buf[t])) + 1
                               /\ Len(buf[t]) <= Want(t)
           /\ StepsLeft(t) \in Nat \ {0}
<1>1. Want(t) \in Nat /\ Len(buf[t]) \in Nat /\ pc[t] \in {"lock", "seek", "read"}
  BY CallNumbers DEF Inv, TypeOK
<1>2. /\ pc[t] = "lock" => StepsLeft(t) = Want(t) + 3
      /\ pc[t] = "seek" => StepsLeft(t) = Want(t) + 2
      /\ pc[t] = "read" => StepsLeft(t) = (Want(t) - Len(buf[t])) + 1
  BY DEF StepsLeft
<1>3. pc[t] = "read" => Len(buf[t]) <= Want(t)
  BY DEF Inv, BufferOfDisk
<1> DEFINE w == Want(t)
           n == Len(buf[t])
           left == StepsLeft(t)
<1>4. left \in Nat \ {0}
  <2>1. /\ w \in Nat /\ n \in Nat
        /\ pc[t] = "read" => left = (w - n) + 1 /\ n <= w
        /\ pc[t] # "read" => left = w + 3 \/ left = w + 2
    BY <1>1, <1>2, <1>3
  <2> HIDE DEF w, n, left
  <2> QED BY <2>1
<1> QED BY <1>1, <1>2, <1>3, <1>4

\* A thread touches no call but its own.
LEMMA StepOfOne ==
    ASSUME Inv, NEW t \in Threads, NEW u \in Threads \ {t},
           Step(t) \/ ReadFault(t) \/ \E req \in Requests : ReadAt(t, req)
    PROVE  UNCHANGED <<pc[u], call[u], buf[u], answer[u]>>
<1>1. /\ pc \in [Threads -> {"idle", "lock", "seek", "read"}]
      /\ call \in [Threads -> [offset : U64s, len : U64s]]
      /\ buf \in [Threads -> Seq(Byte)]
      /\ DOMAIN answer = Threads
  BY DEF Inv, TypeOK
<1>2. ASSUME NEW o, Finish(t, o) PROVE pc'[u] = pc[u] /\ answer'[u] = answer[u]
  BY <1>1, <1>2 DEF Finish
<1>3. call'[u] = call[u] /\ buf'[u] = buf[u]
  BY <1>1 DEF Step, ReadAt, Lock, SeekTo, ReadMore, ReadFault, Done
<1>4. CASE \E req \in Requests : ReadAt(t, req)
  BY <1>1, <1>3, <1>4 DEF ReadAt
<1>5. CASE Lock(t)
  BY <1>1, <1>3, <1>5 DEF Lock
<1>6. CASE SeekTo(t)
  <2>1. \/ pc' = [pc EXCEPT ![t] = "read"] /\ answer' = answer
        \/ \E o : Finish(t, o)
    BY <1>6 DEF SeekTo
  <2> QED BY <2>1, <1>1, <1>2, <1>3
<1>7. CASE ReadMore(t) \/ ReadFault(t) \/ Done(t)
  <2>1. \/ pc' = pc /\ answer' = answer
        \/ \E o : Finish(t, o)
    BY <1>7 DEF ReadMore, ReadFault, Done
  <2> QED BY <2>1, <1>2, <1>3
<1> QED BY <1>4, <1>5, <1>6, <1>7 DEF Step

\* A thread that takes a step within a call has fewer left after it.
LEMMA StepsFall ==
    ASSUME Inv, NEW t \in Threads, pc[t] # "idle", Step(t) \/ ReadFault(t)
    PROVE  StepsLeft(t)' \in 0 .. StepsLeft(t) - 1
<1> DEFINE Falls == StepsLeft(t)' \in 0 .. StepsLeft(t) - 1
<1>1. /\ pc \in [Threads -> {"idle", "lock", "seek", "read"}]
      /\ buf \in [Threads -> Seq(Byte)]
      /\ UNCHANGED fixed /\ call' = call
  BY DEF Inv, TypeOK, Step, Lock, SeekTo, ReadMore, ReadFault, Done, fixed
<1>2. /\ Want(t) \in Nat /\ Len(buf[t]) \in Nat /\ StepsLeft(t) \in Nat \ {0}
      /\ pc[t] = "lock" => StepsLeft(t) = Want(t) + 3
      /\ pc[t] = "seek" => StepsLeft(t) = Want(t) + 2
      /\ pc[t] = "read" => StepsLeft(t) = (Want(t) - Len(buf[t])) + 1
  BY LeftTyped
<1>3. Want(t)' = Want(t)
  BY <1>1 DEF Want, fixed
\* A call that returns has nothing left to do.
<1>4. ASSUME NEW o, Finish(t, o) PROVE Falls
  <2>1. pc'[t] = "idle"
    BY <1>1, <1>4 DEF Finish
  <2>2. StepsLeft(t)' = 0
    BY <2>1 DEF StepsLeft
  <2> HIDE DEF StepsLeft
  <2> QED BY <2>2, <1>2
<1>5. CASE Lock(t)
  <2>1. pc[t] = "lock" /\ pc'[t] = "seek"
    BY <1>1, <1>5 DEF Lock
  <2>2. StepsLeft(t)' = Want(t) + 2
    BY <2>1, <1>3 DEF StepsLeft
  <2> HIDE DEF StepsLeft
  <2> QED BY <2>1, <2>2, <1>2
<1>6. CASE SeekTo(t)
  <2>1. /\ pc[t] = "seek" /\ buf' = buf
        /\ \/ pc' = [pc EXCEPT ![t] = "read"]
           \/ \E o : Finish(t, o)
    BY <1>6 DEF SeekTo
  <2>2. CASE pc' = [pc EXCEPT ![t] = "read"]
    <3>1. pc'[t] = "read" /\ buf'[t] = <<>>
      BY <2>1, <2>2, <1>1 DEF Inv, LockInv, BufferFresh
    <3>2. StepsLeft(t)' = (Want(t) - 0) + 1
      BY <3>1, <1>3 DEF StepsLeft
    <3> HIDE DEF StepsLeft
    <3> QED BY <2>1, <3>2, <1>2
  <2> QED BY <2>1, <2>2, <1>4
<1>7. CASE ReadMore(t)
  <2> DEFINE o == ReadOutcome(rd, pos, Want(t) - Len(buf[t]))
  <2>1. /\ pc[t] = "read" /\ Len(buf[t]) < Want(t)
        /\ buf' = [buf EXCEPT ![t] = @ \o o.bytes]
        /\ \/ Finish(t, o)
           \/ Finish(t, Returns(buf[t]))
           \/ o.bytes # <<>> /\ pc' = pc
    BY <1>7 DEF ReadMore
  <2>2. o.bytes \in Seq(Byte) /\ Len(buf[t]) + Len(o.bytes) <= Want(t)
    BY <2>1, LoopRead
  <2> HIDE DEF o
  <2>3. CASE o.bytes # <<>> /\ pc' = pc
    <3>1. buf[t] \in Seq(Byte) /\ buf'[t] = buf[t] \o o.bytes
      BY <2>1, <1>1
    <3>2. Len(buf'[t]) = Len(buf[t]) + Len(o.bytes) /\ Len(o.bytes) \in Nat \ {0}
      BY <3>1, <2>2, <2>3
    <3>3. /\ StepsLeft(t)' = (Want(t) - (Len(buf[t]) + Len(o.bytes))) + 1
          /\ StepsLeft(t) = (Want(t) - Len(buf[t])) + 1
      BY <3>2, <2>1, <2>3, <1>3 DEF StepsLeft
    <3> DEFINE w == Want(t)
               had == Len(buf[t])
               got == Len(o.bytes)
    <3>4. w \in Nat /\ had \in Nat /\ got \in Nat \ {0} /\ had + got <= w
      BY <3>2, <2>2, <1>2
    <3> HIDE DEF w, had, got, StepsLeft
    <3>5. (w - (had + got)) + 1 \in 0 .. ((w - had) + 1) - 1
      BY <3>4
    <3> QED BY <3>3, <3>5 DEF w, had, got
  <2> QED BY <2>1, <2>3, <1>4
<1>8. CASE ReadFault(t) \/ Done(t)
  <2>1. \E o : Finish(t, o)
    BY <1>8 DEF ReadFault, Done
  <2> QED BY <2>1, <1>4
<1> QED BY <1>5, <1>6, <1>7, <1>8 DEF Step

\* A step of read_at belongs to one thread: with any number of threads, over every
\* container and through failures and panics, it brings that thread's call nearer to
\* its end and leaves the calls of all others as they are.
THEOREM SourceCallsAdvance == Spec => CallsAdvance
<1> DEFINE OfOne(t) == /\ pc[t] # "idle" => StepsLeft(t)' \in 0 .. StepsLeft(t) - 1
                       /\ \A u \in Threads \ {t} : UNCHANGED <<pc[u], call[u], buf[u], answer[u]>>
<1>1. Init => Inv
  BY InvInit
<1>2. Inv /\ [Next]_vars => Inv'
  BY InvStep
<1>3. Inv /\ [Next]_vars => [\E t \in Threads : OfOne(t)]_vars
  <2> SUFFICES ASSUME Inv, Next PROVE \E t \in Threads : OfOne(t)
    OBVIOUS
  <2>1. PICK t \in Threads : Step(t) \/ ReadFault(t) \/ \E req \in Requests : ReadAt(t, req)
    BY DEF Next
  <2>2. \A u \in Threads \ {t} : UNCHANGED <<pc[u], call[u], buf[u], answer[u]>>
    BY <2>1, StepOfOne
  <2>3. ASSUME pc[t] # "idle" PROVE StepsLeft(t)' \in 0 .. StepsLeft(t) - 1
    <3>1. Step(t) \/ ReadFault(t)
      BY <2>1, <2>3 DEF ReadAt
    <3> QED BY <3>1, <2>3, StepsFall
  <2>4. OfOne(t)
    BY <2>2, <2>3
  <2> QED BY <2>4
<1> QED BY <1>1, <1>2, <1>3, PTL DEF Spec, CallsAdvance
=============================================================================
