--------------------------- MODULE PositionedRead ---------------------------
(***************************************************************************)
(* What an ImageSource promises to the threads that share it: read_at has  *)
(* no cursor.  An answer depends on the content and on the call alone, as  *)
(* if every call ran by itself.                                            *)
(***************************************************************************)
EXTENDS Integers, Sequences, FiniteSets

CONSTANTS Threads

VARIABLES content,   \* the disk: a function on 0 .. size-1
          call,      \* per thread: its current or last call, [offset, len]
          waiting,   \* the threads whose call has not returned
          answer     \* per thread: [res, bytes] of its last finished call

vars == <<content, call, waiting, answer>>

Least(a, b) == IF a <= b THEN a ELSE b

DiskSize == Cardinality(DOMAIN content)

\* How many bytes a call gets: all it asks for, cut at the end of the disk.
Wanted(c) == IF c.offset >= DiskSize THEN 0 ELSE Least(c.len, DiskSize - c.offset)

\* The whole answer, or a failure with nothing in it.
RightAnswer(c, a) ==
    IF a.res = "ok"
    THEN a.bytes = [i \in 1 .. Wanted(c) |-> content[c.offset + i - 1]]
    ELSE a.bytes = <<>>

Init == waiting = {}

Ask(t) ==
    /\ t \notin waiting
    /\ waiting' = waiting \cup {t}
    /\ \A u \in Threads \ {t} : call'[u] = call[u]
    /\ UNCHANGED <<content, answer>>

Answer(t) ==
    /\ t \in waiting
    /\ waiting' = waiting \ {t}
    /\ RightAnswer(call[t], answer'[t])
    /\ \A u \in Threads \ {t} : answer'[u] = answer[u]
    /\ UNCHANGED <<content, call>>

\* A call that returns at once.
AskAndAnswer(t) ==
    /\ t \notin waiting
    /\ RightAnswer(call'[t], answer'[t])
    /\ \A u \in Threads \ {t} : answer'[u] = answer[u] /\ call'[u] = call[u]
    /\ UNCHANGED <<content, waiting>>

Next == \E t \in Threads : Ask(t) \/ Answer(t) \/ AskAndAnswer(t)

Spec == Init /\ [][Next]_vars
=============================================================================
