---------------------------- MODULE VirtualDisk ----------------------------
(***************************************************************************)
(* What an opened image promises its client: a fixed content, a cursor,    *)
(* reads that deliver a non-empty piece of the content at the cursor       *)
(* (Read), seeks that go exactly where they were asked to (Seek), and      *)
(* failures that change nothing.                                           *)
(***************************************************************************)
EXTENDS Integers, Sequences, FiniteSets

CONSTANTS Limit      \* first position a cursor cannot take (2^63)

VARIABLES content,   \* the disk: a function on 0 .. size-1
          mounted,   \* the image is open
          cursor,
          answer     \* the last call and what it returned

vars == <<content, mounted, cursor, answer>>

DiskSize == Cardinality(DOMAIN content)

Init ==
    /\ mounted = FALSE
    /\ cursor = 0

Mount ==
    /\ mounted' \in BOOLEAN
    /\ cursor' = 0
    /\ answer'.op = "open"
    /\ (answer'.res = "ok") = mounted'
    /\ UNCHANGED content

\* A read delivers the content at the cursor, at most as much as asked, and
\* nothing only when nothing was asked or the cursor is at the end.
Read ==
    /\ mounted
    /\ answer'.op = "read"
    /\ answer'.res = "ok"
    /\ answer'.from = cursor
    /\ LET n == Len(answer'.bytes)
       IN  /\ n <= answer'.arg
           /\ cursor + n <= DiskSize \/ n = 0
           /\ n = 0 => answer'.arg = 0 \/ cursor >= DiskSize
           /\ \A i \in 1 .. n : answer'.bytes[i] = content[cursor + i - 1]
           /\ cursor' = cursor + n
    /\ UNCHANGED <<content, mounted>>

\* The medium failed: nothing is delivered and the cursor stays.
ReadFails ==
    /\ mounted
    /\ answer'.op = "read"
    /\ answer'.res # "ok"
    /\ answer'.bytes = <<>>
    /\ UNCHANGED <<content, mounted, cursor>>

Target(whence, n) ==
    CASE whence = "Start" -> n
      [] whence = "End" -> DiskSize + n
      [] whence = "Current" -> cursor + n

\* A position below Limit is reached, beyond the end of the disk too; any
\* other is refused.
Seek ==
    /\ mounted
    /\ answer'.op = "seek"
    /\ LET t == Target(answer'.whence, answer'.arg)
       IN  IF 0 <= t /\ t < Limit
           THEN answer'.res = "ok" /\ cursor' = t
           ELSE answer'.res # "ok" /\ cursor' = cursor
    /\ UNCHANGED <<content, mounted>>

Next == Mount \/ Read \/ ReadFails \/ Seek

Spec == Init /\ [][Next]_vars
============================================================================
