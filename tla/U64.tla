-------------------------------- MODULE U64 --------------------------------
(***************************************************************************)
(* Machine integers of the crate.  Offsets and lengths are u64, and Seek   *)
(* goes through i64.  Word stands for 2^64, so that the edges of the       *)
(* machine word are reachable on instances TLC can enumerate.              *)
(*                                                                         *)
(* The workspace sets no overflow-checks profile: a debug or fuzzing build *)
(* panics where an unchecked + overflows, a release build wraps.           *)
(* OverflowChecks selects the build.                                       *)
(***************************************************************************)
EXTENDS Integers

CONSTANTS Word,            \* 2^64, scaled
          OverflowChecks   \* TRUE: debug build, + panics; FALSE: it wraps

ASSUME WordAssumption ==
    /\ Word \in Nat \ {0}
    /\ Word % 2 = 0
    /\ OverflowChecks \in BOOLEAN

U64s == 0 .. Word - 1

\* First value that is negative when cast to i64 (2^63).
SignBit == Word \div 2

\* `a as i64`
AsI64(a) == IF a >= SignBit THEN a - Word ELSE a

\* Two's complement result of an i64 operation whose exact result is x.
WrapI64(x) == AsI64(x % Word)

FitsI64(x) == x >= -SignBit /\ x < SignBit

\* a + b in u64: what a release build computes, and whether a debug build panics.
Add64(a, b) == (a + b) % Word
AddPanics(a, b) == OverflowChecks /\ a + b >= Word

\* u64::saturating_sub, u64::min and u64::max
SaturatingSub(a, b) == IF a >= b THEN a - b ELSE 0
Least(a, b) == IF a <= b THEN a ELSE b
Greatest(a, b) == IF a >= b THEN a ELSE b
============================================================================
