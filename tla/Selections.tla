----------------------------- MODULE Selections -----------------------------
(***************************************************************************)
(* Filters and stable sorts of a Vec: the elements at some positions, in   *)
(* some order of the positions.                                            *)
(***************************************************************************)
EXTENDS Integers, FiniteSets

\* The elements of s at the positions S, in the strict total order R on S.
Arrange(s, S, R) ==
    [k \in 1 .. Cardinality(S) |->
        s[CHOOSE i \in S : Cardinality({j \in S : <<j, i>> \in R}) = k - 1]]

\* The order that a filter keeps.
Ascending(S) == {p \in S \X S : p[1] < p[2]}
=============================================================================
