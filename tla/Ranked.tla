------------------------------- MODULE Ranked -------------------------------
(***************************************************************************)
(* Sorting and filtering, by the rank of each element: how many there are  *)
(* up to it.  SelectSeq and SortSeq say the same, but have no definition   *)
(* the provers could expand.                                               *)
(***************************************************************************)
EXTENDS Naturals, FiniteSets, Sequences

\* The elements of S in order; upTo[i] are i and those that come before it.
Ranked(S, upTo) ==
    [k \in 1..Cardinality(S) |-> CHOOSE i \in S : Cardinality(upTo[i]) = k]

\* The elements of s at the positions listed.
At(s, positions) == [k \in DOMAIN positions |-> s[positions[k]]]

\* The elements of s at the positions of S, in place.
Kept(s, S) == At(s, Ranked(S, [i \in S |-> {j \in S : j <= i}]))
=============================================================================
