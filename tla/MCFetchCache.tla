---------------------------- MODULE MCFetchCache ----------------------------
(* FetchCache for TLC: keys and requests are interchangeable, and every    *)
(* property checked is a safety property, so the symmetry is sound.        *)
EXTENDS FetchCache, TLC

Symmetry == Permutations(Keys) \cup Permutations(Requests)
=============================================================================
