---------------------------- MODULE MCMediaProxy ----------------------------
(* MediaProxy for TLC: keys, requests and mutexes are interchangeable.  Used *)
(* in the runs that check safety properties only.                            *)
EXTENDS MediaProxy, TLC

Symmetry == Permutations(Keys) \cup Permutations(Requests) \cup Permutations(Locks)
=============================================================================
