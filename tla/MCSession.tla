------------------------------ MODULE MCSession ------------------------------
EXTENDS Session, TLC

\* Reports are only told apart.
Symmetry == Permutations(Report)
=============================================================================
