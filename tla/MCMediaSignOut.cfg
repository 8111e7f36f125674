SPECIFICATION Spec
SYMMETRY Symmetry
CONSTANTS
  Keys = {k1, k2}
  Requests = {r1, r2}
  Locks = {l1, l2}
  None = None
  Permits = 2
  MaxAccount = 1
INVARIANT NothingOfOldAccount
