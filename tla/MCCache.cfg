SPECIFICATION Spec
SYMMETRY Symmetry
CONSTANTS
  Keys = {k1, k2}
  Requests = {r1, r2}
  Writers = {w1}
  Absent = Absent
  NoRequest = NoRequest
  MaxVersion = 1
  MaxAccount = 1
  MaxGeneration = 2
INVARIANTS JoinedIsFresh OneRequestPerKey
PROPERTY ImplementsStore
