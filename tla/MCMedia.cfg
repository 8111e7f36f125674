SPECIFICATION FairSpec
CONSTANTS
  Keys = {k1, k2}
  Requests = {r1, r2}
  Locks = {l1, l2}
  None = None
  Permits = 1
  MaxAccount = 0
INVARIANTS OneFlightPerKey NotFetchedTwice
PROPERTIES OversizedStays RequestsEnd
