SPECIFICATION Spec
CONSTANTS
  Keys = {k1, k2, k3, k4}
  Sizes = {0, 1, 2, 3, 4}
  MaxEntry = 3
  LargeEntry = 1
  SmallBudget = 2
INVARIANTS BytesCounted WithinBudget
PROPERTIES OldestGoFirst PutIsHeld
