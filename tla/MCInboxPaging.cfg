SPECIFICATION SpecListed
CONSTANTS
  a = a
  b = b
  Convs <- Both
  Filters <- WithFavourites
  Matches <- FavouriteA
  Fetches = {f1, f2}
  Deletions = {d1, d2}
  PageSize = 1
  MaxPages = 2
  MaxEpoch = 2
  MaxTs = 2
SYMMETRY SlotSymmetry
INVARIANTS
  NoGap
  TombstonesCounted
PROPERTIES
  NoForeignRows
