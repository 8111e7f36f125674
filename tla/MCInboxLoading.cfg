SPECIFICATION FairSpec
CONSTANTS
  a = a
  b = b
  Convs <- JustA
  Filters <- WithFavourites
  Matches <- NoFavourite
  Fetches = {f1, f2, f3}
  Deletions = {}
  PageSize = 1
  MaxPages = 3
  MaxEpoch = 3
  MaxTs = 1
PROPERTIES
  LoadingEnds
CHECK_DEADLOCK FALSE
