SPECIFICATION FairSpec
CONSTANTS
  a = a
  b = b
  Convs <- JustA
  Filters <- AllOnly
  Matches <- MatchesA
  Fetches = {f1, f2}
  Deletions = {d1}
  PageSize = 1
  MaxPages = 3
  MaxEpoch = 3
  MaxTs = 2
INVARIANTS
  NoDuplicateRows
  LateAnswersBlocked
PROPERTIES
  NoResurrection
  RefreshRuns
  RefreshingEnds
  DeletesComplete
