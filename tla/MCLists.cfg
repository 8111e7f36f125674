SPECIFICATION SpecAll
CONSTANTS
  Throttle = 2
  Off = Off
  MaxPending = 1
  Keys = {k1}
  Fetches = {f1, f2}
  None = None
  MaxTaps = 1
INVARIANTS ResyncOnItsWay NoUnviewableRows ReceivedStaysListed UnhiddenReturns DroppedIsMadeUpFor
PROPERTY SnapshotsInOrder
