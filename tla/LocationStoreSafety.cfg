\* Two requests at once, any order of their statements.
CONSTANTS
  Handlers = {h1, h2}
  Places <- MCPlaces
  Roads <- MCPlaces
  Near <- MCNear
  Skew = 1
  MaxClock = 1
  MaxHistory = 3
  NoFix = NoFix
  NoPlace = NoPlace
  NoTime = NoTime
SPECIFICATION StoreSpec
SYMMETRY Symmetry
INVARIANTS StoreTypeOK StateIsNewest StopHasOrigin AcknowledgedIsStored
