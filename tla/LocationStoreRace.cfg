\* Two requests at once: a stop computed from a row that is no longer current.
CONSTANTS
  Handlers = {h1, h2}
  Places <- MCPlaces
  Roads <- MCPlaces
  Near <- MCNear
  Skew = 1
  MaxClock = 2
  MaxHistory = 3
  NoFix = NoFix
  NoPlace = NoPlace
  NoTime = NoTime
SPECIFICATION StoreSpec
SYMMETRY Symmetry
INVARIANTS StopIsUnbroken
