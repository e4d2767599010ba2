\* A fix announced between the first load and the subscription.
CONSTANTS
  Handlers = {h1}
  Places <- MCOnePlace
  Roads <- MCOnePlace
  Near <- MCNear
  Skew = 0
  MaxClock = 1
  MaxHistory = 2
  Screens = {s1}
  Loads = {l1}
  WireMax = 1
  NoFix = NoFix
  NoPlace = NoPlace
  NoTime = NoTime
SPECIFICATION Spec
INVARIANTS AnnouncedFixIsSeen
