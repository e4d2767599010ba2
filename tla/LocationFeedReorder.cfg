\* Two requests at once: the order of their broadcasts.
CONSTANTS
  Handlers = {h1, h2}
  Places <- MCOnePlace
  Roads <- MCOnePlace
  Near <- MCNear
  Skew = 0
  MaxClock = 1
  MaxHistory = 2
  Screens = {s1}
  Loads = {l1}
  WireMax = 2
  NoFix = NoFix
  NoPlace = NoPlace
  NoTime = NoTime
SPECIFICATION Spec
PROPERTIES BroadcastsForward
