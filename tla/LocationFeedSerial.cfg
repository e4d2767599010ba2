\* One request at a time, two places out of each other's radius: what the
\* row and a screen show.
CONSTANTS
  Handlers = {h1}
  Places <- MCPlaces
  Roads <- MCOnePlace
  Near <- MCNear
  Skew = 0
  MaxClock = 1
  MaxHistory = 3
  Screens = {s1}
  Loads = {l1}
  WireMax = 1
  NoFix = NoFix
  NoPlace = NoPlace
  NoTime = NoTime
SPECIFICATION FairSpec
INVARIANTS FeedTypeOK StopIsUnbroken NewestDelivered RefreshIsCurrent
PROPERTIES BroadcastsForward BroadcastShown
