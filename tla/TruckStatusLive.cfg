\* One truck on the road and one parked, with the same camera ids: what the
\* rows say, and what they end up saying once the truck is silent.
CONSTANTS
  Trucks = {t1, t2}
  Cameras = {c1}
  Registered = {c1}
  Rows <- MCRows
  OnRoad = {t1}
  Statuses = {"online", "offline", "busy"}
  Timeout = 0
  Never = Never
  NoTruck = NoTruck
  MaxInFlight = 1
SPECIFICATION FairSpec
INVARIANTS StatusTypeOK OnlineHasBeenSeen ParkedStaysOffline
PROPERTIES SilenceMeansOffline CameraCarriesTruck
