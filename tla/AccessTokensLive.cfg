\* Clips of half a second, one and a half (the longest), and a second one: a
\* tick is half a second.
CONSTANTS
  t1 = t1
  t2 = t2
  c1 = c1
  c2 = c2
  Users = {u1}
  Trucks = {t1, t2}
  CameraIds = {c1, c2}
  Cameras <- MCCameras
  Requests = {r1, r2}
  Second = 2
  StreamLife = 2
  Buffer = 4
  Day = 3
  Starts <- MCStarts
  Durations <- MCDurations
  MaxAnswers = 2
SPECIFICATION FairSpec
INVARIANTS TokenTypeOK GrantedIsAccepted AcceptedWasGranted PlaybackCovered
PROPERTIES WithdrawnAccessEnds
