\* Two clips, two requests: joins, hits, evictions, late timers, restarts.
CONSTANTS
  Keys = {k1, k2}
  Requests = {r1, r2}
  Files = {f1, f2, f3}
  Downloads = {d1, d2, d3}
  Lifetime = 1
  MaxClock = 1
  NoKey = NoKey
  NoFile = NoFile
  NoDownload = NoDownload
SPECIFICATION Spec
SYMMETRY Symmetry
INVARIANTS TypeOK SingleFlight CompleteClip NoOrphanFiles
