\* One clip: it expires between the lookup of a request and its os.Open.
CONSTANTS
  Keys = {k1}
  Requests = {r1, r2}
  Files = {f1, f2}
  Downloads = {d1, d2}
  Lifetime = 1
  MaxClock = 2
  NoKey = NoKey
  NoFile = NoFile
  NoDownload = NoDownload
SPECIFICATION Spec
INVARIANT HitFindsItsFile
