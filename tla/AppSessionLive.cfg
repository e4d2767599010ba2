\* Three things at a time: two requests, so that one of the old session can be
\* answered in the new one, and storage operations that outlast them.
CONSTANTS
  Tokens = {k1, k2}
  None = None
  Calls = {q1, q2}
  MaxPending = 3
SPECIFICATION FairSpec
INVARIANTS AppTypeOK QuietAgreement BusyLoginWaits
PROPERTIES LogoutEnds LoginEnds DeadTokenIsDropped
