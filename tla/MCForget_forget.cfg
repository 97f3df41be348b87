SPECIFICATION Spec
CONSTANTS
  r1 = r1
  r2 = r2
  shared = shared
  own = own
  q1 = q1
  q2 = q2
  q3 = q3
  Runs = {r1, r2}
  Refs = {shared, own}
  Cites <- SharedFile
  Requests = {q1, q2, q3}
  About <- TwiceAndOnce
  MaxFaults = 1
  Nobody = Nobody
  NoRef = NoRef
INVARIANTS SharedEvidenceStays ForgottenBytesAreGone
PROPERTY TombstonesStand
CHECK_DEADLOCK FALSE
