SPECIFICATION Spec
CONSTANTS
  d1 = d1
  d2 = d2
  r1 = r1
  r2 = r2
  Devices = {d1}
  Records = {r1, r2}
  Fills <- OneFill
  Skew <- NoSkew
  FaultKinds = {"lose", "fail", "answer", "crash"}
  LastBack = 6
  MaxTime = 6
  MaxFaults = 2
INVARIANT MissingIsNeverDeleted
