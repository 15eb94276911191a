SPECIFICATION Spec
CONSTANTS
  d1 = d1
  d2 = d2
  r1 = r1
  r2 = r2
  Devices = {d1, d2}
  Records = {r1}
  Fills <- NoFills
  Skew <- NoSkew
  FaultKinds = {}
  LastBack = 4
  MaxTime = 4
  MaxFaults = 0
PROPERTY PutBackIsNotTakenAgain
