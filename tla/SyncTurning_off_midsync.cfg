SPECIFICATION Spec
CONSTANTS
  d1 = d1
  d2 = d2
  p1 = p1
  p2 = p2
  Devices = {d1, d2}
  Phrases = {p1, p2}
  Tried <- OneSure
  FaultKinds = {}
  MaxRings = 1
  MaxAsks = 0
  MaxOffs = 1
  MaxFaults = 0
INVARIANT KeyForgotten
