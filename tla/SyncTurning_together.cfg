SPECIFICATION FairSpec
CONSTANTS
  d1 = d1
  d2 = d2
  p1 = p1
  p2 = p2
  Devices = {d1, d2}
  Phrases = {p1, p2}
  Tried <- OneSure
  FaultKinds = {"answer", "fail", "expire", "crash"}
  MaxRings = 2
  MaxAsks = 1
  MaxOffs = 1
  MaxFaults = 1
INVARIANTS TypeOK OneKey AskedIsOnItsWay

PROPERTY Together
