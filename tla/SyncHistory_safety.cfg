SPECIFICATION Spec
CONSTANTS
  d1 = d1
  d2 = d2
  r1 = r1
  r2 = r2
  Devices = {d1, d2}
  Records = {r1}
  Fills <- NoFills
  Skew <- NoSkew
  FaultKinds = {"lose", "fail", "answer", "crash", "rejoin"}
  LastBack = 4
  MaxTime = 4
  MaxFaults = 1
INVARIANTS TypeOK DriveView MissingIsNeverDeleted ReadIsStored NoneIsStuck
PROPERTIES NoteKept OnlyByHand KeepsPromise
SYMMETRY AlikeDevices
