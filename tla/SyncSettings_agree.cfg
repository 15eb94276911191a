SPECIFICATION SmallSpec
CONSTANTS
  d1 = d1
  d2 = d2
  Devices = {d1, d2}
  AppKeys = {"speed"}
  StoreKeys = {"count"}
  Removable = {"count"}
  Choices <- TwoEach
  Away = 0
  MaxChanges = 2
  MaxFaults = 1
  FaultKinds = {"answer", "fail", "unwritten", "crash", "rejoin"}
  Skew <- Ahead
INVARIANT TypeOK
PROPERTIES NewestKept CountsComeThrough Agree
