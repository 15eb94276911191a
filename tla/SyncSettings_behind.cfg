SPECIFICATION Spec
CONSTANTS
  d1 = d1
  d2 = d2
  Devices = {d1, d2}
  AppKeys = {"speed"}
  StoreKeys = {"count"}
  Removable = {"count"}
  Choices <- TwoEach
  Away = 0
  MaxChanges = 2
  MaxFaults = 0
  FaultKinds = {}
  Skew <- Ahead
PROPERTY ChangesComeThrough
