SPECIFICATION Spec
CONSTANTS
  NumGroups = 2
  Whole = {KM, MK}
  Settings <- EverySetting
  Locks = {TRUE, FALSE}
  Windows = {TRUE}
  CountDowns = {1}
  RepeatCounts = {1}
  MaxTimers = 1
  Happens = {"paddles"}
  MaxResumes = 1
SYMMETRY Symmetry
INVARIANTS TypeOK Quiet
CHECK_DEADLOCK FALSE
