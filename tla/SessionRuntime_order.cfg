SPECIFICATION Spec
CONSTANTS
  NumGroups = 2
  Whole = {KM, MK}
  Settings <- EverySetting
  Locks = {TRUE, FALSE}
  Windows = {TRUE}
  CountDowns = {1}
  RepeatCounts = {1}
  MaxTimers = 1
  Happens = {"paddles"}
  MaxResumes = 1
SYMMETRY Symmetry
INVARIANTS InOrder OnItsWay
PROPERTIES NothingOvertaken TimersWait
CHECK_DEADLOCK FALSE
