SPECIFICATION Spec
CONSTANTS
  NumGroups = 1
  Whole = {"KM"}
  Settings <- EverySetting
  Locks = {FALSE}
  Windows = {TRUE}
  CountDowns = {0}
  RepeatCounts = {1}
  MaxTimers = 1
  Happens = {"skips", "fails", "gaps"}
  MaxResumes = 1
INVARIANTS OnItsWay Quiet HeardIsRight TimedFairly
CHECK_DEADLOCK FALSE
