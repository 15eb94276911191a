SPECIFICATION FairSpec
CONSTANTS
  NumGroups = 1
  Whole = {"KM"}
  Settings <- EverySetting
  Locks = {TRUE, FALSE}
  Windows = {FALSE}
  CountDowns = {1}
  RepeatCounts = {2}
  MaxTimers = 0
  Happens = {"skips"}
  MaxResumes = 0
PROPERTY GetsOut
CHECK_DEADLOCK FALSE
