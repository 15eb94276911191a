SPECIFICATION Spec
CONSTANTS
  NumGroups = 1
  Whole = {"KM"}
  Settings <- EverySetting
  Locks = {FALSE}
  Windows = {FALSE}
  CountDowns = {0}
  RepeatCounts = {1}
  MaxTimers = 3
  Happens = {"gaps"}
  MaxResumes = 1
PROPERTIES NothingOvertaken
CHECK_DEADLOCK FALSE
