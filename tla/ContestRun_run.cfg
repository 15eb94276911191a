SPECIFICATION Spec
CONSTANTS
  c1 = c1
  c2 = c2
  Callers = {c1, c2}
  NoOne = NoOne
  Styles = {"Single", "Pileup"}
  Calls <- FewCalls
  Phrases <- EveryPhrase
  Slips = {"Partial", "No"}
  CountDown = 2
  DupesAfter = 1
  MaxKeys = 3
  MaxBreaks = 1
SYMMETRY Alike
VIEW Seen
INVARIANTS TypeOK OneCopy NoneHidden ChecksComeOut NobodyStands
PROPERTIES LoggedIsFinal TaughtStands
