SPECIFICATION Spec
CONSTANTS
  c1 = c1
  c2 = c2
  r1 = r1
  r2 = r2
  Copies = {c1, c2}
  Records = {r1, r2}
  Stored = {r1}
  MaxAsks = 2
  FaultsAt = {"put", "forget", "remove"}
  MaxTroubles = 1
SYMMETRY Alike
VIEW Seen
INVARIANTS TypeOK SureStays GoneStays FinishedIsKept NoneWaits
CHECK_DEADLOCK FALSE
