SPECIFICATION Spec
CONSTANTS
  s1 = s1 s2 = s2 s3 = s3 p1 = p1 p2 = p2 o1 = o1
  NoSession = NoSession
  Session = {s1, s2, s3}
  Process = {p1, p2}
  Obligation = {o1}
  MaxLate = 1
INVARIANTS TypeOK NoSettlementSkipped RecordsAreOfReports
CONSTRAINT SmallScope
SYMMETRY Alike
CHECK_DEADLOCK FALSE
