SPECIFICATION Spec
CONSTANTS
  p1 = p1 p2 = p2 r1 = r1 r2 = r2 Junk = Junk
  Process = {p1, p2}
  Reference = {r1, r2}
  Initials <- SmallLedgers
  Foreign <- SmallForeign
  MaxFaults = 1
  MaxForeign = 1
INVARIANTS SeedTypeOK CleanReportLasts SeedingsConverge OverlapIsReported FailureIsExplained
SYMMETRY Alike
CHECK_DEADLOCK FALSE
