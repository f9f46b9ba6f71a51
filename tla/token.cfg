SPECIFICATION Spec
CONSTANTS
  a = a
  b = b
  c = c
  t = t
  u = u
  seed = seed
  single = single
  cross = cross
  Party = {a, b, c}
  Instrument = {t, u}
  Call = {seed, single, cross}
  Kind <- CallKinds
  Book <- CallBooks
  Leftover <- Earlier
  MaxCid = 8
  MaxRunning = 2
  MaxOdd = 1
  None = None
INVARIANTS
  TokenTypeOK
  OkMeansItsOwnNetting
  SeededFundingSuffices
PROPERTIES
  RefinesTokenRail
  LockedTokensStayPut
CHECK_DEADLOCK FALSE
