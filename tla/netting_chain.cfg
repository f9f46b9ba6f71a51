SPECIFICATION Spec
CONSTANTS
  a = a b = b c = c usd = usd eur = eur
  o1 = o1 o2 = o2 o3 = o3 h1 = h1 h2 = h2 b1 = b1 b2 = b2
  k1 = k1 g1 = g1 f1 = f1 x1 = x1 None = None
  Firm = {a, b, c}
  Currency = {usd}
  Obl = {o1, o2}
  OblTerms <- ChainObl
  Hold = {h1, h2}
  IssueTerms <- ChainCoins
  Batch = {b1, b2}
  CreditLimit = {k1}
  CreditTerms <- ChainCredit
  AggregateLimit = {}
  AggregateTerms <- NoTerms
  LiquidityFloor = {}
  FloorTerms <- NoTerms
  FXRate = {}
  RateTerms <- NoTerms
  Valuation = usd
  Unit = 2
  Plans <- ChainPlans
  MaxTime = 0
INVARIANTS TypeOK NettedExactlyOnce
PROPERTIES RefinesAtomicNetting LockedCashMovesOnlyByLeg OutflowWithinCarriedLimits
CONSTRAINT SmallScope
SYMMETRY Alike
CHECK_DEADLOCK FALSE
