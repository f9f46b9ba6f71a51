SPECIFICATION Spec
CONSTANTS
  a = a b = b c = c usd = usd eur = eur
  o1 = o1 o2 = o2 o3 = o3 h1 = h1 h2 = h2 b1 = b1 b2 = b2
  k1 = k1 g1 = g1 f1 = f1 x1 = x1 None = None
  Firm = {a, b}
  Currency = {usd, eur}
  Obl = {o1, o2}
  OblTerms <- CrossObl
  Hold = {h1, h2}
  IssueTerms <- CrossCoins
  Batch = {b1}
  CreditLimit = {}
  CreditTerms <- NoTerms
  AggregateLimit = {g1}
  AggregateTerms <- CrossAggregate
  LiquidityFloor = {f1}
  FloorTerms <- CrossFloor
  FXRate = {x1}
  RateTerms <- CrossRate
  Valuation = usd
  Unit = 2
  Plans <- CrossPlans
  MaxTime = 1
PROPERTIES RefinesAtomicNetting FloorHeldIfFactsCurrent
CONSTRAINT SmallScope
SYMMETRY Alike
CHECK_DEADLOCK FALSE
