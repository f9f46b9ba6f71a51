SPECIFICATION PSpec
CONSTANTS
  a = a b = b c = c d = d usd = usd eur = eur
  o1 = o1 o2 = o2 o3 = o3 o4 = o4 o5 = o5
  k1 = k1 k2 = k2 g1 = g1 f1 = f1 x1 = x1 None = None
  Firm = {a, b, c, d}
  Currency = {usd, eur}
  Obl = {o1, o2, o3, o4, o5}
  OblTerms <- Obligations
  Hold = {}
  IssueTerms <- NoCash
  Batch = {}
  CreditLimit = {k1, k2}
  CreditTerms <- Credit
  AggregateLimit = {g1}
  AggregateTerms <- Aggregate
  LiquidityFloor = {f1}
  FloorTerms <- Floors
  FXRate = {x1}
  RateTerms <- Rates
  Valuation = usd
  Unit = 5
  Plans <- NoPlans
  MaxTime = 0
  Dollar = 2
  Policies <- SmallPolicies
  Balances <- SmallBalances
INVARIANT MaximalPlanAccepted
CONSTRAINT SmallScope
CHECK_DEADLOCK FALSE
