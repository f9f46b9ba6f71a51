SPECIFICATION WSpec
CONSTANTS
  a = a b = b c = c usd = usd o1 = o1 o2 = o2
  h1 = h1 h2 = h2 h3 = h3 b1 = b1 b2 = b2 b3 = b3 k1 = k1 None = None
  console = console failover = failover
  Firm = {a, b, c}
  Currency = {usd}
  Obl = {o1, o2}
  OblTerms <- Book
  Hold = {h1, h2, h3}
  IssueTerms <- Coins
  Batch = {b1, b2, b3}
  CreditLimit = {k1}
  CreditTerms <- Credit
  AggregateLimit = {}
  AggregateTerms <- NoTerms
  LiquidityFloor = {}
  FloorTerms <- NoTerms
  FXRate = {}
  RateTerms <- NoTerms
  Valuation = usd
  Unit = 2
  Plans <- Legs
  MaxTime = 1
  Client = {console, failover}
  Approving = {console}
  Solver <- SolvedPlans
  Dollar = 1
INVARIANTS SettledAsApproved SuccessClosesTheBook
CONSTRAINT SmallScope
SYMMETRY Alike
CHECK_DEADLOCK FALSE
