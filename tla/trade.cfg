SPECIFICATION Spec
CONSTANTS
  seller = seller buyer = buyer t1 = t1 t2 = t2
  asset = asset cash1 = cash1 cash2 = cash2
  r1 = r1 r2 = r2 w1 = w1 a1 = a1 a2 = a2
  Party = {seller, buyer}
  Trade = {t1, t2}
  Terms <- Deals
  Hold = {asset, cash1, cash2}
  Stock <- Safe
  Live = t1
  Watcher = {w1}
  Runner = {r1, r2}
  MaxReco = 1
  Approval = {a1, a2}
INVARIANTS TypeOK SettledOnlyAsGoverned ExecutedMeansSettled
PROPERTIES SettlesOnlyItsOwnLocks DeliveryVersusPayment
CONSTRAINT SmallScope
SYMMETRY Alike
CHECK_DEADLOCK FALSE
