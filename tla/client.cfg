SPECIFICATION Spec
CONSTANTS
  settle = settle discharge = discharge seed = seed
  batch = batch obligation = obligation funding = funding cash = cash new = new
  Command = {settle, discharge, seed}
  Contract = {batch, obligation, funding, cash, new}
  Initial = {batch, obligation, funding}
  Consumes <- CallConsumes
  Creates <- CallCreates
  Reconciler <- CallReconciler
  Watched <- CallWatched
  Clashing <- CallClashing
INVARIANTS TypeOK SuccessLeavesNothingOpen SuccessMeansMade FirstRefusalIsFinal
PROPERTIES CommitSeenWhenAsked EveryCallReturns
CHECK_DEADLOCK FALSE
