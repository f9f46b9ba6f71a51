------------------------------- MODULE Planning -------------------------------
(***************************************************************************)
(* A planner at work on the book and the limits in force, and whether the  *)
(* ledger takes its plan: the batch a driver builds carries the contracts  *)
(* the planner was given, and SettleNetting checks them again.  What       *)
(* becomes of a plan when the book changes is SettlementWorkflow's.        *)
(***************************************************************************)
EXTENDS NettingSolver

CONSTANTS
  Policies,   \* weights a policy may state
  Balances    \* pre-settlement balances in Valuation, for the floors

ASSUME PolicyTerms == Policies \subseteq Weights /\ Balances \subseteq [Firm -> Nat]
ASSUME DollarIsPositive == Dollar \in Amount

VARIABLE planned   \* what a planner returned, and the weights and balances it was given
pvars == <<vars, planned>>

NoBalance == [f \in Firm |-> 0]
Unplanned == [by |-> "none", found |-> FALSE, obligations |-> {}, legs |-> <<>>,
           weights |-> NoWeights, balance |-> NoBalance]

PInit == Init /\ planned = Unplanned

Book == {o \in Obl : obl[o] = "live"}
Active(K) == {k \in K : ref[k] = "active"}

\* One of the results, or the report that the book is infeasible.
Returns(by, results, w, balance) ==
  /\ planned = Unplanned /\ Book # {} /\ UNCHANGED vars
  /\ planned' \in
       IF results = {}
       THEN {[Unplanned EXCEPT !.by = by, !.weights = w, !.balance = balance]}
       ELSE {[by |-> by, found |-> TRUE, obligations |-> r.obligations, legs |-> r.legs,
              weights |-> w, balance |-> balance] : r \in results}

PlanGreedy ==
  /\ Cardinality(Currencies(Book)) = 1
  /\ \E c \in Currencies(Book) :
       Returns("greedy", {[obligations |-> Book, legs |-> MinimalSettlement(Book, c)]},
               NoWeights, NoBalance)

\* settle_real(maximal=False), for a book in one currency: it states every
\* obligation to the solver in dollars.
PlanWhole ==
  \E w \in Policies : Returns("solve", Solve(Book, Active(CreditLimit), w), w, NoBalance)

\* settle_real and the console's preview, likewise
PlanMaximal ==
  \E w \in Policies :
    Returns("maximal", SolveMaximal(Book, Active(CreditLimit), Active(AggregateLimit), w),
            w, NoBalance)

\* settle_cross_currency, with the limits and floors solve_fx can be given
PlanFx ==
  \E balance \in Balances :
    /\ Active(FXRate) # {}
    /\ Returns("fx", SolveFx(Book, Active(FXRate), Active(CreditLimit),
                             Active(LiquidityFloor), balance, NoWeights),
               NoWeights, balance)

Agreements ==
  /\ planned = Unplanned /\ UNCHANGED planned
  /\ \/ \E o \in Obl : Accrue(o)
     \/ \E r \in Ref : Agree(r)

PNext == Agreements \/ PlanGreedy \/ PlanWhole \/ PlanMaximal \/ PlanFx

PSpec == PInit /\ [][PNext]_pvars

-----------------------------------------------------------------------------
(* The batch of a plan, and the ledger's guards on it.                     *)

\* settle_real carries all limits it loaded, also those the strict solver was not
\* given.  settle_cross_currency carries only the rates; for a plan that was given
\* limits and floors too, they are carried here.
BatchFor(p) ==
  [obligations |-> p.obligations, residualLegs |-> p.legs,
   parties |-> Involved(p.obligations),
   creditLimits |-> Active(CreditLimit),
   aggregateLimits |-> IF p.by = "fx" THEN {} ELSE Active(AggregateLimit),
   liquidityFloors |->
     IF p.by = "fx" THEN {k \in Active(LiquidityFloor) : FloorTerms[k].currency = Valuation}
     ELSE {},
   fxRates |-> IF p.by = "fx" THEN Active(FXRate) ELSE {},
   balanceFacts |-> [f \in Firm |-> [c \in Currency |->
                       IF c = Valuation THEN p.balance[f] ELSE 0]]]

LedgerAccepts(B) ==
  /\ RatesAgreed(B) /\ Conserves(B) /\ Efficient(B)
  /\ WithinCreditLimits(B) /\ WithinAggregateLimits(B) /\ AboveFloors(B)
  /\ \A i \in DOMAIN B.residualLegs : B.residualLegs[i].receiver \in B.parties

-----------------------------------------------------------------------------
(* Properties.                                                             *)

PlanTypeOK ==
  /\ TypeOK
  /\ planned.by \in {"none", "greedy", "solve", "maximal", "fx"} /\ planned.found \in BOOLEAN
  /\ planned.obligations \subseteq Obl /\ planned.legs \in Seq(Transfer)
  /\ planned.weights \in Weights /\ planned.balance \in [Firm -> Nat]

Found(by) == planned.by = by /\ planned.found

Gross(legs) == TotalOf(legs, DOMAIN legs)

\* A plan of the strict solver for the whole book passes every guard of
\* SettleNetting, whatever the policy's weights, unless an aggregate limit is in
\* force, which it is not given (solver.py 183-200, net_settle.py 713-790).
WholePlanAccepted ==
  Found("solve") /\ Active(AggregateLimit) = {} => LedgerAccepts(BatchFor(planned))

\* A maximal plan conserves the net of exactly what it settles and stays within
\* all limits, over several legs of one firm as well, although it may use any
\* firm as an intermediary (solver.py 443-471).
MaximalPlanWithinLimits ==
  Found("maximal") =>
    LET B == BatchFor(planned)
    IN Conserves(B) /\ WithinCreditLimits(B) /\ WithinAggregateLimits(B)

\* "When the whole book fits, every z=1 and it reduces to solve()"
\* (solver.py 349-350): if the strict solver finds a plan that the aggregate
\* limits let through, and no policy intervenes, the maximal one defers nothing
\* and moves as little.
MaximalReducesToSolve ==
  Found("maximal") /\ planned.weights = NoWeights =>
    \A whole \in Solve(Book, Active(CreditLimit), NoWeights) :
      WithinAggregateLimits([BatchFor(planned) EXCEPT !.residualLegs = whole.legs]) =>
        planned.obligations = Book /\ Gross(planned.legs) = Gross(whole.legs)

\* Greedy netting settles the book in fewer transfers than it has firms, and in
\* no more gross than the linear program ("matches the greedy result's gross",
\* solver.py 22; netting.py 55-57).
GreedyMatchesSolve ==
  Found("greedy") =>
    /\ Conserves(BatchFor(planned))
    /\ planned.legs # <<>> => Len(planned.legs) < Cardinality(Involved(Book))
    /\ \A best \in Solve(Book, {}, NoWeights) : Gross(planned.legs) = Gross(best.legs)

OwnCaps(p) == {k \in Active(CreditLimit) : p \in {CreditTerms[k].from, CreditTerms[k].to}}
OwnFloors(p) == {k \in Active(LiquidityFloor) : FloorTerms[k].party = p}

\* What an infeasible book is blamed on: a firm that is named cannot be served
\* even if all limits and floors but its own are lifted; with one payer or one
\* receiver some firm is named, and across currencies also if there are no limits
\* (_diagnose_infeasibility and _diagnose_fx_infeasibility, solver.py 220-264 and
\* 632-654).
DiagnosisExplains ==
  planned.by # "none" /\ ~planned.found =>
    LET K == Active(CreditLimit)
        R == Active(FXRate)
    IN CASE planned.by = "solve" ->
              \A c \in Currencies(Book) :
                LET net == NetPositions(InCurrency(Book, c))
                    blamed == Diagnosis(Book, c, K)
                IN /\ \A p \in blamed : SolveOneCurrency(Book, c, OwnCaps(p), NoWeights) = {}
                   /\ /\ SolveOneCurrency(Book, c, K, NoWeights) = {}
                      /\ 1 \in {Cardinality(Payers(net)), Cardinality(Receivers(net))}
                      => blamed # {}
         [] planned.by = "fx" /\ (\A c \in Currencies(Book) : Valued(R, c)) ->
              LET blamed == FxDiagnosis(Book, R, K, Active(LiquidityFloor), planned.balance)
              IN /\ \A p \in blamed :
                      SolveFx(Book, R, OwnCaps(p), OwnFloors(p), planned.balance, NoWeights) = {}
                 /\ K = {} => blamed # {}
         [] OTHER -> TRUE

\* A cross-currency plan keeps the limits and floors it was given, and every
\* firm's value moves by what its obligations are worth up to half a smallest
\* unit for each of them (solver.py 560-600).
FxPlanWithinRounding ==
  Found("fx") =>
    LET B == BatchFor(planned)
        value(T, f) == ValueNet(T, B.fxRates, f)
        mine(f) == {o \in Book : f \in {OblTerms[o].payer, OblTerms[o].payee}}
        drift(f) == value(Facts(Book), f) - value(planned.legs, f)
    IN /\ WithinCreditLimits(B)
       /\ planned.legs # <<>> => AboveFloors(B)
       /\ \A f \in B.parties :
            /\ 2 * drift(f) <= Unit * Cardinality(mine(f))
            /\ -2 * drift(f) <= Unit * Cardinality(mine(f))

\* solver.py 344-346: "The on-ledger SettleNetting guard already checks
\* conservation over exactly the obligations in the batch, so settling a subset
\* is sound today — no Daml change required."  SettleNetting takes what
\* solve_maximal plans.
MaximalPlanAccepted ==
  Found("maximal") /\ planned.obligations # {} => LedgerAccepts(BatchFor(planned))
=============================================================================
