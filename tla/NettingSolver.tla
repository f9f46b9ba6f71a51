---------------------------- MODULE NettingSolver ----------------------------
(***************************************************************************)
(* The planners: greedy netting (agent/netting.py) and the three linear    *)
(* programs of agent/solver.py, as functions of a book of obligations, the *)
(* limits, rates and floors in force and the weights of a policy.          *)
(*                                                                         *)
(* A program is given by its feasible flows and its objective; what the    *)
(* solver library returns is any flow that is optimal.  All constraints    *)
(* are network constraints, so with whole amounts an optimum in whole      *)
(* amounts exists, and a simplex solver returns one.                       *)
(***************************************************************************)
EXTENDS NettingLedger, GreedyNetting, SequencesExt

CONSTANT Dollar   \* 1.0 as an amount: amounts are in the smallest unit

Weights == [Firm \X Firm -> Nat]
NoWeights == [arc \in Firm \X Firm |-> 0]

InCurrency(S, c) == {o \in S : OblTerms[o].currency = c}
Currencies(S) == {OblTerms[o].currency : o \in S}

-----------------------------------------------------------------------------
(* Net positions.                                                          *)

NetPositions(S) ==
  [p \in Involved(S) |->
     SumFunctionOnSet([c \in Currencies(S) |-> NetOfCur(Facts(S), p, c)], Currencies(S))]

\* Greedy netting of a book in one currency.
MinimalSettlement(S, c) ==
  LET legs == Match(NetPositions(S)) IN
  [i \in DOMAIN legs |-> [sender |-> legs[i].sender, receiver |-> legs[i].receiver,
                          amount |-> legs[i].amount, currency |-> c]]

-----------------------------------------------------------------------------
(* Flows: a function from arcs <<from, to>> to amounts.                    *)

Sent(x, p) == SumFunctionOnSet(x, {arc \in DOMAIN x : arc[1] = p})
Received(x, p) == SumFunctionOnSet(x, {arc \in DOMAIN x : arc[2] = p})

\* Flows straight from payers to receivers that move every net position.
DirectFlows(net) ==
  LET arcs == Payers(net) \X Receivers(net)
      most == Max({0} \union {net[q] : q \in Receivers(net)})
  IN {x \in [arcs -> 0 .. most] :
        /\ \A p \in Payers(net) : Sent(x, p) = -net[p]
        /\ \A q \in Receivers(net) : Received(x, q) = net[q]}

\* Flows between any two firms that move every net position, given by what the
\* firms but one send each other: the rest goes through that one.  Sending both
\* ways, or round in a circle, is left out: every arc costs at least 1.
Flows(net) ==
  LET firms == DOMAIN net
      hub == CHOOSE p \in firms : TRUE
      rest == firms \ {hub}
      order == SetToSeq(rest)
      pairs == {<<order[ij[1]], order[ij[2]]>> :
                  ij \in {ij \in (DOMAIN order) \X (DOMAIN order) : ij[1] < ij[2]}}
      most == SumFunctionOnSet(net, Receivers(net))
      signed(g, p, q) ==
        IF <<p, q>> \in pairs THEN g[<<p, q>>] ELSE -g[<<q, p>>]
      sends(g, p) == SumFunctionOnSet([q \in rest |-> signed(g, p, q)], rest \ {p})
      between(g, p, q) ==
        IF p = hub THEN net[q] + sends(g, q)
        ELSE IF q = hub THEN -net[p] - sends(g, p) ELSE signed(g, p, q)
  IN {[arc \in {pq \in firms \X firms : pq[1] # pq[2]} |->
         LET n == between(g, arc[1], arc[2]) IN IF n > 0 THEN n ELSE 0] :
        g \in [pairs -> -most .. most]}

\* Mutant: a limit on what p may pay q is put on what q pays p.
WithinReversedCaps(x, K, c) ==
  \A k \in K :
    LET arc == <<CreditTerms[k].to, CreditTerms[k].from>>
    IN CreditTerms[k].currency = c /\ arc \in DOMAIN x => x[arc] <= CreditTerms[k].limit

WithinCaps(x, K, c) ==
  \A k \in K :
    LET arc == <<CreditTerms[k].from, CreditTerms[k].to>>
    IN CreditTerms[k].currency = c /\ arc \in DOMAIN x => x[arc] <= CreditTerms[k].limit

\* Mutant: every arc out of a capped party is held against the cap, not their sum.
EachWithinAggregates(x, A, c) ==
  \A k \in A, arc \in DOMAIN x :
    AggregateTerms[k].currency = c /\ arc[1] = AggregateTerms[k].party
      => x[arc] <= AggregateTerms[k].limit

WithinAggregates(x, A, c) ==
  \A k \in A :
    AggregateTerms[k].currency = c =>
      Sent(x, AggregateTerms[k].party) <= AggregateTerms[k].limit

Cost(x, w) == SumFunctionOnSet([arc \in DOMAIN x |-> (1 + w[arc]) * x[arc]], DOMAIN x)

Cheapest(X, w) ==
  LET least == Min({Cost(x, w) : x \in X}) IN {x \in X : Cost(x, w) = least}

TransferOn(x, arc, c) ==
  [sender |-> arc[1], receiver |-> arc[2], amount |-> x[arc], currency |-> c]

\* Mutant: arcs that carry nothing become transfers too.
LegsOfEveryArc(x, c) ==
  LET order == SetToSeq(DOMAIN x) IN [i \in DOMAIN order |-> TransferOn(x, order[i], c)]

\* The transfers of a flow, the largest first.
LegsOf(x, c) ==
  LET order == LargestFirst({arc \in DOMAIN x : x[arc] > 0}, x)
  IN [i \in DOMAIN order |-> TransferOn(x, order[i], c)]

\* One plan from a choice of plans for each currency of the book.
Combined(plansIn) ==
  LET order == SetToSeq(DOMAIN plansIn)
      choices == {f \in [DOMAIN order -> UNION {plansIn[c] : c \in DOMAIN plansIn}] :
                    \A i \in DOMAIN order : f[i] \in plansIn[order[i]]}
  IN {[obligations |-> UNION {f[i].obligations : i \in DOMAIN order},
       legs |-> FlattenSeq([i \in DOMAIN order |-> f[i].legs])] : f \in choices}

-----------------------------------------------------------------------------
(* solve: the whole book, straight from payers to receivers, or nothing.   *)

SolveOneCurrency(S, c, K, w) ==
  LET book == InCurrency(S, c)
      flows == {x \in DirectFlows(NetPositions(book)) : WithinCaps(x, K, c)}
  IN {[obligations |-> book, legs |-> LegsOf(x, c)] : x \in Cheapest(flows, w)}

\* The plans solve may return; none if some currency is infeasible.
Solve(S, K, w) == Combined([c \in Currencies(S) |-> SolveOneCurrency(S, c, K, w)])

\* _diagnose_infeasibility: the parties whose own caps cannot carry what they
\* are owed or owe.  Naming nobody stands for the general message.
CapsOn(K, arc, c) ==
  {k \in K : CreditTerms[k].currency = c /\ <<CreditTerms[k].from, CreditTerms[k].to>> = arc}

\* Mutant: an arc without a cap counts as if it could carry nothing.
ShortOfCapped(K, arcs, c, due) ==
  MapThenSumSet(LAMBDA k : CreditTerms[k].limit, UNION {CapsOn(K, arc, c) : arc \in arcs}) < due

Short(K, arcs, c, due) ==
  /\ \A arc \in arcs : CapsOn(K, arc, c) # {}
  /\ MapThenSumSet(LAMBDA k : CreditTerms[k].limit, UNION {CapsOn(K, arc, c) : arc \in arcs}) < due

Diagnosis(S, c, K) ==
  LET net == NetPositions(InCurrency(S, c)) IN
  {q \in Receivers(net) : Short(K, {<<p, q>> : p \in Payers(net)}, c, net[q])}
    \union {p \in Payers(net) : Short(K, {<<p, q>> : q \in Receivers(net)}, c, -net[p])}

-----------------------------------------------------------------------------
(* solve_maximal: as much of the book as the limits let through, over any  *)
(* arcs.                                                                   *)

NetSettled(book, T) ==
  [p \in Involved(book) |-> IF p \in Involved(T) THEN NetPositions(T)[p] ELSE 0]

\* Mutant: obligations are counted, not added up.
CountOf(T) == Cardinality(T)

ValueOf(T) == SumFunctionOnSet([o \in T |-> OblTerms[o].amount], T)

SolveOneCurrencyMaximal(S, c, K, A, w) ==
  LET book == InCurrency(S, c)
      big == ValueOf(book) + Dollar
      best(T) == LET X == {x \in Flows(NetSettled(book, T)) :
                             WithinCaps(x, K, c) /\ WithinAggregates(x, A, c)}
                 IN Cheapest(X, w)
      options == UNION {{[settled |-> T, flow |-> x] : x \in best(T)} : T \in SUBSET book}
      worth(opt) == big * ValueOf(opt.settled) - Dollar * Cost(opt.flow, w)
      most == Max({worth(opt) : opt \in options})
  IN {[obligations |-> opt.settled, legs |-> LegsOf(opt.flow, c)] :
        opt \in {o \in options : worth(o) = most}}

SolveMaximal(S, K, A, w) ==
  Combined([c \in Currencies(S) |-> SolveOneCurrencyMaximal(S, c, K, A, w)])

-----------------------------------------------------------------------------
(* solve_fx: the whole book by value, in the currency Valuation.           *)

\* Mutant: the converted value is cut off, not rounded.
CutToUnit(n) == n \div Unit

\* A value in 1/Unit, rounded to the smallest unit (ties aside).
RoundToUnit(n) == (2 * n + Unit) \div (2 * Unit)

\* The positions are kept rounded, so each obligation is rounded on its own.
ValuePositions(S, R) ==
  LET value == [o \in S |-> RoundToUnit(OblTerms[o].amount * FxFactor(R, OblTerms[o].currency))]
  IN [p \in Involved(S) |->
        SumFunctionOnSet(value, {o \in S : OblTerms[o].payee = p})
          - SumFunctionOnSet(value, {o \in S : OblTerms[o].payer = p})]

KeepsFloors(x, F, balance) ==
  \A k \in F :
    LET p == FloorTerms[k].party
    IN FloorTerms[k].currency = Valuation =>
         balance[p] + Received(x, p) - Sent(x, p) >= FloorTerms[k].floor

\* The plans solve_fx may return; none if it cannot value or carry the book.
\* Floors are looked at only if something has to move.
SolveFx(S, R, K, F, balance, w) ==
  LET net == ValuePositions(S, R)
      flows == {x \in DirectFlows(net) :
                  /\ WithinCaps(x, K, Valuation)
                  /\ Payers(net) # {} => KeepsFloors(x, F, balance)}
  IN IF \E c \in Currencies(S) : ~Valued(R, c) THEN {}
     ELSE {[obligations |-> S, legs |-> LegsOf(x, Valuation)] : x \in Cheapest(flows, w)}

\* _diagnose_fx_infeasibility: receivers as above, and parties below their floor
\* once they have paid their net.
FxDiagnosis(S, R, K, F, balance) ==
  LET net == ValuePositions(S, R)
      gain(p) == IF p \in DOMAIN net THEN net[p] ELSE 0
      floors == {k \in F : FloorTerms[k].currency = Valuation}
  IN {q \in Receivers(net) : Short(K, {<<p, q>> : p \in Payers(net)}, Valuation, net[q])}
       \union {p \in Firm : \E k \in floors : FloorTerms[k].party = p
                                             /\ balance[p] + gain(p) < FloorTerms[k].floor}
=============================================================================
