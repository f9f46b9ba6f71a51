------------------------------ MODULE MCPlanning ------------------------------
(***************************************************************************)
(* Four firms, so that two payers may meet two receivers.                  *)
(***************************************************************************)
EXTENDS Planning, TLC

CONSTANTS a, b, c, d, usd, eur, o1, o2, o3, o4, o5, k1, k2, g1, f1, x1

Owe(p, q, n, cur) ==
  [payer |-> p, payee |-> q, amount |-> n, currency |-> cur, maturity |-> 0]

\* Two payers and two receivers, a debt that goes back, and 3 eur, worth 3.6
\* usd.  Amounts are in halves of a dollar.
Obligations ==
  o1 :> Owe(a, c, 2, usd) @@ o2 :> Owe(b, d, 2, usd) @@ o3 :> Owe(c, a, 1, usd)
    @@ o4 :> Owe(a, d, 1, usd) @@ o5 :> Owe(b, a, 3, eur)

\* a may pay c at most 1 and b may not pay c; a may pay out at most 1 in all, and
\* must keep at least 1.
Credit == k1 :> [from |-> a, to |-> c, currency |-> usd, limit |-> 1]
            @@ k2 :> [from |-> b, to |-> c, currency |-> usd, limit |-> 0]
Aggregate == g1 :> [party |-> a, currency |-> usd, limit |-> 1]
Floors == f1 :> [party |-> a, currency |-> usd, floor |-> 1]
Rates == x1 :> [base |-> eur, quote |-> usd, rate |-> 6, parties |-> {a, b, c, d}]

\* No policy, or one that avoids paying c directly from a.
AvoidAC == [arc \in Firm \X Firm |-> IF arc = <<a, c>> THEN 5 ELSE 0]
SmallPolicies == {NoWeights, AvoidAC}
SmallBalances == {[f \in Firm |-> n] : n \in {0, 2}}

\* Bounds: a rate is agreed only for a book with euro, a floor only with a rate,
\* and the aggregate limit only for a book in dollars.
SmallScope ==
  /\ ref[x1] = "active" => obl[o5] = "live"
  /\ ref[f1] = "active" => ref[x1] = "active"
  /\ ref[g1] = "active" => obl[o5] = "none"
NoPlans == {<<>>}
NoCash == {}
=============================================================================
