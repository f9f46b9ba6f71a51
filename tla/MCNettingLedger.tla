--------------------------- MODULE MCNettingLedger ---------------------------
(***************************************************************************)
(* Small books for TLC.                                                    *)
(***************************************************************************)
EXTENDS NettingRefinement, TLC

CONSTANTS a, b, c, usd, eur, o1, o2, o3, h1, h2, b1, b2, k1, g1, f1, x1

Owe(p, q, n, cur, due) ==
  [payer |-> p, payee |-> q, amount |-> n, currency |-> cur, maturity |-> due]
Pay(p, q, n, cur) == [sender |-> p, receiver |-> q, amount |-> n, currency |-> cur]
Coin(p, n, cur) == [owner |-> p, currency |-> cur, amount |-> n]

Alike == Permutations({h1, h2}) \union Permutations({b1, b2})

NoTerms == <<>>

\* One currency: a chain a -> b -> c that nets to a single payment.  a may pay
\* c at most 1, where that limit is carried.  The plans are the net, the net in
\* two legs, an underpayment and no netting at all.
ChainObl == o1 :> Owe(a, b, 2, usd, 0) @@ o2 :> Owe(b, c, 2, usd, 0)
ChainPlans == {<<Pay(a, c, 2, usd)>>, <<Pay(a, c, 1, usd), Pay(a, c, 1, usd)>>,
               <<Pay(a, c, 1, usd)>>, <<Pay(a, b, 2, usd), Pay(b, c, 2, usd)>>}
ChainCoins == {Coin(a, 2, usd), Coin(a, 1, usd)}
ChainCredit == k1 :> [from |-> a, to |-> c, currency |-> usd, limit |-> 1]

\* Two currencies at 1 eur = 2 usd: a owes b 1 eur (due at 1), b owes a 2 usd,
\* and b may pay out at most 1 usd where its aggregate limit is carried.  The
\* plans: nothing (the two cancel by value), the usd debt in one leg or two, and
\* the usd debt paid in eur, which conserves value but moves eur nobody owed.
CrossObl == o1 :> Owe(a, b, 1, eur, 1) @@ o2 :> Owe(b, a, 2, usd, 0)
CrossPlans == {<<>>, <<Pay(b, a, 2, usd)>>, <<Pay(b, a, 1, usd), Pay(b, a, 1, usd)>>,
               <<Pay(b, a, 1, eur)>>}
CrossCoins == {Coin(b, 2, usd), Coin(b, 1, usd), Coin(b, 1, eur)}
CrossAggregate == g1 :> [party |-> b, currency |-> usd, limit |-> 1]
CrossFloor == f1 :> [party |-> b, currency |-> usd, floor |-> 1]
CrossRate == x1 :> [base |-> eur, quote |-> usd, rate |-> 4, parties |-> {a, b}]

\* Bounds: the book and the reference contracts come first, then the cash, then
\* the batches, and at most one obligation is withdrawn or contract archived;
\* otherwise everything interleaves.
SmallScope ==
  /\ (\E h \in Hold : holding[h] # None) =>
       (\A o \in Obl : obl[o] # "none") /\ (\A r \in Ref : ref[r] # "none")
  /\ (\E n \in Batch : batch[n] # None) => (\A h \in Hold : holding[h] # None)
  /\ Cardinality({o \in Obl : obl[o] = "withdrawn"})
       + Cardinality({r \in Ref : ref[r] = "archived"}) <= 1
=============================================================================
