------------------------- MODULE MCSettlementWorkflow -------------------------
(***************************************************************************)
(* One console and one failover process over a chain of two obligations.   *)
(***************************************************************************)
EXTENDS SettlementWorkflow, NettingSolver, TLC

CONSTANTS a, b, c, usd, o1, o2, h1, h2, h3, b1, b2, b3, k1, console, failover

Pay(p, q) == [sender |-> p, receiver |-> q, amount |-> 2, currency |-> usd]
Owe(p, q, due) ==
  [payer |-> p, payee |-> q, amount |-> 2, currency |-> usd, maturity |-> due]

\* The second obligation falls due while the processes are at work.
Book == o1 :> Owe(a, b, 0) @@ o2 :> Owe(b, c, 1)
Credit == k1 :> [from |-> a, to |-> c, currency |-> usd, limit |-> 0]
NoTerms == <<>>
Coins == {[owner |-> f, currency |-> usd, amount |-> 2] : f \in {a, b}}

Direct == <<Pay(a, c)>>
Chain == <<Pay(a, b), Pay(b, c)>>
Legs == {<<>>, Direct, Chain, <<Pay(a, b)>>, <<Pay(b, c)>>}

\* One of the plans the solver may return for each book and limits in force; with
\* the limit, a pays c by way of b.  (@@ makes it a table, computed once.)
SolvedPlans ==
  [in \in (SUBSET {o1, o2}) \X (SUBSET {k1}) |->
     CHOOSE p \in SolveMaximal(in[1], in[2], {}, NoWeights) : TRUE] @@ NoTerms

\* Bounds: the processes start on a whole book, and at most one obligation is
\* withdrawn.
SmallScope ==
  /\ (\E p \in Client : run[p].step # "start") => \A o \in Obl : obl[o] # "none"
  /\ Cardinality({o \in Obl : obl[o] = "withdrawn"}) <= 1
Alike == Permutations({h1, h2, h3}) \union Permutations({b1, b2, b3})
=============================================================================
