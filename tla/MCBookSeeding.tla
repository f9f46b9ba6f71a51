---------------------------- MODULE MCBookSeeding ----------------------------
(***************************************************************************)
(* Small ledgers for TLC.                                                  *)
(***************************************************************************)
EXTENDS BookSeeding, TLC

CONSTANTS p1, p2, r1, r2

Alike == Permutations(Process)

Leftover(t, r, s, m) == [type |-> t, ref |-> r, same |-> s, maturity |-> m]
Batch == Leftover("batch", Junk, TRUE, "none")

\* An empty ledger; a row of the book beside a limit and an open batch; a row
\* that is not due; a row with another amount, and one that fell due.
SmallLedgers ==
  {<<>>, <<Row(r1), Limit, Batch>>, <<Leftover("obligation", r1, TRUE, "future")>>,
   <<Leftover("obligation", r1, FALSE, "none"), Leftover("obligation", r2, TRUE, "past")>>}

\* Others accrue a row of the book.
SmallForeign == {Row(r1)}
=============================================================================
