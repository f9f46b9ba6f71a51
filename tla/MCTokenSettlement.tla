-------------------------- MODULE MCTokenSettlement --------------------------
(***************************************************************************)
(* Three firms and two instruments.  a owes most of both, so that one      *)
(* holding of it has to pay two legs of t, and its u is funded exactly.    *)
(* A small holding is left from before: with the one a seeding mints, it   *)
(* lets a netting of t be executed with one holding for each leg.          *)
(***************************************************************************)
EXTENDS TokenSettlement, TLC

CONSTANTS a, b, c, t, u, seed, single, cross

Owes(p, q, n, i) == [payer |-> p, payee |-> q, amount |-> n, instrument |-> i]

BookT == {Owes(a, b, 2, t), Owes(a, c, 1, t), Owes(b, a, 1, t)}
BookBoth == BookT \union {Owes(a, b, 1, u)}

CallKinds == seed :> "seed" @@ single :> "single" @@ cross :> "cross"
CallBooks == seed :> BookBoth @@ single :> BookT @@ cross :> BookBoth

Earlier == <<[owner |-> a, instrument |-> t, amount |-> 1, locked |-> FALSE]>>
=============================================================================
