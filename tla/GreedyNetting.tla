---------------------------- MODULE GreedyNetting ----------------------------
(***************************************************************************)
(* minimal_settlement of agent/netting.py: net positions are settled by    *)
(* matching the largest payer with the largest receiver until nothing is   *)
(* left.                                                                   *)
(***************************************************************************)
EXTENDS Integers, Sequences, FiniteSets

Payers(net) == {p \in DOMAIN net : net[p] < 0}
Receivers(net) == {p \in DOMAIN net : net[p] > 0}

Smaller(m, n) == IF m < n THEN m ELSE n

Size(n) == IF n < 0 THEN -n ELSE n

\* The parties of S, the largest position first.
LargestFirst(S, net) ==
  CHOOSE q \in [1 .. Cardinality(S) -> S] :
    \A m, n \in 1 .. Cardinality(S) :
      m < n => q[m] # q[n] /\ Size(net[q[m]]) >= Size(net[q[n]])

\* What the n-th of the parties in q has to pay or is due.
Owed(q, net, n) == IF n <= Len(q) THEN Size(net[q[n]]) ELSE 0

\* Mutant: the receiver is moved past even if it is owed more.
MoveOnAndDrop(i, j, pay, due) == <<IF pay <= due THEN i + 1 ELSE i, j + 1>>

\* Whoever is settled makes room for the next.
MoveOn(i, j, pay, due) ==
  <<IF pay <= due THEN i + 1 ELSE i, IF due <= pay THEN j + 1 ELSE j>>

\* The i-th payer still has to pay s.pay, the j-th receiver is still due s.due.
MatchNext(net, payers, receivers, s) ==
  LET amount == Smaller(s.pay, s.due)
      next == MoveOn(s.i, s.j, s.pay, s.due)
  IN [i |-> next[1], j |-> next[2],
      pay |-> IF next[1] = s.i THEN s.pay - amount ELSE Owed(payers, net, next[1]),
      due |-> IF next[2] = s.j THEN s.due - amount ELSE Owed(receivers, net, next[2]),
      legs |-> Append(s.legs, [sender |-> payers[s.i], receiver |-> receivers[s.j],
                               amount |-> amount])]

Match(net) ==
  LET payers == LargestFirst(Payers(net), net)
      receivers == LargestFirst(Receivers(net), net)
      after[n \in 0 .. Len(payers) + Len(receivers)] ==
        IF n = 0 THEN [i |-> 1, j |-> 1, pay |-> Owed(payers, net, 1),
                       due |-> Owed(receivers, net, 1), legs |-> <<>>]
        ELSE LET s == after[n - 1]
             IN IF s.i > Len(payers) \/ s.j > Len(receivers) THEN s
                ELSE MatchNext(net, payers, receivers, s)
  IN after[Len(payers) + Len(receivers)].legs
=============================================================================
