-------------------------- MODULE MCTradeSettlement --------------------------
(***************************************************************************)
(* Two trades of one seller and one buyer at different prices, one asset   *)
(* and a cash holding for each price, so that the script may find the      *)
(* wrong cash and both trades want the same asset.                         *)
(***************************************************************************)
EXTENDS TradeSettlement, TLC

CONSTANTS seller, buyer, t1, t2, asset, cash1, cash2, r1, r2, w1, a1, a2

Deals == t1 :> [seller |-> seller, buyer |-> buyer, amount |-> 1, price |-> 1]
           @@ t2 :> [seller |-> seller, buyer |-> buyer, amount |-> 1, price |-> 2]
Safe == asset :> [owner |-> seller, kind |-> "asset", amount |-> 1]
          @@ cash1 :> [owner |-> buyer, kind |-> "cash", amount |-> 1]
          @@ cash2 :> [owner |-> buyer, kind |-> "cash", amount |-> 2]

Alike == Permutations({r1, r2}) \union Permutations({a1, a2})

Started == \E r \in Runner : run[r].step # "idle"

\* Bounds.  Before a script starts the holdings stay as they are, and by then
\* both trades were accepted, the watcher is idle and t2 has no open
\* recommendation; from then on the holdings change contracts five times in
\* all, the asset three times (locked, released, locked for the other trade) and
\* the cash three times, and the step that goes beyond is still checked.  Two
\* approvals exist at most, one of them for t2, and t2 is proposed and attested
\* after t1.
SmallScope ==
  /\ holding[asset].n + holding[cash1].n + holding[cash2].n <= IF Started THEN 5 ELSE 0
  /\ holding[asset].n <= 3 /\ holding[cash1].n + holding[cash2].n <= 3
  /\ Started => /\ trade[t1] \notin {"none", "proposed", "rejected"}
                /\ trade[t2] \notin {"none", "proposed", "rejected"}
                /\ watch[w1].step = "idle" /\ reco[t2] = 0
                /\ Cardinality({x \in Approval : approval[t2][x] # "none"}) <= 1
  /\ trade[t2] # "none" => trade[t1] \notin {"none", "proposed"}
  /\ t2 \in attested => t1 \in attested
  /\ Cardinality({x \in Trade \X Approval : approval[x[1]][x[2]] # "none"}) <= 2
=============================================================================
