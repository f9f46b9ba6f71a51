--------------------------- MODULE TradeSettlement ---------------------------
(***************************************************************************)
(* Bilateral delivery versus payment: TradeProposal and AcceptedTrade      *)
(* (Trade.daml), SettlementBatch (Settlement.daml), the agent's            *)
(* recommendation and the human approval (Agent.daml), the agent that      *)
(* writes the one and acts on the other (agent/cli.py), and the script     *)
(* that settles (Orchestrate.daml).                                        *)
(*                                                                         *)
(* A ledger transaction is one action.  The script is several of them, and *)
(* between two of them anything can happen.  Here a Holding's contract id  *)
(* matters, since the script keeps ids across steps: <<h, n>> is the n-th  *)
(* contract of holding h, and only the current one is active.              *)
(***************************************************************************)
EXTENDS Naturals, FiniteSets

CONSTANTS
  Party,
  Trade, Terms,     \* [Trade -> [seller, buyer, amount, price]]
  Hold, Stock,      \* the holdings at the start: [owner, kind, amount]
  Live,             \* the one trade that orchestrateLive settles
  Watcher,          \* agents running `watch`
  Runner,           \* runs of `settle` or of the script, each once
  MaxReco,          \* bound on open recommendations of a trade
  Approval          \* the ApprovedAction contracts that may exist for a trade

Kind == {"asset", "cash"}
HoldingTerms == [owner: Party, kind: Kind, amount: Nat \ {0}]
NoTrade == "no trade"

ASSUME TradeTerms ==
  /\ Terms \in [Trade ->
       [seller: Party, buyer: Party, amount: Nat \ {0}, price: Nat \ {0}]]
  /\ \A t \in Trade : Terms[t].seller # Terms[t].buyer
ASSUME StockTerms == Stock \in [Hold -> HoldingTerms]
ASSUME LiveTrade == Live \in Trade /\ NoTrade \notin Trade /\ MaxReco \in Nat

VARIABLES
  trade,     \* [Trade -> TradeState]: the contract that carries the trade
  attested,  \* trades with a DeliveryAttestation
  holding,   \* [Hold -> [owner, kind, amount, lock, n]]
  reco,      \* [Trade -> number of open SettlementRecommendations]
  approval,  \* [Trade -> [Approval -> {"none", "active", "executed"}]]
  watch,     \* [Watcher -> what it is doing]
  run        \* [Runner -> what it is doing]

ledger == <<trade, attested, holding>>
gate == <<reco, approval>>
vars == <<trade, attested, holding, reco, approval, watch, run>>

TradeState == {"none", "proposed", "rejected", "accepted",   \* TradeProposal, AcceptedTrade
               "pending", "allocated", "cancelled",          \* SettlementBatch
               "settled"}                                    \* SettledTrade
Cid == Hold \X Nat
NoCid == [k \in Kind |-> {}]

HoldingRec == [owner: Party, kind: Kind, amount: Nat \ {0},
               lock: Trade \union {NoTrade}, n: Nat]

Watch == [step: {"idle", "check", "write"}, trade: Trade \union {NoTrade}]
RunStep == {"idle", "gate", "assemble", "find", "lockAsset", "lockCash", "allocate",
            "settle", "mark", "done", "failed"}
Run == [step: RunStep, trade: Trade \union {NoTrade},
        marks: SUBSET Approval, cids: [Kind -> SUBSET Cid]]

TypeOK ==
  /\ trade \in [Trade -> TradeState]
  /\ attested \subseteq Trade
  /\ holding \in [Hold -> HoldingRec]
  /\ reco \in [Trade -> 0 .. MaxReco]
  /\ approval \in [Trade -> [Approval -> {"none", "active", "executed"}]]
  /\ watch \in [Watcher -> Watch]
  /\ run \in [Runner -> Run]

Init ==
  /\ trade = [t \in Trade |-> "none"]
  /\ attested = {}
  /\ holding = [h \in Hold |->
       [owner |-> Stock[h].owner, kind |-> Stock[h].kind, amount |-> Stock[h].amount,
        lock |-> NoTrade, n |-> 0]]
  /\ reco = [t \in Trade |-> 0]
  /\ approval = [t \in Trade |-> [a \in Approval |-> "none"]]
  /\ watch = [w \in Watcher |-> [step |-> "idle", trade |-> NoTrade]]
  /\ run = [r \in Runner |->
       [step |-> "idle", trade |-> NoTrade, marks |-> {}, cids |-> NoCid]]

-----------------------------------------------------------------------------
(* Holdings.                                                               *)

Active(c) == holding[c[1]].n = c[2]
Sender(t, k) == IF k = "asset" THEN Terms[t].seller ELSE Terms[t].buyer
Receiver(t, k) == IF k = "asset" THEN Terms[t].buyer ELSE Terms[t].seller
Quantity(t, k) == IF k = "asset" THEN Terms[t].amount ELSE Terms[t].price

HoldingTransfer(h, f) ==
  /\ holding[h].lock = NoTrade
  /\ holding' = [holding EXCEPT ![h].owner = f, ![h].n = @ + 1]
  /\ UNCHANGED <<trade, attested, gate, watch, run>>

\* The owner adds or removes an observer, of a locked holding too: a new
\* contract that says the same.
Redisclose(h) ==
  /\ holding' = [holding EXCEPT ![h].n = @ + 1]
  /\ UNCHANGED <<trade, attested, gate, watch, run>>

\* The locker may release at any time; here that is the coordinator, who locks for
\* every trade.
Released(R) ==
  /\ \A h \in R : holding[h].lock # NoTrade
  /\ holding' = [h \in Hold |->
       IF h \in R THEN [holding[h] EXCEPT !.lock = NoTrade, !.n = @ + 1] ELSE holding[h]]

Release(h) == Released({h}) /\ UNCHANGED <<trade, attested, gate, watch, run>>

-----------------------------------------------------------------------------
(* The trade.                                                              *)

Moves(t, from, to) == trade[t] = from /\ trade' = [trade EXCEPT ![t] = to]

Propose(t) ==
  Moves(t, "none", "proposed") /\ UNCHANGED <<attested, holding, gate, watch, run>>

Reject(t) ==
  Moves(t, "proposed", "rejected")
    /\ UNCHANGED <<attested, holding, gate, watch, run>>

\* The buyer names a cash holding of its own for the price.
Accept(t, h) ==
  /\ Moves(t, "proposed", "accepted")
  /\ holding[h].owner = Terms[t].buyer /\ holding[h].kind = "cash"
  /\ holding[h].amount = Terms[t].price
  /\ UNCHANGED <<attested, holding, gate, watch, run>>

Attest(t) ==
  /\ t \notin attested
  /\ attested' = attested \union {t}
  /\ UNCHANGED <<trade, holding, gate, watch, run>>

\* The coordinator or a required party cancels a batch.  The holdings to release
\* are an argument, and nothing says that they are those of this trade.
Cancel(t, R) ==
  /\ trade[t] \in {"pending", "allocated"}
  /\ trade' = [trade EXCEPT ![t] = "cancelled"]
  /\ Released(R)
  /\ UNCHANGED <<attested, gate, watch, run>>

-----------------------------------------------------------------------------
(* The governed agent: watch, approve, reject.                             *)

\* Mutant: recommends a trade that has a recommendation.
RecommendAgain(w) ==
  /\ watch[w].step = "write"
  /\ reco' = [reco EXCEPT ![watch[w].trade] = @ + 2]
  /\ watch' = [watch EXCEPT ![w] = [step |-> "idle", trade |-> NoTrade]]
  /\ UNCHANGED <<ledger, approval, run>>

\* One round of watch queries the accepted trades, then the attestations and
\* recommendations, and then writes.
Look(w, t) ==
  /\ watch[w].step = "idle" /\ trade[t] = "accepted"
  /\ watch' = [watch EXCEPT ![w] = [step |-> "check", trade |-> t]]
  /\ UNCHANGED <<ledger, gate, run>>

\* Mutant: an attestation is not asked for.
Always(t) == TRUE

\* evaluate_trade on an AcceptedTrade: its two legs are always a swap of
\* positive amounts, so only the attestation is open.
Ready(t) == t \in attested

Evaluate(w) ==
  LET t == watch[w].trade IN
  /\ watch[w].step = "check"
  /\ watch' = [watch EXCEPT ![w] =
       IF reco[t] = 0 /\ Ready(t)
       THEN [step |-> "write", trade |-> t] ELSE [step |-> "idle", trade |-> NoTrade]]
  /\ UNCHANGED <<ledger, gate, run>>

WriteReco(w) ==
  /\ watch[w].step = "write" /\ reco[watch[w].trade] < MaxReco
  /\ reco' = [reco EXCEPT ![watch[w].trade] = @ + 1]
  /\ watch' = [watch EXCEPT ![w] = [step |-> "idle", trade |-> NoTrade]]
  /\ UNCHANGED <<ledger, approval, run>>

Approve(t, a) ==
  /\ reco[t] > 0 /\ approval[t][a] = "none"
  /\ reco' = [reco EXCEPT ![t] = @ - 1]
  /\ approval' = [approval EXCEPT ![t][a] = "active"]
  /\ UNCHANGED <<ledger, watch, run>>

ProcessRejection(t) ==
  /\ reco[t] > 0
  /\ reco' = [reco EXCEPT ![t] = @ - 1]
  /\ UNCHANGED <<ledger, approval, watch, run>>

-----------------------------------------------------------------------------
(* Settling.                                                               *)

At(r, s) == run[r].step = s
Goto(r, s) == run' = [run EXCEPT ![r].step = s]
Ends(r, s) == run' = [run EXCEPT ![r] =
                [step |-> s, trade |-> NoTrade, marks |-> {}, cids |-> NoCid]]
Fails(r) == Ends(r, "failed")

Approvals(t) == {a \in Approval : approval[t][a] = "active"}

\* cmd_settle asks whether the trade it was given is approved, and then runs
\* the script for Live whatever that trade was.
CmdSettle(r, asked) ==
  /\ At(r, "idle") /\ Approvals(asked) # {}
  /\ run' = [run EXCEPT ![r].step = "gate", ![r].trade = Live]
  /\ UNCHANGED <<ledger, gate, watch>>

\* orchestrateSettlement started for a trade.
Orchestrate(r, t) ==
  /\ At(r, "idle")
  /\ run' = [run EXCEPT ![r].step = "gate", ![r].trade = t]
  /\ UNCHANGED <<ledger, gate, watch>>

\* Mutant: the script relies on the caller's check.
Ungated(r) ==
  /\ At(r, "gate")
  /\ run' = [run EXCEPT ![r].step = "assemble", ![r].marks = Approvals(run[r].trade)]
  /\ UNCHANGED <<ledger, gate, watch>>

Gate(r) ==
  LET marks == Approvals(run[r].trade) IN
  /\ At(r, "gate")
  /\ IF marks = {} THEN Fails(r)
     ELSE run' = [run EXCEPT ![r].step = "assemble", ![r].marks = marks]
  /\ UNCHANGED <<ledger, gate, watch>>

AssembleBatch(r) ==
  /\ At(r, "assemble")
  /\ \/ Moves(run[r].trade, "accepted", "pending") /\ Goto(r, "find")
     \/ trade[run[r].trade] # "accepted" /\ Fails(r) /\ UNCHANGED trade
  /\ UNCHANGED <<attested, holding, gate, watch>>

\* findHolding: an unlocked holding of the sender, of the right kind, for each
\* leg (the two queries are one step here; Lock notices what changed after).
Candidates(t, k) ==
  {h \in Hold : holding[h].owner = Sender(t, k) /\ holding[h].kind = k
                  /\ holding[h].lock = NoTrade}

FindHoldings(r) ==
  LET t == run[r].trade IN
  /\ At(r, "find")
  /\ \/ \E a \in Candidates(t, "asset"), c \in Candidates(t, "cash") :
          run' = [run EXCEPT ![r].step = "lockAsset",
            ![r].cids = [k \in Kind |-> IF k = "asset" THEN {<<a, holding[a].n>>}
                                        ELSE {<<c, holding[c].n>>}]]
     \/ (\E k \in Kind : Candidates(t, k) = {}) /\ Fails(r)
  /\ UNCHANGED <<ledger, gate, watch>>

\* LockHolding on the contract found before; the successor's id is kept.
Lock(r, k, next) ==
  /\ \E c \in run[r].cids[k] :
       IF Active(c) /\ holding[c[1]].lock = NoTrade
       THEN /\ holding' = [holding EXCEPT ![c[1]].lock = run[r].trade, ![c[1]].n = @ + 1]
            /\ run' = [run EXCEPT ![r].step = next, ![r].cids[k] = {<<c[1], c[2] + 1>>}]
       ELSE Fails(r) /\ UNCHANGED holding
  /\ UNCHANGED <<trade, attested, gate, watch>>

LockAsset(r) == At(r, "lockAsset") /\ Lock(r, "asset", "lockCash")
LockCash(r) == At(r, "lockCash") /\ Lock(r, "cash", "allocate")

\* Mutant: the amounts are not compared.
MatchesButAmount(t, k, c) ==
  /\ Active(c) /\ holding[c[1]].lock # NoTrade
  /\ holding[c[1]].kind = k /\ holding[c[1]].owner = Sender(t, k)

\* What Allocate verifies of a leg's holding.
Matches(t, k, c) ==
  /\ Active(c) /\ holding[c[1]].lock # NoTrade
  /\ holding[c[1]].kind = k /\ holding[c[1]].owner = Sender(t, k)
  /\ holding[c[1]].amount = Quantity(t, k)

Allocate(r) ==
  LET t == run[r].trade IN
  /\ At(r, "allocate")
  /\ IF trade[t] = "pending" /\ \A k \in Kind : \A c \in run[r].cids[k] : Matches(t, k, c)
     THEN /\ trade' = [trade EXCEPT ![t] = "allocated"]
          /\ Goto(r, "settle")
     ELSE Fails(r) /\ UNCHANGED trade
  /\ UNCHANGED <<attested, holding, gate, watch>>

\* Mutant: the leg is taken from whatever contract the holding has now.
SettleableNow(t, cids) ==
  /\ trade[t] = "allocated"
  /\ \A k \in Kind : \A c \in cids[k] : holding[c[1]].lock # NoTrade

\* Settle looks at the batch's status and, in SettleTransfer, at the locks.
Settleable(t, cids) ==
  /\ trade[t] = "allocated"
  /\ \A k \in Kind : \A c \in cids[k] : Active(c) /\ holding[c[1]].lock # NoTrade

Swapped(t, cids) ==
  [h \in Hold |->
    IF \E k \in Kind : \E c \in cids[k] : c[1] = h
    THEN LET k == CHOOSE k \in Kind : \E c \in cids[k] : c[1] = h
         IN [holding[h] EXCEPT !.owner = Receiver(t, k), !.lock = NoTrade, !.n = @ + 1]
    ELSE holding[h]]

Settle(r) ==
  LET t == run[r].trade IN
  /\ At(r, "settle")
  /\ IF Settleable(t, run[r].cids)
     THEN /\ trade' = [trade EXCEPT ![t] = "settled"]
          /\ holding' = Swapped(t, run[r].cids)
          /\ run' = [run EXCEPT ![r].step = "mark", ![r].cids = NoCid]
     ELSE Fails(r) /\ UNCHANGED <<trade, holding>>
  /\ UNCHANGED <<attested, gate, watch>>

\* Mutant: marks what was approved even when the settlement failed.
MarkAnyway(r) ==
  /\ run[r].step \in {"settle", "mark"} /\ run[r].marks # {}
  /\ \E a \in run[r].marks :
       /\ approval' = [approval EXCEPT ![run[r].trade][a] = "executed"]
       /\ run' = [run EXCEPT ![r].marks = @ \ {a}]
  /\ UNCHANGED <<ledger, reco, watch>>

\* Every approval found at the gate is marked, one transaction each.
MarkExecuted(r) ==
  LET t == run[r].trade IN
  /\ At(r, "mark")
  /\ IF run[r].marks = {} THEN Ends(r, "done") /\ UNCHANGED approval
     ELSE \E a \in run[r].marks :
            IF approval[t][a] = "active"
            THEN /\ approval' = [approval EXCEPT ![t][a] = "executed"]
                 /\ run' = [run EXCEPT ![r].marks = @ \ {a}]
            ELSE Fails(r) /\ UNCHANGED approval
  /\ UNCHANGED <<ledger, reco, watch>>

\* The script dies between two steps, or its request is lost.
Dies(r) ==
  /\ run[r].step \notin {"idle", "done", "failed"} /\ Fails(r)
  /\ UNCHANGED <<ledger, gate, watch>>

-----------------------------------------------------------------------------
Parties ==
  \/ \E t \in Trade :
       \/ Propose(t) \/ Reject(t) \/ Attest(t)
       \/ \E h \in Hold : Accept(t, h)
       \/ \E R \in SUBSET Hold : Cancel(t, R)
  \/ \E h \in Hold : Redisclose(h) \/ Release(h) \/ \E f \in Party : HoldingTransfer(h, f)

Agent ==
  \/ \E w \in Watcher : (\E t \in Trade : Look(w, t)) \/ Evaluate(w) \/ WriteReco(w)
  \/ \E t \in Trade : ProcessRejection(t) \/ \E a \in Approval : Approve(t, a)

Script(r) ==
  \/ \E t \in Trade : CmdSettle(r, t) \/ Orchestrate(r, t)
  \/ Gate(r) \/ AssembleBatch(r) \/ FindHoldings(r) \/ LockAsset(r) \/ LockCash(r)
  \/ Allocate(r) \/ Settle(r) \/ MarkExecuted(r) \/ Dies(r)

Next == Parties \/ Agent \/ \E r \in Runner : Script(r)

Spec == Init /\ [][Next]_vars

-----------------------------------------------------------------------------
(* Properties.                                                             *)

\* No trade settles unless the buyer accepted it, its delivery was attested, the
\* agent recommended it on that ground and a human approved that
\* recommendation -- across the agent's polling loop, the approver's command
\* and a script that may have been started for another trade.  The ledger
\* itself enforces none of this at Settle (Agent.daml: "nothing settles
\* without it").
SettledOnlyAsGoverned ==
  \A t \in Trade :
    trade[t] = "settled" =>
      t \in attested /\ \E a \in Approval : approval[t][a] # "none"

\* An approval is marked as executed only when its trade did settle, also with
\* several approvals of one trade and several scripts acting on them.
ExecutedMeansSettled ==
  \A t \in Trade, a \in Approval :
    approval[t][a] = "executed" => trade[t] = "settled"

\* The step that settles a trade moves only holdings locked for that trade.  Neither
\* Settle nor SettleTransfer looks at a lock's context (Holding.daml 134 asks for any
\* lock), while the coordinator may release what it locked for one trade when it
\* cancels another, a second script may then find and lock the holding for its
\* own trade, and an owner may renew the contract meanwhile.
SettlesOnlyItsOwnLocks ==
  [][\A t \in Trade :
       trade[t] # "settled" /\ trade'[t] = "settled" =>
         \A h \in Hold : holding'[h].owner # holding[h].owner => holding[h].lock = t]_vars

Delivered(t, k, h) ==
  /\ holding[h].kind = k /\ holding[h].amount = Quantity(t, k)
  /\ holding[h].owner = Sender(t, k) /\ holding'[h].owner = Receiver(t, k)

\* Delivery versus payment: the step that settles a trade delivers exactly its
\* asset and pays exactly its price, and no other holding changes hands, although
\* the script takes any unlocked holding it finds and Settle compares nothing.
DeliveryVersusPayment ==
  [][\A t \in Trade :
       trade[t] # "settled" /\ trade'[t] = "settled" =>
         \E a, c \in Hold :
           /\ Delivered(t, "asset", a) /\ Delivered(t, "cash", c)
           /\ \A h \in Hold \ {a, c} : holding'[h] = holding[h]]_vars
=============================================================================
