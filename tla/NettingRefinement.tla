-------------------------- MODULE NettingRefinement --------------------------
(***************************************************************************)
(* The properties of the on-ledger netting core, and the mapping under     *)
(* which NettingLedger implements AtomicNetting: the book as it is, and    *)
(* each firm's balance as the sum of the holdings it owns.                 *)
(***************************************************************************)
EXTENDS NettingLedger

\* A quote is the conversion that a set of rate contracts gives, signed by
\* the firms that signed every one of them.
Quotes ==
  {[factor |-> [c \in Currency |-> FxFactor(R, c)],
    priced |-> {c \in Currency : Valued(R, c)},
    signers |-> {f \in Firm : \A r \in R : f \in RateTerms[r].parties}] :
     R \in (SUBSET FXRate) \ {{}}}

Rail ==
  INSTANCE AtomicNetting WITH
    Quote <- Quotes, book <- obl,
    balance <- [f \in Firm |-> [c \in Currency |-> CashOf(f, c)]]

\* Every ledger transaction is one step of the rail or none: a settlement
\* closes its obligations and moves exactly their net in the same step
\* (SettleNetting), no other transaction nets anything, and locking,
\* releasing, batching and cancelling move no cash.
RefinesAtomicNetting == Rail!ASpec

SettledBatches == {b \in Batch : batch[b] # None /\ batch[b].status = "settled"}

\* An obligation is netted exactly when one settled batch names it, and by no
\* more than one: competing batches over one book, and discharges by
\* clear_book between building and settling, never net it twice or lose it.
NettedExactlyOnce ==
  \A o \in Obl :
    /\ obl[o] = "netted" <=> \E b \in SettledBatches : o \in batch[b].obligations
    /\ \A b1, b2 \in SettledBatches :
         o \in batch[b1].obligations /\ o \in batch[b2].obligations => b1 = b2

Settles(b) == b \notin SettledBatches /\ b \in SettledBatches'

Moved(h, f, g) ==
  /\ holding[h] # None /\ holding[h].owner = f
  /\ holding'[h] # None /\ holding'[h].owner = g
  /\ f # g

\* Locked cash changes owner only in a settlement that has a leg from the old
\* owner to the new one for exactly that amount: a lock is never bypassed by
\* Transfer, Issue or Release, and a settlement takes no holding it does not
\* need (Holding.daml: locked until swapped or released).
LockedCashMovesOnlyByLeg ==
  [][\A h \in Hold, f, g \in Firm :
       Locked(h) /\ Moved(h, f, g) =>
         \E b \in Batch :
           /\ Settles(b)
           /\ \E i \in DOMAIN batch[b].residualLegs :
                LET leg == batch[b].residualLegs[i] IN
                leg.sender = f /\ leg.receiver = g /\ leg.amount = holding[h].amount]_vars

\* Cash is issued once and then only changes hands: no transaction destroys a
\* holding, changes its amount or turns it into another currency, so what is in
\* circulation is what the custodian issued (Holding.daml: every choice creates
\* the successor with the same instrument and amount).
CashNeverAltered ==
  [][\A h \in Hold :
       holding[h] # None =>
         /\ holding'[h] # None
         /\ holding'[h].amount = holding[h].amount
         /\ holding'[h].currency = holding[h].currency]_vars

PaidTo(f, g, c) ==
  TotalOf(holding, {h \in Hold : Moved(h, f, g) /\ holding[h].currency = c})

PaidOut(f, c) == SumFunctionOnSet([g \in Firm |-> PaidTo(f, g, c)], Firm)

\* The cash that actually leaves a firm in a settlement respects every
\* bilateral and aggregate limit contract the batch carries, and those
\* contracts are still in force at that moment (guards 3 and 6).
OutflowWithinCarriedLimits ==
  [][\A b \in Batch :
       Settles(b) =>
         /\ \A k \in batch[b].creditLimits :
              /\ ref[k] = "active"
              /\ PaidTo(CreditTerms[k].from, CreditTerms[k].to, CreditTerms[k].currency)
                   <= CreditTerms[k].limit
         /\ \A k \in batch[b].aggregateLimits :
              /\ ref[k] = "active"
              /\ PaidOut(AggregateTerms[k].party, AggregateTerms[k].currency)
                   <= AggregateTerms[k].limit]_vars

FactsCurrent(b) ==
  \A k \in batch[b].liquidityFloors :
    LET lf == FloorTerms[k] IN
    batch[b].balanceFacts[lf.party][lf.currency] = CashOf(lf.party, lf.currency)

\* When the balances the batch states are still those of the ledger at
\* settlement, a firm with a carried floor holds at least that floor in
\* actual cash afterwards, whatever its legs and currencies (guard 5).
FloorHeldIfFactsCurrent ==
  [][\A b \in Batch :
       Settles(b) /\ FactsCurrent(b) =>
         \A k \in batch[b].liquidityFloors :
           CashOf(FloorTerms[k].party, FloorTerms[k].currency)'
             >= FloorTerms[k].floor]_vars
=============================================================================
