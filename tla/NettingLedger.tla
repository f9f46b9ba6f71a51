---------------------------- MODULE NettingLedger ----------------------------
(***************************************************************************)
(* The on-ledger netting core: Obligation, the limit, rate and floor       *)
(* contracts, NettingBatch (Netting.daml) and the cash Holdings that fund  *)
(* it (Holding.daml, Instrument.daml).  Every action is one ledger         *)
(* transaction, so its guards are the assertMsg, ensure and fetch          *)
(* conditions of the whole transaction: if one fails nothing happens.      *)
(*                                                                         *)
(* A Holding choice archives the contract and creates its successor; the   *)
(* model follows the chain of successors as one slot h \in Hold.  The      *)
(* custodian, accounts and disclosure lists are left out.                  *)
(***************************************************************************)
EXTENDS Integers, Sequences, FiniteSets, Functions

CONSTANTS
  Firm, Currency,
  Obl, OblTerms,     \* obligation contracts and their payloads
  Hold, IssueTerms,  \* cash slots; what may be issued into one
  Batch,             \* NettingBatch contracts
  CreditLimit, CreditTerms,        \* [from, to, currency, limit]
  AggregateLimit, AggregateTerms,  \* [party, currency, limit]
  LiquidityFloor, FloorTerms,      \* [party, currency, floor]
  FXRate, RateTerms,               \* [base, quote, rate, parties]
  Valuation,         \* valuationCurrency
  Unit,              \* 1.0 as a scaled integer (a rate is a multiple of 1/Unit)
  Plans,             \* sequences of transfers an operator may propose
  MaxTime,           \* bound on ledger time
  None

Amount == Nat \ {0}
OblRec == [payer: Firm, payee: Firm, amount: Amount, currency: Currency, maturity: Nat]
Transfer == [sender: Firm, receiver: Firm, amount: Amount, currency: Currency]
IssueRec == [owner: Firm, currency: Currency, amount: Amount]
HoldingRec == [owner: Firm, currency: Currency, amount: Amount, locked: BOOLEAN]

\* Reference contracts a batch may name; each is agreed once and archived once.
Ref == CreditLimit \union AggregateLimit \union LiquidityFloor \union FXRate

BatchRec ==
  [obligations: SUBSET Obl, residualLegs: Plans, parties: SUBSET Firm,
   creditLimits: SUBSET CreditLimit, aggregateLimits: SUBSET AggregateLimit,
   liquidityFloors: SUBSET LiquidityFloor, fxRates: SUBSET FXRate,
   balanceFacts: [Firm -> [Currency -> Nat]], status: {"pending", "settled"}]

ASSUME ObligationTerms == OblTerms \in [Obl -> OblRec]
ASSUME CashTerms == IssueTerms \subseteq IssueRec
ASSUME PlanTerms == Plans \subseteq Seq(Transfer)
ASSUME LimitTerms ==
  /\ CreditTerms \in [CreditLimit ->
       [from: Firm, to: Firm, currency: Currency, limit: Nat]]
  /\ AggregateTerms \in [AggregateLimit ->
       [party: Firm, currency: Currency, limit: Nat]]
  /\ FloorTerms \in [LiquidityFloor ->
       [party: Firm, currency: Currency, floor: Nat]]
ASSUME FXTerms ==
  /\ RateTerms \in [FXRate ->
       [base: Currency, quote: Currency, rate: Amount, parties: SUBSET Firm]]
  /\ Valuation \in Currency /\ Unit \in Amount
ASSUME TimeBound == MaxTime \in Nat
ASSUME NoneIsNoRecord == None \notin HoldingRec /\ None \notin BatchRec
ASSUME FiniteLedger ==
  IsFiniteSet(Hold) /\ IsFiniteSet(Firm) /\ IsFiniteSet(Currency) /\ IsFiniteSet(Obl)

VARIABLES
  now,      \* ledger time, read by getTime
  obl,      \* [Obl -> {"none", "live", "withdrawn", "netted"}]
  holding,  \* [Hold -> HoldingRec or None]
  ref,      \* [Ref -> {"none", "active", "archived"}]
  batch     \* [Batch -> BatchRec or None]; a settled batch keeps its payload, as history

vars == <<now, obl, holding, ref, batch>>

TypeOK ==
  /\ now \in 0 .. MaxTime
  /\ obl \in [Obl -> {"none", "live", "withdrawn", "netted"}]
  /\ holding \in [Hold -> HoldingRec \union {None}]
  /\ ref \in [Ref -> {"none", "active", "archived"}]
  /\ batch \in [Batch -> BatchRec \union {None}]

Init ==
  /\ now = 0
  /\ obl = [o \in Obl |-> "none"]
  /\ holding = [h \in Hold |-> None]
  /\ ref = [r \in Ref |-> "none"]
  /\ batch = [b \in Batch |-> None]

-----------------------------------------------------------------------------
(* Sums over the members I of a family T of transfers, or of holdings.     *)

TotalOf(T, I) == SumFunctionOnSet([i \in I |-> T[i].amount], I)

In(T, c) == {i \in DOMAIN T : T[i].currency = c}
GrossOf(T, c) == TotalOf(T, In(T, c))
OutOf(T, f, c) == TotalOf(T, {i \in In(T, c) : T[i].sender = f})
NetOfCur(T, f, c) ==
  TotalOf(T, {i \in In(T, c) : T[i].receiver = f}) - OutOf(T, f, c)

\* obligationFacts: the operator states them from the obligations it names.
Facts(S) ==
  [o \in S |-> [sender |-> OblTerms[o].payer, receiver |-> OblTerms[o].payee,
                amount |-> OblTerms[o].amount, currency |-> OblTerms[o].currency]]

Involved(S) == UNION {{OblTerms[o].payer, OblTerms[o].payee} : o \in S}

\* The cash slots that f holds in c, and what is in them.
Held(f, c) ==
  {h \in Hold : holding[h] # None /\ holding[h].owner = f /\ holding[h].currency = c}

CashOf(f, c) == TotalOf(holding, Held(f, c))

-----------------------------------------------------------------------------
(* Valuation: how many scaled units of Valuation one unit of c is worth.   *)

DirectRates(R, c) == {r \in R : RateTerms[r].base = c /\ RateTerms[r].quote = Valuation}
InverseRates(R, c) == {r \in R : RateTerms[r].base = Valuation /\ RateTerms[r].quote = c}

FxFactor(R, c) ==
  CASE c = Valuation -> Unit
    [] c # Valuation /\ DirectRates(R, c) # {} ->
         RateTerms[CHOOSE r \in DirectRates(R, c) : TRUE].rate
    [] c # Valuation /\ DirectRates(R, c) = {} /\ InverseRates(R, c) # {} ->
         (Unit * Unit) \div RateTerms[CHOOSE r \in InverseRates(R, c) : TRUE].rate
    [] OTHER -> 0

Valued(R, c) == c = Valuation \/ DirectRates(R, c) # {} \/ InverseRates(R, c) # {}

ValueNet(T, R, f) ==
  SumFunctionOnSet([c \in Currency |-> NetOfCur(T, f, c) * FxFactor(R, c)], Currency)

-----------------------------------------------------------------------------
(* Obligations, reference contracts and cash.                              *)

Tick == now < MaxTime /\ now' = now + 1 /\ UNCHANGED <<obl, holding, ref, batch>>

Accrue(o) ==
  /\ obl[o] = "none"
  /\ obl' = [obl EXCEPT ![o] = "live"]
  /\ UNCHANGED <<now, holding, ref, batch>>

Matured(o) == OblTerms[o].maturity <= now

\* Mutant: a choice on an archived obligation still goes through.
DischargeableAgain(o) == obl[o] # "none" /\ Matured(o)

\* The Discharge choice: the contract is active and due.
Dischargeable(o) == obl[o] = "live" /\ Matured(o)

\* Discharge exercised on its own, as clear_book does.
Discharge(o) ==
  /\ Dischargeable(o)
  /\ obl' = [obl EXCEPT ![o] = "withdrawn"]
  /\ UNCHANGED <<now, holding, ref, batch>>

Agree(r) ==
  /\ ref[r] = "none"
  /\ ref' = [ref EXCEPT ![r] = "active"]
  /\ UNCHANGED <<now, obl, holding, batch>>

Archive(r) ==
  /\ ref[r] = "active"
  /\ ref' = [ref EXCEPT ![r] = "archived"]
  /\ UNCHANGED <<now, obl, holding, batch>>

Issue(h, t) ==
  /\ holding[h] = None
  /\ holding' = [holding EXCEPT ![h] =
       [owner |-> t.owner, currency |-> t.currency, amount |-> t.amount,
        locked |-> FALSE]]
  /\ UNCHANGED <<now, obl, ref, batch>>

Free(h) == holding[h] # None /\ ~holding[h].locked
Locked(h) == holding[h] # None /\ holding[h].locked

LockHolding(h) ==
  /\ Free(h)
  /\ holding' = [holding EXCEPT ![h].locked = TRUE]
  /\ UNCHANGED <<now, obl, ref, batch>>

Release(h) ==
  /\ Locked(h)
  /\ holding' = [holding EXCEPT ![h].locked = FALSE]
  /\ UNCHANGED <<now, obl, ref, batch>>

\* Mutant: Transfer forgets that a locked holding may not move.
TransferOfAny(h, newOwner) ==
  /\ holding[h] # None
  /\ holding' = [holding EXCEPT ![h].owner = newOwner]
  /\ UNCHANGED <<now, obl, ref, batch>>

HoldingTransfer(h, newOwner) ==
  /\ Free(h)
  /\ holding' = [holding EXCEPT ![h].owner = newOwner]
  /\ UNCHANGED <<now, obl, ref, batch>>

-----------------------------------------------------------------------------
(* NettingBatch.                                                           *)

Known(R) == {r \in R : ref[r] # "none"}

BalanceFacts == [Firm -> [Currency -> Nat]]

\* The operator states the obligations' terms and the pre-settlement balances.
CreateBatch(b, S, legs, credit, aggregate, floors, rates, facts) ==
  /\ batch[b] = None
  /\ S # {}
  /\ facts \in BalanceFacts
  /\ batch' = [batch EXCEPT ![b] =
       [obligations |-> S, residualLegs |-> legs, parties |-> Involved(S),
        creditLimits |-> credit, aggregateLimits |-> aggregate,
        liquidityFloors |-> floors, fxRates |-> rates, balanceFacts |-> facts,
        status |-> "pending"]]
  /\ UNCHANGED <<now, obl, holding, ref>>

\* Mutant: the plan is compared with the book in gross, not party by party.
ConservesGrossOnly(B) ==
  \A c \in Currency : GrossOf(B.residualLegs, c) <= GrossOf(Facts(B.obligations), c)

\* Guard 1, per currency or, with rates, by value.
Conserves(B) ==
  LET facts == Facts(B.obligations) IN
  IF B.fxRates = {}
  THEN \A c \in Currency, p \in B.parties :
         NetOfCur(facts, p, c) = NetOfCur(B.residualLegs, p, c)
  ELSE \A p \in B.parties :
         ValueNet(facts, B.fxRates, p) = ValueNet(B.residualLegs, B.fxRates, p)

RatesAgreed(B) ==
  /\ \A r \in B.fxRates : B.parties \subseteq RateTerms[r].parties
  /\ B.fxRates # {} =>
       \A c \in Currency :
         In(Facts(B.obligations), c) # {} \/ In(B.residualLegs, c) # {}
           => Valued(B.fxRates, c)

\* Mutant: no efficiency guard.
AnyGross(B) == TRUE

\* Guard 2.
Efficient(B) ==
  \A c \in Currency :
    GrossOf(B.residualLegs, c) <= GrossOf(Facts(B.obligations), c)

\* Mutant: each leg alone is held against the limit, not their sum.
EachLegWithinCreditLimits(B) ==
  \A k \in B.creditLimits, i \in DOMAIN B.residualLegs :
    LET leg == B.residualLegs[i] IN
    leg.sender = CreditTerms[k].from /\ leg.receiver = CreditTerms[k].to
      => leg.amount <= CreditTerms[k].limit

\* Guard 3.
WithinCreditLimits(B) ==
  \A k \in B.creditLimits :
    LET cl == CreditTerms[k]
        owed == {i \in In(B.residualLegs, cl.currency) :
                   /\ B.residualLegs[i].sender = cl.from
                   /\ B.residualLegs[i].receiver = cl.to}
    IN TotalOf(B.residualLegs, owed) <= cl.limit

\* Guard 6.
WithinAggregateLimits(B) ==
  \A k \in B.aggregateLimits :
    LET al == AggregateTerms[k]
    IN OutOf(B.residualLegs, al.party, al.currency) <= al.limit

\* Mutant: the floor is held against the balance before the settlement.
AboveFloorsBefore(B) ==
  \A k \in B.liquidityFloors :
    B.balanceFacts[FloorTerms[k].party][FloorTerms[k].currency] >= FloorTerms[k].floor

\* Guard 5, on the balances the operator stated.
AboveFloors(B) ==
  \A k \in B.liquidityFloors :
    LET lf == FloorTerms[k]
    IN B.balanceFacts[lf.party][lf.currency]
         + NetOfCur(B.residualLegs, lf.party, lf.currency) >= lf.floor

\* Every contract the batch fetches is still active.
Carried(B) == B.creditLimits \union B.aggregateLimits
                \union B.liquidityFloors \union B.fxRates
Fetchable(B) == \A r \in Carried(B) : ref[r] = "active"

\* Guard 4, and the conditions of SettleTransfer: locked, not already moved
\* in this transaction, and a receiver whose authority the choice carries.
Funded(B, alloc) ==
  /\ \A i \in DOMAIN alloc :
       /\ Locked(alloc[i].holding)
       /\ holding[alloc[i].holding].amount = alloc[i].leg.amount
       /\ holding[alloc[i].holding].owner = alloc[i].leg.sender
       /\ alloc[i].leg.receiver \in B.parties
  /\ \A i, j \in DOMAIN alloc : i # j => alloc[i].holding # alloc[j].holding

\* Mutant: the leg is debited from the holding instead of moving the holding.
Debited(alloc) ==
  [h \in Hold |->
    IF \E i \in DOMAIN alloc : alloc[i].holding = h
    THEN LET i == CHOOSE i \in DOMAIN alloc : alloc[i].holding = h
         IN [holding[h] EXCEPT !.amount = @ - alloc[i].leg.amount, !.locked = FALSE]
    ELSE holding[h]]

\* Holdings after every allocation went to its leg's receiver, unlocked.
Swapped(alloc) ==
  [h \in Hold |->
    IF \E i \in DOMAIN alloc : alloc[i].holding = h
    THEN LET i == CHOOSE i \in DOMAIN alloc : alloc[i].holding = h
         IN [holding[h] EXCEPT !.owner = alloc[i].leg.receiver, !.locked = FALSE]
    ELSE holding[h]]

SettleNetting(b, alloc) ==
  /\ batch[b] # None /\ batch[b].status = "pending"
  /\ LET B == batch[b] IN
       /\ Len(alloc) = Len(B.residualLegs)
       /\ Funded(B, alloc)
       /\ \A o \in B.obligations : Dischargeable(o)
       /\ Fetchable(B)
       /\ RatesAgreed(B) /\ Conserves(B) /\ Efficient(B)
       /\ WithinCreditLimits(B) /\ WithinAggregateLimits(B) /\ AboveFloors(B)
       /\ obl' = [o \in Obl |-> IF o \in B.obligations THEN "netted" ELSE obl[o]]
  /\ holding' = Swapped(alloc)
  /\ batch' = [batch EXCEPT ![b].status = "settled"]
  /\ UNCHANGED <<now, ref>>

CancelNetting(b) ==
  /\ batch[b] # None /\ batch[b].status = "pending"
  /\ batch' = [batch EXCEPT ![b] = None]
  /\ UNCHANGED <<now, obl, holding, ref>>

-----------------------------------------------------------------------------
(* Who calls what.                                                         *)

\* An allocation names one holding per residual leg.
Allocations(b) ==
  {[i \in DOMAIN hs |-> [leg |-> batch[b].residualLegs[i], holding |-> hs[i]]] :
     hs \in [1 .. Len(batch[b].residualLegs) -> Hold]}

\* The clients issue each leg's holding in the leg's own instrument.
InKind(alloc) ==
  \A i \in DOMAIN alloc :
    /\ holding[alloc[i].holding] # None
    /\ holding[alloc[i].holding].currency = alloc[i].leg.currency

\* The balances that the floors need, as they are when the batch is built.
Snapshot(floors) ==
  [f \in Firm |-> [c \in Currency |->
    IF \E k \in floors : FloorTerms[k].party = f /\ FloorTerms[k].currency = c
    THEN CashOf(f, c) ELSE 0]]

\* A client builds a batch from obligations and contracts it has read; creating
\* the batch fetches none of them, so they may be archived by then.
Build ==
  \E b \in Batch, S \in SUBSET {o \in Obl : obl[o] # "none"}, legs \in Plans,
     credit \in SUBSET Known(CreditLimit),
     aggregate \in SUBSET Known(AggregateLimit),
     floors \in SUBSET Known(LiquidityFloor), rates \in SUBSET Known(FXRate) :
       CreateBatch(b, S, legs, credit, aggregate, floors, rates, Snapshot(floors))

SettleInKind ==
  \E b \in Batch :
    /\ batch[b] # None
    /\ \E alloc \in Allocations(b) : InKind(alloc) /\ SettleNetting(b, alloc)

Cash ==
  \E h \in Hold :
    \/ \E t \in IssueTerms : Issue(h, t)
    \/ LockHolding(h)
    \/ Release(h)
    \/ \E f \in Firm : HoldingTransfer(h, f)

Contracts ==
  \/ \E o \in Obl : Accrue(o) \/ Discharge(o)
  \/ \E r \in Ref : Agree(r) \/ Archive(r)

Next == Tick \/ Contracts \/ Cash \/ Build \/ SettleInKind
          \/ \E b \in Batch : CancelNetting(b)

Spec == Init /\ [][Next]_vars
=============================================================================
