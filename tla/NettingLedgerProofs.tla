------------------------- MODULE NettingLedgerProofs -------------------------
(***************************************************************************)
(* What holds of the netting core for every book, plan and set of limits:  *)
(* types, that nothing is netted twice, that cash is conserved and, while  *)
(* locked, safe, that the ledger implements AtomicNetting, and that the    *)
(* limits and floors a batch carries bind the sums of its legs.  Then, of  *)
(* the planners: that what they plan brings every firm what it is due,     *)
(* keeps the limits they were given, and passes the guards of the ledger.  *)
(***************************************************************************)
EXTENDS NettingRefinement, Planning, NettingTheorems

\* An allocation of the clients names a slot of the ledger per residual leg,
\* in the order of the legs (net_settle._residual_legs_and_allocs).
LEMMA AllocationShape ==
  ASSUME TypeOK, NEW b \in Batch, batch[b] # None, NEW alloc \in Allocations(b)
  PROVE  /\ DOMAIN alloc = 1 .. Len(batch[b].residualLegs)
         /\ DOMAIN alloc = DOMAIN batch[b].residualLegs
         /\ \A i \in DOMAIN alloc :
              /\ alloc[i].holding \in Hold
              /\ alloc[i].leg = batch[b].residualLegs[i]
              /\ alloc[i].leg \in Transfer
<1>1. batch[b] \in BatchRec
  BY DEF TypeOK
<1>2. batch[b].residualLegs \in Seq(Transfer)
  BY <1>1, PlanTerms DEF BatchRec
<1>3. PICK hs \in [1 .. Len(batch[b].residualLegs) -> Hold] :
        alloc = [i \in DOMAIN hs |->
                   [leg |-> batch[b].residualLegs[i], holding |-> hs[i]]]
  BY DEF Allocations
<1>4. DOMAIN alloc = 1 .. Len(batch[b].residualLegs)
  BY <1>3
<1>5. \A i \in 1 .. Len(batch[b].residualLegs) : batch[b].residualLegs[i] \in Transfer
  BY <1>2
<1>6. DOMAIN batch[b].residualLegs = 1 .. Len(batch[b].residualLegs)
  BY <1>2
<1> QED
  BY <1>3, <1>4, <1>5, <1>6

\* Holding h after its owner changes to f and its lock is gone.
Given(h, f) == [owner |-> f, currency |-> holding[h].currency,
                amount |-> holding[h].amount, locked |-> FALSE]

\* What Swapped does to one slot: a holding that no allocation names keeps
\* everything; a named one keeps its amount and currency, is unlocked, and
\* belongs to the receiver of a leg that names it (Holding.SettleTransfer).
LEMMA SwappedSlot ==
  ASSUME TypeOK, NEW b \in Batch, batch[b] # None, NEW alloc \in Allocations(b),
         Funded(batch[b], alloc), NEW h \in Hold
  PROVE  \/ /\ \A i \in DOMAIN alloc : alloc[i].holding # h
            /\ Swapped(alloc)[h] = holding[h]
         \/ \E i \in DOMAIN alloc :
              /\ alloc[i].holding = h
              /\ Locked(h) /\ holding[h] \in HoldingRec
              /\ holding[h].owner = alloc[i].leg.sender
              /\ holding[h].amount = alloc[i].leg.amount
              /\ Swapped(alloc)[h] = Given(h, alloc[i].leg.receiver)
<1>1. CASE \E i \in DOMAIN alloc : alloc[i].holding = h
  <2> DEFINE i == CHOOSE i \in DOMAIN alloc : alloc[i].holding = h
  <2>1. i \in DOMAIN alloc /\ alloc[i].holding = h
    BY <1>1
  <2>2. Locked(h) /\ holding[h].owner = alloc[i].leg.sender
          /\ holding[h].amount = alloc[i].leg.amount
    BY <2>1 DEF Funded
  <2>3. holding[h] \in HoldingRec
    BY <2>2 DEF Locked, TypeOK
  <2>4. Swapped(alloc)[h] = [holding[h] EXCEPT !.owner = alloc[i].leg.receiver,
                                               !.locked = FALSE]
    BY <1>1 DEF Swapped
  <2>5. Swapped(alloc)[h] = Given(h, alloc[i].leg.receiver)
    BY <2>3, <2>4 DEF Given, HoldingRec
  <2> HIDE DEF i
  <2> QED
    BY <2>1, <2>2, <2>3, <2>5
<1>2. CASE ~ \E i \in DOMAIN alloc : alloc[i].holding = h
  BY <1>2 DEF Swapped
<1> QED
  BY <1>1, <1>2

LEMMA SwappedType ==
  ASSUME TypeOK, NEW b \in Batch, batch[b] # None, NEW alloc \in Allocations(b),
         Funded(batch[b], alloc)
  PROVE  Swapped(alloc) \in [Hold -> HoldingRec \union {None}]
<1>1. ASSUME NEW h \in Hold PROVE Swapped(alloc)[h] \in HoldingRec \union {None}
  <2>1. CASE Swapped(alloc)[h] = holding[h]
    BY <2>1 DEF TypeOK
  <2>2. ASSUME NEW i \in DOMAIN alloc, holding[h] \in HoldingRec,
               Swapped(alloc)[h] = Given(h, alloc[i].leg.receiver)
        PROVE  Swapped(alloc)[h] \in HoldingRec
    <3>1. alloc[i].leg.receiver \in Firm
      BY AllocationShape DEF Transfer
    <3> QED
      BY <2>2, <3>1 DEF HoldingRec, Given
  <2> QED
    BY <2>1, <2>2, SwappedSlot, Zenon
<1>2. Swapped(alloc) = [h \in Hold |-> Swapped(alloc)[h]]
  BY DEF Swapped
<1> QED
  BY <1>1, <1>2

-----------------------------------------------------------------------------
(* Type correctness.                                                       *)

\* Building adds one well-typed pending batch and changes nothing else.
LEMMA BuildShape ==
  ASSUME Build
  PROVE  \E b \in Batch, r \in BatchRec :
           /\ batch[b] = None /\ r.status = "pending"
           /\ batch' = [batch EXCEPT ![b] = r]
           /\ UNCHANGED <<now, obl, holding, ref>>
<1> PICK b \in Batch, S \in SUBSET {o \in Obl : obl[o] # "none"}, legs \in Plans,
         credit \in SUBSET Known(CreditLimit),
         aggregate \in SUBSET Known(AggregateLimit),
         floors \in SUBSET Known(LiquidityFloor), rates \in SUBSET Known(FXRate) :
      CreateBatch(b, S, legs, credit, aggregate, floors, rates, Snapshot(floors))
  BY DEF Build
<1> DEFINE rec ==
      [obligations |-> S, residualLegs |-> legs, parties |-> Involved(S),
       creditLimits |-> credit, aggregateLimits |-> aggregate,
       liquidityFloors |-> floors, fxRates |-> rates, balanceFacts |-> Snapshot(floors),
       status |-> "pending"]
<1>1. Involved(S) \subseteq Firm
  BY ObligationTerms DEF Involved, OblRec
<1>2. rec \in BatchRec
  BY <1>1 DEF BatchRec, BalanceFacts, Known, CreateBatch
<1>3. /\ batch[b] = None /\ batch' = [batch EXCEPT ![b] = rec]
      /\ UNCHANGED <<now, obl, holding, ref>>
  BY DEF CreateBatch
<1>4. rec.status = "pending"
  OBVIOUS
<1> HIDE DEF rec
<1> QED
  BY <1>2, <1>3, <1>4

LEMMA SettlementKeepsType ==
  ASSUME TypeOK, NEW b \in Batch, batch[b] # None, NEW alloc \in Allocations(b),
         SettleNetting(b, alloc)
  PROVE  TypeOK'
<1>1. obl' \in [Obl -> {"none", "live", "withdrawn", "netted"}]
  BY DEF SettleNetting, TypeOK
<1>2. holding' \in [Hold -> HoldingRec \union {None}]
  BY SwappedType DEF SettleNetting
<1>3. batch' \in [Batch -> BatchRec \union {None}]
  <2>1. batch[b] \in BatchRec
    BY DEF TypeOK
  <2>2. [batch[b] EXCEPT !.status = "settled"] \in BatchRec
    BY <2>1 DEF BatchRec
  <2> QED
    BY <2>2 DEF SettleNetting, TypeOK
<1> QED
  BY <1>1, <1>2, <1>3 DEF SettleNetting, TypeOK

LEMMA TypeInductive == TypeOK /\ [Next]_vars => TypeOK'
<1> SUFFICES ASSUME TypeOK, [Next]_vars PROVE TypeOK'
  OBVIOUS
<1>1. CASE Tick
  BY <1>1, TimeBound DEF Tick, TypeOK
<1>2. CASE Contracts
  BY <1>2 DEF Contracts, Accrue, Discharge, Agree, Archive, TypeOK
<1>3. CASE Cash
  <2>1. ASSUME NEW h \in Hold, NEW t \in IssueTerms, Issue(h, t) PROVE TypeOK'
    <3>1. t \in IssueRec
      BY CashTerms
    <3> QED
      BY <2>1, <3>1 DEF Issue, TypeOK, IssueRec, HoldingRec
  <2>2. ASSUME NEW h \in Hold, Free(h) \/ Locked(h),
               NEW f \in Firm, NEW l \in BOOLEAN,
               \/ holding' = [holding EXCEPT ![h].locked = l]
               \/ holding' = [holding EXCEPT ![h].owner = f],
               UNCHANGED <<now, obl, ref, batch>>
        PROVE  TypeOK'
    <3>1. holding[h] \in HoldingRec
      BY <2>2 DEF Free, Locked, TypeOK
    <3>2. /\ [holding[h] EXCEPT !.locked = l] \in HoldingRec
          /\ [holding[h] EXCEPT !.owner = f] \in HoldingRec
      BY <3>1 DEF HoldingRec
    <3>3. holding' \in [Hold -> HoldingRec \union {None}]
      BY <2>2, <3>2 DEF TypeOK
    <3> QED
      BY <2>2, <3>3 DEF TypeOK
  <2>3. ASSUME NEW h \in Hold, NEW f \in Firm, HoldingTransfer(h, f) PROVE TypeOK'
    BY <2>2, <2>3 DEF HoldingTransfer
  <2>4. ASSUME NEW h \in Hold, LockHolding(h) \/ Release(h) PROVE TypeOK'
    <3>1. holding[h] \in HoldingRec
      BY <2>4 DEF Free, Locked, LockHolding, Release, TypeOK
    <3>2. holding[h].owner \in Firm
      BY <3>1 DEF HoldingRec
    <3> QED
      BY <2>2, <2>4, <3>2 DEF LockHolding, Release
  <2> QED
    BY <1>3, <2>1, <2>3, <2>4 DEF Cash
<1>4. CASE Build
  BY <1>4, BuildShape DEF TypeOK
<1>5. CASE SettleInKind
  BY <1>5, SettlementKeepsType DEF SettleInKind
<1>6. CASE \E b \in Batch : CancelNetting(b)
  BY <1>6 DEF CancelNetting, TypeOK
<1>7. CASE UNCHANGED vars
  BY <1>7 DEF vars, TypeOK
<1> QED
  BY <1>1, <1>2, <1>3, <1>4, <1>5, <1>6, <1>7 DEF Next

\* Every ledger state is well typed: in particular no holding has amount zero
\* (the ensure clause of Holding) however it was split, locked or swapped.
THEOREM TypeCorrect == Spec => []TypeOK
<1>1. Init => TypeOK
  BY TimeBound DEF Init, TypeOK
<1> QED
  BY <1>1, TypeInductive, PTL DEF Spec

-----------------------------------------------------------------------------
(* No obligation is netted twice.  The invariant is inductive once types   *)
(* are known: a settlement demands that its obligations are live, and a    *)
(* live obligation is in no settled batch.                                 *)

LEMMA SettlementNetsOnce ==
  ASSUME TypeOK, NettedExactlyOnce, NEW b \in Batch, batch[b] # None,
         NEW alloc \in Allocations(b), SettleNetting(b, alloc)
  PROVE  NettedExactlyOnce'
<1> DEFINE S == batch[b].obligations
<1>1. /\ batch[b] \in BatchRec
      /\ batch[b].status = "pending"
      /\ \A o \in S : obl[o] = "live"
      /\ obl' = [o \in Obl |-> IF o \in S THEN "netted" ELSE obl[o]]
      /\ batch' = [batch EXCEPT ![b].status = "settled"]
  BY DEF SettleNetting, Dischargeable, TypeOK
<1>2. b \notin SettledBatches
  BY <1>1 DEF SettledBatches
<1>3. [batch[b] EXCEPT !.status = "settled"] \in BatchRec
  BY <1>1 DEF BatchRec
<1>4. batch'[b] # None /\ batch'[b].status = "settled" /\ batch'[b].obligations = S
  BY <1>1, <1>3, NoneIsNoRecord DEF TypeOK, BatchRec
<1>5. \A d \in Batch : d # b => batch'[d] = batch[d]
  BY <1>1 DEF TypeOK
<1>6. SettledBatches' = SettledBatches \union {b}
  BY <1>4, <1>5 DEF SettledBatches
<1>7. \A d \in SettledBatches : batch'[d].obligations = batch[d].obligations
  BY <1>2, <1>5 DEF SettledBatches
<1>8. \A d \in SettledBatches, o \in S : o \in Obl => o \notin batch[d].obligations
  BY <1>1 DEF NettedExactlyOnce
<1>9. \A o \in Obl : obl'[o] = "netted" <=> o \in S \/ obl[o] = "netted"
  BY <1>1
<1> HIDE DEF S
<1>10. \A o \in Obl :
         obl'[o] = "netted" <=> \E d \in SettledBatches' : o \in batch'[d].obligations
  BY <1>4, <1>6, <1>7, <1>9 DEF NettedExactlyOnce
<1>11. \A o \in Obl, d1, d2 \in SettledBatches' :
         o \in batch'[d1].obligations /\ o \in batch'[d2].obligations => d1 = d2
  BY <1>4, <1>6, <1>7, <1>8 DEF NettedExactlyOnce
<1> QED
  BY <1>10, <1>11 DEF NettedExactlyOnce

\* A step that neither settles nor un-settles a batch, and neither nets nor
\* un-nets an obligation, keeps the invariant.
LEMMA OthersNetNothing ==
  ASSUME NettedExactlyOnce, SettledBatches' = SettledBatches,
         \A d \in SettledBatches : batch'[d].obligations = batch[d].obligations,
         \A o \in Obl : obl'[o] = "netted" <=> obl[o] = "netted"
  PROVE  NettedExactlyOnce'
  BY DEF NettedExactlyOnce

LEMMA NettedInductive ==
  TypeOK /\ NettedExactlyOnce /\ [Next]_vars => NettedExactlyOnce'
<1> SUFFICES ASSUME TypeOK, NettedExactlyOnce, [Next]_vars PROVE NettedExactlyOnce'
  OBVIOUS
<1>1. CASE SettleInKind
  BY <1>1, SettlementNetsOnce DEF SettleInKind
<1>2. CASE Build \/ \E b \in Batch : CancelNetting(b)
  <2>1. PICK b \in Batch, r \in BatchRec \union {None} :
          /\ batch[b] = None \/ batch[b].status = "pending"
          /\ r = None \/ r.status = "pending"
          /\ batch' = [batch EXCEPT ![b] = r] /\ obl' = obl
    <3>1. ASSUME NEW b \in Batch, CancelNetting(b)
          PROVE  /\ batch[b].status = "pending"
                 /\ batch' = [batch EXCEPT ![b] = None] /\ obl' = obl
      BY <3>1 DEF CancelNetting
    <3> QED
      BY <1>2, <3>1, BuildShape
  <2>2. b \notin SettledBatches /\ SettledBatches' = SettledBatches
    BY <2>1 DEF SettledBatches, TypeOK
  <2>3. \A d \in SettledBatches : batch'[d] = batch[d]
    BY <2>1, <2>2 DEF SettledBatches, TypeOK
  <2> QED
    BY <2>1, <2>2, <2>3, OthersNetNothing
<1>3. CASE Contracts
  <2>1. SettledBatches' = SettledBatches /\ batch' = batch
    BY <1>3 DEF Contracts, Accrue, Discharge, Agree, Archive, SettledBatches
  <2>2. \A o \in Obl : obl'[o] = "netted" <=> obl[o] = "netted"
    BY <1>3 DEF Contracts, Accrue, Discharge, Dischargeable, Agree, Archive, TypeOK
  <2> QED
    BY <2>1, <2>2, OthersNetNothing
<1>4. CASE Tick \/ Cash \/ UNCHANGED vars
  <2>1. batch' = batch /\ obl' = obl
    BY <1>4 DEF Tick, Cash, Issue, LockHolding, Release, HoldingTransfer, vars
  <2> QED
    BY <2>1, OthersNetNothing DEF SettledBatches
<1> QED
  BY <1>1, <1>2, <1>3, <1>4 DEF Next

\* Over any book and any number of competing batches, an obligation is netted
\* exactly when one settled batch names it, and by no other batch ever.
THEOREM NettedOnce == Spec => []NettedExactlyOnce
<1>1. Init => NettedExactlyOnce
  BY DEF Init, NettedExactlyOnce, SettledBatches
<1> QED
  BY <1>1, NettedInductive, TypeCorrect, PTL DEF Spec

-----------------------------------------------------------------------------
(* What a step may do to cash.                                             *)

\* Per step and per slot: the holding is untouched; or it was free or absent;
\* or it keeps its owner; or a settlement gave it to the receiver of a leg
\* whose sender owned it and whose amount it is.
Kept(h) ==
  /\ holding'[h] # None
  /\ holding'[h].amount = holding[h].amount
  /\ holding'[h].currency = holding[h].currency

SettledTo(h) ==
  \E b \in Batch :
    /\ Settles(b)
    /\ \E i \in DOMAIN batch[b].residualLegs :
         /\ batch[b].residualLegs[i].sender = holding[h].owner
         /\ batch[b].residualLegs[i].receiver = holding'[h].owner
         /\ batch[b].residualLegs[i].amount = holding[h].amount

SlotStep(h) ==
  \/ holding'[h] = holding[h]
  \/ holding[h] = None
  \/ Kept(h) /\ (Free(h) \/ holding'[h].owner = holding[h].owner \/ SettledTo(h))

LEMMA SettlementSlotStep ==
  ASSUME TypeOK, NEW b \in Batch, batch[b] # None, NEW alloc \in Allocations(b),
         SettleNetting(b, alloc), NEW h \in Hold
  PROVE  SlotStep(h)
<1>1. /\ holding' = Swapped(alloc) /\ Funded(batch[b], alloc)
      /\ batch[b] \in BatchRec /\ batch[b].status = "pending"
      /\ batch' = [batch EXCEPT ![b].status = "settled"]
  BY DEF SettleNetting, TypeOK
<1>2. Settles(b)
  <2>1. [batch[b] EXCEPT !.status = "settled"] \in BatchRec
    BY <1>1 DEF BatchRec
  <2>2. batch'[b] # None /\ batch'[b].status = "settled"
    BY <1>1, <2>1, NoneIsNoRecord DEF TypeOK, BatchRec
  <2> QED
    BY <1>1, <2>2 DEF Settles, SettledBatches
<1>3. ASSUME NEW i \in DOMAIN alloc, Locked(h), holding[h] \in HoldingRec,
             holding[h].owner = alloc[i].leg.sender,
             holding[h].amount = alloc[i].leg.amount,
             holding'[h] = Given(h, alloc[i].leg.receiver)
      PROVE  SlotStep(h)
  <2>1. /\ i \in DOMAIN batch[b].residualLegs
        /\ alloc[i].leg = batch[b].residualLegs[i] /\ alloc[i].leg \in Transfer
    BY AllocationShape
  <2>2. Given(h, alloc[i].leg.receiver) \in HoldingRec
    BY <1>3, <2>1 DEF Given, HoldingRec, Transfer
  <2>3. Kept(h) /\ holding'[h].owner = alloc[i].leg.receiver
    <3>1. holding'[h] # None
      BY <1>3, <2>2, NoneIsNoRecord
    <3>2. /\ holding'[h].owner = alloc[i].leg.receiver
          /\ holding'[h].currency = holding[h].currency
          /\ holding'[h].amount = holding[h].amount
      BY <1>3 DEF Given
    <3> QED
      BY <3>1, <3>2 DEF Kept
  <2>4. SettledTo(h)
    BY <1>2, <1>3, <2>1, <2>3 DEF SettledTo
  <2> QED
    BY <2>3, <2>4 DEF SlotStep
<1> QED
  BY <1>1, <1>3, SwappedSlot, Zenon DEF SlotStep

LEMMA EverySlotStep ==
  ASSUME TypeOK, [Next]_vars, NEW h \in Hold
  PROVE  SlotStep(h)
<1>1. CASE SettleInKind
  BY <1>1, SettlementSlotStep DEF SettleInKind
<1>2. CASE Cash
  <2>1. PICK g \in Hold :
          \/ \E t \in IssueTerms : Issue(g, t)
          \/ LockHolding(g) \/ Release(g)
          \/ \E f \in Firm : HoldingTransfer(g, f)
    BY <1>2 DEF Cash
  <2>2. CASE g # h
    BY <2>1, <2>2 DEF Issue, LockHolding, Release, HoldingTransfer, SlotStep, TypeOK
  <2>3. CASE g = h /\ \E t \in IssueTerms : Issue(g, t)
    BY <2>3 DEF Issue, SlotStep
  <2>4. ASSUME g = h, NEW l \in BOOLEAN, holding[h] # None,
               holding' = [holding EXCEPT ![h].locked = l]
        PROVE  SlotStep(h)
    <3>1. holding[h] \in HoldingRec
      BY <2>4 DEF TypeOK
    <3>2. [holding[h] EXCEPT !.locked = l] \in HoldingRec
      BY <3>1 DEF HoldingRec
    <3>3. holding'[h] = [holding[h] EXCEPT !.locked = l]
      BY <2>4 DEF TypeOK
    <3>4. Kept(h) /\ holding'[h].owner = holding[h].owner
      BY <3>1, <3>2, <3>3, NoneIsNoRecord DEF Kept, HoldingRec
    <3> QED
      BY <3>4 DEF SlotStep
  <2>5. ASSUME g = h, NEW f \in Firm, HoldingTransfer(h, f) PROVE SlotStep(h)
    <3>1. holding[h] \in HoldingRec /\ Free(h)
      BY <2>5 DEF HoldingTransfer, Free, TypeOK
    <3>2. [holding[h] EXCEPT !.owner = f] \in HoldingRec
      BY <3>1 DEF HoldingRec
    <3>3. holding'[h] = [holding[h] EXCEPT !.owner = f]
      BY <2>5 DEF HoldingTransfer, TypeOK
    <3>4. Kept(h)
      BY <3>1, <3>2, <3>3, NoneIsNoRecord DEF Kept, HoldingRec
    <3> QED
      BY <3>1, <3>4 DEF SlotStep
  <2> QED
    BY <2>1, <2>2, <2>3, <2>4, <2>5 DEF LockHolding, Release, Free, Locked
<1>3. CASE Tick \/ Contracts \/ Build \/ (\E b \in Batch : CancelNetting(b))
             \/ UNCHANGED vars
  <2>1. holding' = holding
    BY <1>3, BuildShape DEF Tick, Contracts, Accrue, Discharge, Agree, Archive,
       CancelNetting, vars
  <2> QED
    BY <2>1 DEF SlotStep
<1> QED
  BY <1>1, <1>2, <1>3 DEF Next

\* For every book, set of plans and number of holdings, cash in circulation is
\* exactly what was issued: settlement, locking and transfer never alter it.
THEOREM CashConserved == Spec => CashNeverAltered
<1>1. ASSUME TypeOK, [Next]_vars, NEW h \in Hold, holding[h] # None
      PROVE  Kept(h)
  BY <1>1, EverySlotStep DEF SlotStep, Kept
<1>2. TypeOK /\ [Next]_vars =>
        [\A h \in Hold : holding[h] # None => Kept(h)]_vars
  BY <1>1
<1> QED
  BY <1>2, TypeCorrect, PTL DEF Spec, CashNeverAltered, Kept

\* Locked cash never changes hands except by a settlement, along a leg of the
\* settled batch, from that leg's sender to its receiver and for its amount.
THEOREM LockedCashIsSafe == Spec => LockedCashMovesOnlyByLeg
<1> DEFINE Step ==
      \A h \in Hold, f, g \in Firm :
        Locked(h) /\ Moved(h, f, g) =>
          \E b \in Batch :
            /\ Settles(b)
            /\ \E i \in DOMAIN batch[b].residualLegs :
                 LET leg == batch[b].residualLegs[i] IN
                 leg.sender = f /\ leg.receiver = g /\ leg.amount = holding[h].amount
<1>1. ASSUME TypeOK, [Next]_vars PROVE Step
  <2>1. ASSUME NEW h \in Hold, NEW f \in Firm, NEW g \in Firm,
               Locked(h), Moved(h, f, g)
        PROVE  SettledTo(h) /\ holding[h].owner = f /\ holding'[h].owner = g
    BY <1>1, <2>1, EverySlotStep DEF SlotStep, Locked, Free, Moved
  <2> QED
    BY <2>1 DEF SettledTo
<1>2. TypeOK /\ [Next]_vars => [Step]_vars
  BY <1>1
<1> HIDE DEF Step
<1>3. Spec => [][Step]_vars
  BY <1>2, TypeCorrect, PTL DEF Spec
<1> QED
  BY <1>3 DEF Step, LockedCashMovesOnlyByLeg

-----------------------------------------------------------------------------
(* Families of transfers: what flows through a firm, and what balances.    *)

LEMMA TotalPart ==
  ASSUME NEW D, IsFiniteSet(D), NEW T, NEW W \in SUBSET D,
         \A i \in W : T[i].amount \in Int
  PROVE  TotalOf(T, W)
           = SumFunctionOnSet([i \in D |-> IF i \in W THEN T[i].amount ELSE 0], D)
<1> DEFINE f == [i \in W |-> T[i].amount]
           g == [i \in D |-> IF i \in W THEN f[i] ELSE 0]
<1>1. \A i \in W : f[i] \in Int
  OBVIOUS
<1>2. SumFunctionOnSet(f, W) = SumFunctionOnSet(g, D)
  <2> HIDE DEF f
  <2> QED
    BY <1>1, SumPart
<1>3. g = [i \in D |-> IF i \in W THEN T[i].amount ELSE 0]
  OBVIOUS
<1> QED
  BY <1>2, <1>3 DEF TotalOf

\* What each transfer of T brings to f in c, and takes from it.
InFlow(T, f, c) ==
  [i \in DOMAIN T |-> IF T[i].currency = c /\ T[i].receiver = f THEN T[i].amount ELSE 0]
OutFlow(T, f, c) ==
  [i \in DOMAIN T |-> IF T[i].currency = c /\ T[i].sender = f THEN T[i].amount ELSE 0]

LEMMA FlowNat ==
  ASSUME NEW D, NEW T \in [D -> Transfer], NEW f, NEW c
  PROVE  \A i \in D : InFlow(T, f, c)[i] \in Nat /\ OutFlow(T, f, c)[i] \in Nat
  BY DEF InFlow, OutFlow, Transfer, Amount

LEMMA NetIsFlow ==
  ASSUME NEW D, IsFiniteSet(D), NEW T \in [D -> Transfer], NEW f, NEW c
  PROVE  /\ OutOf(T, f, c) = SumFunctionOnSet(OutFlow(T, f, c), D)
         /\ NetOfCur(T, f, c) = SumFunctionOnSet(InFlow(T, f, c), D) - OutOf(T, f, c)
         /\ OutOf(T, f, c) \in Nat /\ SumFunctionOnSet(InFlow(T, f, c), D) \in Nat
<1> DEFINE I == {i \in In(T, c) : T[i].receiver = f}
           O == {i \in In(T, c) : T[i].sender = f}
<1>1. I \in SUBSET D /\ O \in SUBSET D /\ \A i \in D : T[i].amount \in Int
  BY DEF In, Transfer, Amount
<1>2. TotalOf(T, I) = SumFunctionOnSet(InFlow(T, f, c), D)
  <2>1. InFlow(T, f, c) = [i \in D |-> IF i \in I THEN T[i].amount ELSE 0]
    BY DEF InFlow, In
  <2> HIDE DEF I
  <2>2. \A i \in I : T[i].amount \in Int
    BY <1>1
  <2> QED
    BY <1>1, <2>1, <2>2, TotalPart
<1>3. TotalOf(T, O) = SumFunctionOnSet(OutFlow(T, f, c), D)
  <2>1. OutFlow(T, f, c) = [i \in D |-> IF i \in O THEN T[i].amount ELSE 0]
    BY DEF OutFlow, In
  <2> HIDE DEF O
  <2>2. \A i \in O : T[i].amount \in Int
    BY <1>1
  <2> QED
    BY <1>1, <2>1, <2>2, TotalPart
<1>4. /\ SumFunctionOnSet(InFlow(T, f, c), D) \in Nat
      /\ SumFunctionOnSet(OutFlow(T, f, c), D) \in Nat
  <2>1. \A i \in D : InFlow(T, f, c)[i] \in Nat
    BY FlowNat
  <2>2. \A i \in D : OutFlow(T, f, c)[i] \in Nat
    BY FlowNat
  <2> QED
    BY <2>1, <2>2, SumNat
<1> QED
  BY <1>2, <1>3, <1>4 DEF NetOfCur, OutOf

\* What leaves all firms in a currency, and what reaches them, is its gross.
LEMMA GrossFlows ==
  ASSUME NEW D, IsFiniteSet(D), NEW T \in [D -> Transfer], NEW c
  PROVE  /\ GrossOf(T, c) \in Nat
         /\ SumFunctionOnSet([f \in Firm |-> OutOf(T, f, c)], Firm) = GrossOf(T, c)
         /\ SumFunctionOnSet(
              [f \in Firm |-> SumFunctionOnSet(InFlow(T, f, c), D)], Firm) = GrossOf(T, c)
<1> DEFINE a == [i \in D |-> IF i \in In(T, c) THEN T[i].amount ELSE 0]
           to == [i \in D |-> T[i].receiver]
           by == [i \in D |-> T[i].sender]
<1>1. In(T, c) \in SUBSET D /\ \A i \in In(T, c) : T[i].amount \in Int
  BY DEF In, Transfer, Amount
<1>2. GrossOf(T, c) = SumFunctionOnSet(a, D) /\ GrossOf(T, c) \in Nat
  <2>1. GrossOf(T, c) = SumFunctionOnSet(a, D)
    BY <1>1, TotalPart DEF GrossOf
  <2>2. \A i \in D : a[i] \in Nat
    BY DEF In, Transfer, Amount
  <2> HIDE DEF a
  <2> QED
    BY <2>1, <2>2, SumNat
<1>3. \A i \in D : a[i] \in Int /\ to[i] \in Firm
  BY <1>1 DEF Transfer, Amount
<1>a. \A i \in D : a[i] \in Int /\ by[i] \in Firm
  BY <1>1 DEF Transfer, Amount
<1>4. IsFiniteSet(Firm)
  BY FiniteLedger
<1> DEFINE I == [f \in Firm |-> InFlow(T, f, c)]
           O == [f \in Firm |-> OutFlow(T, f, c)]
           in == [f \in Firm |-> SumFunctionOnSet(InFlow(T, f, c), D)]
           out == [f \in Firm |-> OutOf(T, f, c)]
<1>5. /\ \A f \in Firm, i \in D : I[f][i] = (IF to[i] = f THEN a[i] ELSE 0)
      /\ \A f \in Firm, i \in D : O[f][i] = (IF by[i] = f THEN a[i] ELSE 0)
  BY DEF InFlow, OutFlow, In
<1>6. /\ \A f \in Firm : in[f] = SumFunctionOnSet(I[f], D)
      /\ \A f \in Firm : out[f] = SumFunctionOnSet(O[f], D)
  BY NetIsFlow
<1> HIDE DEF a, to, by, I, O, in, out
<1>7. SumFunctionOnSet(in, Firm) = SumFunctionOnSet(a, D)
  <2>1. \A f \in Firm, i \in D : I[f][i] = (IF to[i] = f THEN a[i] ELSE 0)
    BY <1>5
  <2>2. \A f \in Firm : in[f] = SumFunctionOnSet(I[f], D)
    BY <1>6
  <2> QED
    BY <1>3, <1>4, <2>1, <2>2, SumByKey
<1>8. SumFunctionOnSet(out, Firm) = SumFunctionOnSet(a, D)
  <2>1. \A f \in Firm, i \in D : O[f][i] = (IF by[i] = f THEN a[i] ELSE 0)
    BY <1>5
  <2>2. \A f \in Firm : out[f] = SumFunctionOnSet(O[f], D)
    BY <1>6
  <2> QED
    BY <1>a, <1>4, <2>1, <2>2, SumByKey
<1> QED
  BY <1>2, <1>7, <1>8 DEF in, out

\* The nets of all firms cancel, per currency and by value.
LEMMA NetsCancel ==
  ASSUME NEW D, IsFiniteSet(D), NEW T \in [D -> Transfer], NEW c
  PROVE  /\ \A f \in Firm : NetOfCur(T, f, c) \in Int
         /\ SumFunctionOnSet([f \in Firm |-> NetOfCur(T, f, c)], Firm) = 0
<1> DEFINE in == [f \in Firm |-> SumFunctionOnSet(InFlow(T, f, c), D)]
           out == [f \in Firm |-> OutOf(T, f, c)]
           net == [f \in Firm |-> NetOfCur(T, f, c)]
<1>1. \A f \in Firm : in[f] \in Nat /\ out[f] \in Nat /\ net[f] = in[f] - out[f]
  BY NetIsFlow
<1>2. \A f \in Firm : in[f] \in Int /\ out[f] \in Int /\ net[f] = in[f] - out[f]
  BY <1>1
<1>3. SumFunctionOnSet(in, Firm) = GrossOf(T, c) /\ SumFunctionOnSet(out, Firm) = GrossOf(T, c)
  BY GrossFlows
<1>4. \A f \in Firm : net[f] \in Int
  <2> HIDE DEF in, out, net
  <2> QED
    BY <1>2
<1>5. SumFunctionOnSet(net, Firm) = SumFunctionOnSet(in, Firm) - SumFunctionOnSet(out, Firm)
  <2> HIDE DEF in, out, net
  <2> QED
    BY <1>2, SumMinus, FiniteLedger
<1>6. SumFunctionOnSet(in, Firm) \in Int
  <2> HIDE DEF in
  <2> QED
    BY <1>1, SumNat, FiniteLedger
<1>7. SumFunctionOnSet(net, Firm) = 0
  <2> HIDE DEF in, out, net
  <2> QED
    BY <1>3, <1>5, <1>6
<1> QED
  BY <1>4, <1>7

LEMMA FactorNat ==
  ASSUME NEW R \in SUBSET FXRate, NEW c \in Currency
  PROVE  FxFactor(R, c) \in Nat
<1>1. \A r \in R : RateTerms[r].rate \in Nat \ {0}
  BY FXTerms DEF Amount
<1>2. Unit \in Nat
  BY FXTerms DEF Amount
<1>3. CASE c = Valuation
  BY <1>2, <1>3 DEF FxFactor
<1>4. CASE c # Valuation /\ DirectRates(R, c) # {}
  <2> DEFINE r == CHOOSE r \in DirectRates(R, c) : TRUE
  <2>1. r \in R
    BY <1>4 DEF DirectRates
  <2>2. FxFactor(R, c) = RateTerms[r].rate
    BY <1>4 DEF FxFactor
  <2> HIDE DEF r
  <2> QED
    BY <1>1, <2>1, <2>2
<1>5. CASE c # Valuation /\ DirectRates(R, c) = {} /\ InverseRates(R, c) # {}
  <2> DEFINE r == CHOOSE r \in InverseRates(R, c) : TRUE
  <2>1. r \in R
    BY <1>5 DEF InverseRates
  <2>2. FxFactor(R, c) = (Unit * Unit) \div RateTerms[r].rate
    BY <1>5 DEF FxFactor
  <2> HIDE DEF r
  <2>3. RateTerms[r].rate \in Nat \ {0} /\ Unit * Unit \in Nat
    BY <1>1, <1>2, <2>1
  <2> QED
    BY <2>2, <2>3
<1>6. CASE c # Valuation /\ DirectRates(R, c) = {} /\ InverseRates(R, c) = {}
  BY <1>6 DEF FxFactor
<1> QED
  BY <1>3, <1>4, <1>5, <1>6

LEMMA ValuesCancel ==
  ASSUME NEW D, IsFiniteSet(D), NEW T \in [D -> Transfer], NEW R \in SUBSET FXRate
  PROVE  /\ \A f \in Firm : ValueNet(T, R, f) \in Int
         /\ SumFunctionOnSet([f \in Firm |-> ValueNet(T, R, f)], Firm) = 0
<1> DEFINE t == [f \in Firm |-> [c \in Currency |-> NetOfCur(T, f, c) * FxFactor(R, c)]]
           row == [f \in Firm |-> SumFunctionOnSet([c \in Currency |-> t[f][c]], Currency)]
           col == [c \in Currency |-> SumFunctionOnSet([f \in Firm |-> t[f][c]], Firm)]
<1>1. ASSUME NEW f \in Firm, NEW c \in Currency
      PROVE  t[f][c] = NetOfCur(T, f, c) * FxFactor(R, c) /\ t[f][c] \in Int
  <2>1. NetOfCur(T, f, c) \in Int /\ FxFactor(R, c) \in Nat
    BY NetsCancel, FactorNat
  <2> QED
    BY <2>1
<1>2. \A f \in Firm : ValueNet(T, R, f) = row[f]
  BY DEF ValueNet
<1>3. ASSUME NEW c \in Currency PROVE col[c] = 0
  <2> DEFINE n == [f \in Firm |-> NetOfCur(T, f, c)]
             g == [f \in Firm |-> t[f][c]]
  <2>1. (\A f \in Firm : n[f] \in Int) /\ SumFunctionOnSet(n, Firm) = 0
    BY NetsCancel
  <2>2. FxFactor(R, c) \in Int
    BY FactorNat
  <2>3. \A f \in Firm : g[f] = n[f] * FxFactor(R, c)
    BY <1>1
  <2>4. col[c] = SumFunctionOnSet(g, Firm)
    OBVIOUS
  <2> HIDE DEF n, g
  <2>5. \A f \in Firm : n[f] \in Int /\ g[f] = FxFactor(R, c) * n[f]
    BY <2>1, <2>2, <2>3
  <2>6. SumFunctionOnSet(g, Firm) = FxFactor(R, c) * SumFunctionOnSet(n, Firm)
    BY <2>2, <2>5, SumScale, FiniteLedger
  <2> HIDE DEF col
  <2> QED
    BY <2>1, <2>2, <2>4, <2>6
<1>4. \A f \in Firm : row[f] \in Int
  <2> SUFFICES ASSUME NEW f \in Firm
               PROVE  SumFunctionOnSet([c \in Currency |-> t[f][c]], Currency) \in Int
    OBVIOUS
  <2>1. \A d \in Currency : [c \in Currency |-> t[f][c]][d] \in Int
    BY <1>1
  <2> QED
    BY <2>1, SumInt, FiniteLedger
<1>5. SumFunctionOnSet(row, Firm) = SumFunctionOnSet(col, Currency)
  <2>1. \A f \in Firm, c \in Currency : t[f][c] \in Int
    BY <1>1
  <2> HIDE DEF t
  <2> QED
    BY <2>1, SumSwap, FiniteLedger
<1>6. SumFunctionOnSet(col, Currency) = 0
  <2> HIDE DEF col
  <2> QED
    BY <1>3, SumZero, FiniteLedger
<1>7. row = [f \in Firm |-> ValueNet(T, R, f)]
  BY <1>2
<1> HIDE DEF row, col
<1> QED
  BY <1>2, <1>4, <1>5, <1>6, <1>7

-----------------------------------------------------------------------------
(* The book that a batch closes.                                           *)

LEMMA FactsShape ==
  ASSUME NEW S \in SUBSET Obl
  PROVE  /\ Facts(S) \in [S -> Transfer] /\ IsFiniteSet(S)
         /\ \A o \in S : /\ Facts(S)[o].sender = OblTerms[o].payer
                         /\ Facts(S)[o].receiver = OblTerms[o].payee
                         /\ Facts(S)[o].amount = OblTerms[o].amount
                         /\ Facts(S)[o].currency = OblTerms[o].currency
<1>1. IsFiniteSet(S)
  BY FiniteLedger, FS_Subset
<1>2. \A o \in S : OblTerms[o] \in OblRec
  BY ObligationTerms
<1> QED
  BY <1>1, <1>2 DEF Facts, Transfer, OblRec

\* The rail's module has the sum under a name of its own.
LEMMA RailSum ==
  ASSUME NEW f, NEW S
  PROVE  Rail!SumFunctionOnSet(f, S) = SumFunctionOnSet(f, S)
  BY SumIsFold DEF Rail!SumFunctionOnSet, Rail!FoldFunctionOnSet, Rail!MapThenFoldSet,
     IsSum, Pick

\* The rail's view of the book is the batch's: what it owes, and to whom.
LEMMA FactsOnRail ==
  ASSUME NEW S \in SUBSET Obl, NEW f, NEW c
  PROVE  /\ In(Facts(S), c) = Rail!In(S, c)
         /\ NetOfCur(Facts(S), f, c) = Rail!NetOf(S, f, c)
         /\ GrossOf(Facts(S), c) = Rail!Owed(Rail!In(S, c))
<1>1. ASSUME NEW W \in SUBSET S PROVE TotalOf(Facts(S), W) = Rail!Owed(W)
  <2>1. [o \in W |-> Facts(S)[o].amount] = [o \in W |-> OblTerms[o].amount]
    BY FactsShape
  <2> QED
    BY <2>1, RailSum DEF TotalOf, Rail!Owed
<1>2. In(Facts(S), c) = Rail!In(S, c)
  BY FactsShape DEF In, Rail!In
<1>3. Rail!In(S, c) \in SUBSET S
  BY DEF Rail!In
<1>4. GrossOf(Facts(S), c) = Rail!Owed(Rail!In(S, c))
  BY <1>1, <1>2, <1>3 DEF GrossOf
<1> DEFINE I == {o \in Rail!In(S, c) : OblTerms[o].payee = f}
           O == {o \in Rail!In(S, c) : OblTerms[o].payer = f}
<1>5. /\ {i \in In(Facts(S), c) : Facts(S)[i].receiver = f} = I
      /\ {i \in In(Facts(S), c) : Facts(S)[i].sender = f} = O
  BY <1>2, <1>3, FactsShape
<1>6. I \in SUBSET S /\ O \in SUBSET S
  BY <1>3
<1>7. NetOfCur(Facts(S), f, c) = TotalOf(Facts(S), I) - TotalOf(Facts(S), O)
  BY <1>5 DEF NetOfCur, OutOf
<1>8. Rail!NetOf(S, f, c) = Rail!Owed(I) - Rail!Owed(O)
  BY DEF Rail!NetOf
<1>9. TotalOf(Facts(S), I) = Rail!Owed(I) /\ TotalOf(Facts(S), O) = Rail!Owed(O)
  BY <1>1, <1>6, Zenon
<1> QED
  BY <1>2, <1>4, <1>7, <1>8, <1>9

\* A firm that no transfer reaches gains nothing, in any currency or by value.
LEMMA NoInflow ==
  ASSUME NEW D, IsFiniteSet(D), NEW T \in [D -> Transfer], NEW f \in Firm,
         \A i \in D : T[i].receiver # f
  PROVE  /\ \A c \in Currency : NetOfCur(T, f, c) \in Int /\ NetOfCur(T, f, c) <= 0
         /\ \A R \in SUBSET FXRate : ValueNet(T, R, f) \in Int /\ ValueNet(T, R, f) <= 0
<1>1. ASSUME NEW c \in Currency PROVE NetOfCur(T, f, c) \in Int /\ NetOfCur(T, f, c) <= 0
  <2>1. SumFunctionOnSet(InFlow(T, f, c), D) = 0
    <3>1. \A i \in D : InFlow(T, f, c)[i] = 0
      BY DEF InFlow
    <3> QED
      BY <3>1, SumZero
  <2>2. /\ NetOfCur(T, f, c) = SumFunctionOnSet(InFlow(T, f, c), D) - OutOf(T, f, c)
        /\ OutOf(T, f, c) \in Nat
    BY NetIsFlow
  <2> QED
    BY <2>1, <2>2
<1>2. ASSUME NEW R \in SUBSET FXRate
      PROVE  ValueNet(T, R, f) \in Int /\ ValueNet(T, R, f) <= 0
  <2> DEFINE v == [c \in Currency |-> NetOfCur(T, f, c) * FxFactor(R, c)]
             z == [c \in Currency |-> 0]
  <2>1. ASSUME NEW c \in Currency PROVE v[c] \in Int /\ z[c] \in Int /\ v[c] <= z[c]
    <3>1. \A m \in Int, n \in Nat : m <= 0 => m * n \in Int /\ m * n <= 0
      OBVIOUS
    <3> QED
      BY <1>1, <3>1, FactorNat
  <2>2. SumFunctionOnSet(z, Currency) = 0
    <3>1. \A c \in Currency : z[c] = 0
      OBVIOUS
    <3> HIDE DEF z
    <3> QED
      BY <3>1, SumZero, FiniteLedger
  <2>3. ValueNet(T, R, f) = SumFunctionOnSet(v, Currency)
    BY DEF ValueNet
  <2> HIDE DEF v, z
  <2>4. SumFunctionOnSet(v, Currency) <= SumFunctionOnSet(z, Currency)
    BY <2>1, SumAtMost, FiniteLedger
  <2>5. SumFunctionOnSet(v, Currency) \in Int
    <3>1. \A c \in Currency : v[c] \in Int
      BY <2>1
    <3> QED
      BY <3>1, SumInt, FiniteLedger
  <2> QED
    BY <2>2, <2>3, <2>4, <2>5
<1> QED
  BY <1>1, <1>2

\* A firm that a book does not name is owed and owes nothing.
LEMMA OutsidersUntouched ==
  ASSUME NEW S \in SUBSET Obl, NEW f \in Firm, f \notin Involved(S)
  PROVE  /\ \A c \in Currency : NetOfCur(Facts(S), f, c) = 0
         /\ \A R \in SUBSET FXRate : ValueNet(Facts(S), R, f) = 0
<1>1. \A o \in S : Facts(S)[o].receiver # f /\ Facts(S)[o].sender # f
  BY FactsShape DEF Involved
<1>2. ASSUME NEW c \in Currency PROVE NetOfCur(Facts(S), f, c) = 0
  <2>1. \A o \in S : InFlow(Facts(S), f, c)[o] = 0
    BY <1>1, FactsShape DEF InFlow
  <2>2. \A o \in S : OutFlow(Facts(S), f, c)[o] = 0
    BY <1>1, FactsShape DEF OutFlow
  <2>3. IsFiniteSet(S)
    BY FactsShape
  <2>4. /\ SumFunctionOnSet(InFlow(Facts(S), f, c), S) = 0
        /\ SumFunctionOnSet(OutFlow(Facts(S), f, c), S) = 0
    BY <2>1, <2>2, <2>3, SumZero
  <2>5. /\ OutOf(Facts(S), f, c) = SumFunctionOnSet(OutFlow(Facts(S), f, c), S)
        /\ NetOfCur(Facts(S), f, c)
             = SumFunctionOnSet(InFlow(Facts(S), f, c), S) - OutOf(Facts(S), f, c)
    BY FactsShape, NetIsFlow
  <2> QED
    BY <2>4, <2>5
<1>3. ASSUME NEW R \in SUBSET FXRate PROVE ValueNet(Facts(S), R, f) = 0
  <2> DEFINE v == [c \in Currency |-> NetOfCur(Facts(S), f, c) * FxFactor(R, c)]
  <2>1. \A c \in Currency : v[c] = 0
    BY <1>2, FactorNat
  <2>2. ValueNet(Facts(S), R, f) = SumFunctionOnSet(v, Currency)
    BY DEF ValueNet
  <2> HIDE DEF v
  <2> QED
    BY <2>1, <2>2, SumZero, FiniteLedger
<1> QED
  BY <1>2, <1>3

\* The plan conserves every firm's net (Conserves), not only the parties': no
\* leg reaches a firm outside the book, and the nets of all firms cancel, so
\* what a leg took from an outsider would be missing from the parties' sum.
LEMMA ConservesForAll ==
  ASSUME NEW S \in SUBSET Obl, NEW D, IsFiniteSet(D), NEW T \in [D -> Transfer],
         \A i \in D : T[i].receiver \in Involved(S)
  PROVE  /\ \A c \in Currency :
              (\A p \in Involved(S) : NetOfCur(Facts(S), p, c) = NetOfCur(T, p, c))
                => \A f \in Firm : NetOfCur(Facts(S), f, c) = NetOfCur(T, f, c)
         /\ \A R \in SUBSET FXRate :
              (\A p \in Involved(S) : ValueNet(Facts(S), R, p) = ValueNet(T, R, p))
                => \A f \in Firm : ValueNet(Facts(S), R, f) = ValueNet(T, R, f)
<1>1. Facts(S) \in [S -> Transfer] /\ IsFiniteSet(S)
  BY FactsShape
<1>2. \A f \in Firm : f \notin Involved(S) => \A i \in D : T[i].receiver # f
  OBVIOUS
<1>3. ASSUME NEW c \in Currency,
             \A p \in Involved(S) : NetOfCur(Facts(S), p, c) = NetOfCur(T, p, c)
      PROVE  \A f \in Firm : NetOfCur(Facts(S), f, c) = NetOfCur(T, f, c)
  <2> DEFINE t == [f \in Firm |-> NetOfCur(T, f, c)]
             g == [f \in Firm |-> NetOfCur(Facts(S), f, c)]
  <2>1. (\A f \in Firm : t[f] \in Int) /\ SumFunctionOnSet(t, Firm) = 0
    BY NetsCancel
  <2>2. (\A f \in Firm : g[f] \in Int) /\ SumFunctionOnSet(g, Firm) = 0
    BY <1>1, NetsCancel
  <2>3. ASSUME NEW f \in Firm PROVE t[f] <= g[f]
    <3>1. CASE f \in Involved(S)
      BY <1>3, <2>1, <3>1
    <3>2. CASE f \notin Involved(S)
      <4>1. g[f] = 0
        BY <3>2, OutsidersUntouched
      <4>2. t[f] <= 0
        BY <1>2, <3>2, NoInflow
      <4> QED
        BY <4>1, <4>2
    <3> QED
      BY <3>1, <3>2
  <2> HIDE DEF t, g
  <2>4. \A f \in Firm : t[f] \in Int /\ g[f] \in Int /\ t[f] <= g[f]
    BY <2>1, <2>2, <2>3
  <2>5. \A f \in Firm : t[f] = g[f]
    BY <2>1, <2>2, <2>4, SumTight, FiniteLedger
  <2> QED
    BY <2>5 DEF t, g
<1>4. ASSUME NEW R \in SUBSET FXRate,
             \A p \in Involved(S) : ValueNet(Facts(S), R, p) = ValueNet(T, R, p)
      PROVE  \A f \in Firm : ValueNet(Facts(S), R, f) = ValueNet(T, R, f)
  <2> DEFINE t == [f \in Firm |-> ValueNet(T, R, f)]
             g == [f \in Firm |-> ValueNet(Facts(S), R, f)]
  <2>1. (\A f \in Firm : t[f] \in Int) /\ SumFunctionOnSet(t, Firm) = 0
    BY ValuesCancel
  <2>2. (\A f \in Firm : g[f] \in Int) /\ SumFunctionOnSet(g, Firm) = 0
    BY <1>1, ValuesCancel
  <2>3. ASSUME NEW f \in Firm PROVE t[f] <= g[f]
    <3>1. CASE f \in Involved(S)
      BY <1>4, <2>1, <3>1
    <3>2. CASE f \notin Involved(S)
      <4>1. g[f] = 0
        BY <3>2, OutsidersUntouched
      <4>2. t[f] <= 0
        BY <1>2, <3>2, NoInflow
      <4> QED
        BY <4>1, <4>2
    <3> QED
      BY <3>1, <3>2
  <2> HIDE DEF t, g
  <2>4. \A f \in Firm : t[f] \in Int /\ g[f] \in Int /\ t[f] <= g[f]
    BY <2>1, <2>2, <2>3
  <2>5. \A f \in Firm : t[f] = g[f]
    BY <2>1, <2>2, <2>4, SumTight, FiniteLedger
  <2> QED
    BY <2>5 DEF t, g
<1> QED
  BY <1>3, <1>4

-----------------------------------------------------------------------------
(* Cash.                                                                   *)

Ledgers == [Hold -> HoldingRec \union {None}]

\* What each slot of ledger H is worth to f in c, and what f holds in all.
Val(H, f, c) ==
  [h \in Hold |->
    IF H[h] # None /\ H[h].owner = f /\ H[h].currency = c THEN H[h].amount ELSE 0]
CashIn(H, f, c) == SumFunctionOnSet(Val(H, f, c), Hold)

LEMMA ValNat ==
  ASSUME NEW H \in Ledgers, NEW f, NEW c
  PROVE  /\ \A h \in Hold : Val(H, f, c)[h] \in Nat /\ Val(H, f, c)[h] \in Int
         /\ CashIn(H, f, c) \in Nat
<1>1. \A h \in Hold : Val(H, f, c)[h] \in Nat
  BY DEF Val, Ledgers, HoldingRec, Amount
<1> QED
  BY <1>1, SumNat, FiniteLedger DEF CashIn

LEMMA CashIsSum ==
  ASSUME NEW H \in Ledgers, NEW f, NEW c
  PROVE  TotalOf(H, {h \in Hold : H[h] # None /\ H[h].owner = f /\ H[h].currency = c})
           = CashIn(H, f, c)
<1> DEFINE W == {h \in Hold : H[h] # None /\ H[h].owner = f /\ H[h].currency = c}
<1>1. W \in SUBSET Hold /\ \A h \in W : H[h].amount \in Int
  BY DEF Ledgers, HoldingRec, Amount
<1>2. Val(H, f, c) = [h \in Hold |-> IF h \in W THEN H[h].amount ELSE 0]
  BY DEF Val
<1> HIDE DEF W
<1>3. TotalOf(H, W) = CashIn(H, f, c)
  BY <1>1, <1>2, TotalPart, FiniteLedger DEF CashIn
<1> QED
  BY <1>3 DEF W

LEMMA CashNow ==
  ASSUME TypeOK, TypeOK', NEW f, NEW c
  PROVE  /\ CashOf(f, c) = CashIn(holding, f, c)
         /\ CashOf(f, c)' = CashIn(holding', f, c)
<1>1. holding \in Ledgers /\ holding' \in Ledgers
  BY DEF TypeOK, Ledgers
<1> QED
  BY <1>1, CashIsSum DEF CashOf, Held

\* Ledger H2 is H after each transfer T[i] took the holding m[i] from its
\* sender to its receiver, whole and in its currency.
Pays(H, H2, T, m) ==
  /\ m \in [DOMAIN T -> Hold]
  /\ \A i, j \in DOMAIN T : i # j => m[i] # m[j]
  /\ \A i \in DOMAIN T :
       /\ H[m[i]] # None /\ H2[m[i]] # None
       /\ H[m[i]].owner = T[i].sender /\ H2[m[i]].owner = T[i].receiver
       /\ H[m[i]].amount = T[i].amount /\ H2[m[i]].amount = T[i].amount
       /\ H[m[i]].currency = T[i].currency /\ H2[m[i]].currency = T[i].currency
  /\ \A h \in Hold : (\A i \in DOMAIN T : m[i] # h) => H2[h] = H[h]

\* Such a settlement changes every balance by the net of its transfers.
LEMMA CashSettled ==
  ASSUME NEW H \in Ledgers, NEW H2 \in Ledgers, NEW D, IsFiniteSet(D),
         NEW T \in [D -> Transfer], NEW m, Pays(H, H2, T, m), NEW f, NEW c
  PROVE  CashIn(H2, f, c) - CashIn(H, f, c) = NetOfCur(T, f, c)
<1> DEFINE u == Val(H, f, c)
           v == Val(H2, f, c)
           d == [h \in Hold |-> v[h] - u[h]]
           e == [i \in D |-> d[m[i]]]
<1>1. \A h \in Hold : u[h] \in Int /\ v[h] \in Int
  BY ValNat
<1>2. \A h \in Hold : d[h] \in Int /\ d[h] = v[h] - u[h]
  BY <1>1
<1>3. \A h \in Hold : (\A i \in D : m[i] # h) => d[h] = 0
  <2> SUFFICES ASSUME NEW h \in Hold, \A i \in D : m[i] # h PROVE d[h] = 0
    OBVIOUS
  <2>1. v[h] = u[h]
    BY DEF Pays, Val
  <2> HIDE DEF u, v
  <2> QED
    BY <1>1, <2>1
<1>4. ASSUME NEW i \in D PROVE e[i] = InFlow(T, f, c)[i] - OutFlow(T, f, c)[i]
  <2>1. m[i] \in Hold
    BY DEF Pays
  <2>2. v[m[i]] = InFlow(T, f, c)[i]
    BY <2>1 DEF Pays, Val, InFlow
  <2>3. u[m[i]] = OutFlow(T, f, c)[i]
    BY <2>1 DEF Pays, Val, OutFlow
  <2> HIDE DEF u, v
  <2> QED
    BY <2>1, <2>2, <2>3
<1>5. m \in [D -> Hold] /\ \A i, j \in D : i # j => m[i] # m[j]
  BY DEF Pays
<1>6. \A i \in D : /\ InFlow(T, f, c)[i] \in Int /\ OutFlow(T, f, c)[i] \in Int
                   /\ e[i] = InFlow(T, f, c)[i] - OutFlow(T, f, c)[i]
  BY <1>4, FlowNat
<1> HIDE DEF u, v
<1>7. SumFunctionOnSet(d, Hold) = SumFunctionOnSet(v, Hold) - SumFunctionOnSet(u, Hold)
  <2>1. \A h \in Hold : v[h] \in Int /\ u[h] \in Int /\ d[h] = v[h] - u[h]
    BY <1>1, <1>2
  <2> HIDE DEF d
  <2> QED
    BY <2>1, SumMinus, FiniteLedger
<1>8. SumFunctionOnSet(d, Hold) = SumFunctionOnSet(e, D)
  <2>1. \A h \in Hold : d[h] \in Int
    BY <1>2
  <2> HIDE DEF d
  <2> QED
    BY <1>3, <1>5, <2>1, SumAlong, FiniteLedger
<1> HIDE DEF d, e
<1>9. SumFunctionOnSet(e, D)
        = SumFunctionOnSet(InFlow(T, f, c), D) - SumFunctionOnSet(OutFlow(T, f, c), D)
  BY <1>6, SumMinus
<1>10. NetOfCur(T, f, c)
        = SumFunctionOnSet(InFlow(T, f, c), D) - SumFunctionOnSet(OutFlow(T, f, c), D)
  BY NetIsFlow
<1> QED
  BY <1>7, <1>8, <1>9, <1>10 DEF u, v, CashIn

\* The legs of T by which f pays g in c.
Legs(T, f, g, c) == {i \in In(T, c) : T[i].sender = f /\ T[i].receiver = g}

\* What then leaves f for g in c is no more than the transfers from f to g.
LEMMA PaidAlongLegs ==
  ASSUME NEW H \in Ledgers, NEW H2 \in Ledgers, NEW D, IsFiniteSet(D),
         NEW T \in [D -> Transfer], NEW m, Pays(H, H2, T, m), NEW f, NEW g, NEW c,
         NEW M \in SUBSET Hold,
         \A h \in M : /\ H[h] # None /\ H[h].owner = f /\ H[h].currency = c
                      /\ H2[h].owner = g /\ f # g
  PROVE  /\ TotalOf(H, M) <= TotalOf(T, Legs(T, f, g, c))
         /\ TotalOf(H, M) \in Int
<1> DEFINE W == Legs(T, f, g, c)
           v == [h \in Hold |-> IF h \in M THEN H[h].amount ELSE 0]
           w == [i \in D |-> IF i \in W THEN T[i].amount ELSE 0]
           e == [i \in D |-> v[m[i]]]
<1>1. /\ \A h \in M : H[h].amount \in Nat
      /\ \A i \in D : T[i].amount \in Nat
      /\ W \in SUBSET D
  BY DEF Ledgers, HoldingRec, Transfer, Amount, In, Legs
<1>2. TotalOf(H, M) = SumFunctionOnSet(v, Hold)
  <2>1. \A h \in M : H[h].amount \in Int
    BY <1>1
  <2> QED
    BY <2>1, TotalPart, FiniteLedger
<1>3. TotalOf(T, W) = SumFunctionOnSet(w, D)
  <2>1. \A i \in W : T[i].amount \in Int
    BY <1>1
  <2> HIDE DEF W
  <2> QED
    BY <1>1, <2>1, TotalPart
<1>4. \A h \in Hold : (\A i \in D : m[i] # h) => v[h] = 0
  <2> SUFFICES ASSUME NEW h \in M, \A i \in D : m[i] # h PROVE FALSE
    OBVIOUS
  <2>1. H2[h] = H[h]
    BY DEF Pays
  <2> QED
    BY <2>1
<1>5. ASSUME NEW i \in D PROVE e[i] \in Int /\ w[i] \in Int /\ e[i] <= w[i]
  <2>1. m[i] \in Hold
    BY DEF Pays
  <2>2. CASE m[i] \in M
    <3>1. /\ T[i].sender = f /\ T[i].receiver = g /\ T[i].currency = c
          /\ H[m[i]].amount = T[i].amount
      BY <2>1, <2>2 DEF Pays
    <3>2. i \in W
      BY <3>1 DEF In, Legs
    <3>3. e[i] = T[i].amount /\ w[i] = T[i].amount
      BY <2>1, <2>2, <3>1, <3>2
    <3> QED
      BY <1>1, <3>3
  <2>3. CASE m[i] \notin M
    <3>1. e[i] = 0 /\ w[i] \in Nat
      BY <1>1, <2>1, <2>3
    <3> QED
      BY <3>1
  <2> QED
    BY <2>2, <2>3
<1>6. m \in [D -> Hold] /\ \A i, j \in D : i # j => m[i] # m[j]
  BY DEF Pays
<1>7. SumFunctionOnSet(v, Hold) = SumFunctionOnSet(e, D)
  <2>1. \A h \in Hold : v[h] \in Int
    BY <1>1
  <2> HIDE DEF v
  <2> QED
    BY <1>4, <1>6, <2>1, SumAlong, FiniteLedger
<1> HIDE DEF v, w, e, W
<1>8. SumFunctionOnSet(e, D) <= SumFunctionOnSet(w, D) /\ SumFunctionOnSet(e, D) \in Int
  <2>1. \A i \in D : e[i] \in Int
    BY <1>5
  <2> QED
    BY <1>5, <2>1, SumAtMost, SumInt
<1>9. TotalOf(H, M) <= TotalOf(T, W) /\ TotalOf(H, M) \in Int
  BY <1>2, <1>3, <1>7, <1>8
<1> QED
  BY <1>9 DEF W

\* SettleNetting, taken with an allocation in kind, is such a settlement of
\* the legs of its batch (Funded, InKind, SettleTransfer).
LEMMA SettlementPays ==
  ASSUME TypeOK, NEW b \in Batch, batch[b] # None, NEW alloc \in Allocations(b),
         InKind(alloc), SettleNetting(b, alloc)
  PROVE  /\ IsFiniteSet(DOMAIN batch[b].residualLegs)
         /\ batch[b].residualLegs \in [DOMAIN batch[b].residualLegs -> Transfer]
         /\ Pays(holding, holding', batch[b].residualLegs,
                 [i \in DOMAIN batch[b].residualLegs |-> alloc[i].holding])
<1> DEFINE T == batch[b].residualLegs
           D == DOMAIN T
           m == [i \in D |-> alloc[i].holding]
<1>1. T \in Seq(Transfer)
  BY PlanTerms DEF TypeOK, BatchRec
<1>2. D = 1 .. Len(T) /\ Len(T) \in Nat /\ T \in [D -> Transfer]
  BY <1>1
<1>3. IsFiniteSet(D)
  BY <1>2, FS_Interval
<1>4. /\ DOMAIN alloc = D
      /\ \A i \in D : alloc[i].holding \in Hold /\ alloc[i].leg = T[i]
  BY AllocationShape
<1>5. Funded(batch[b], alloc) /\ holding' = Swapped(alloc)
  BY DEF SettleNetting
<1>6. \A i, j \in D : i # j => m[i] # m[j]
  BY <1>4, <1>5 DEF Funded
<1>7. ASSUME NEW i \in D
      PROVE  /\ holding[m[i]] # None /\ holding'[m[i]] # None
             /\ holding[m[i]].owner = T[i].sender
             /\ holding'[m[i]].owner = T[i].receiver
             /\ holding[m[i]].amount = T[i].amount
             /\ holding'[m[i]].amount = T[i].amount
             /\ holding[m[i]].currency = T[i].currency
             /\ holding'[m[i]].currency = T[i].currency
  <2>1. m[i] \in Hold /\ m[i] = alloc[i].holding
    BY <1>4
  <2>2. /\ holding[m[i]].currency = T[i].currency /\ holding[m[i]].amount = T[i].amount
        /\ holding[m[i]].owner = T[i].sender /\ holding[m[i]] # None
    BY <1>4, <1>5, <2>1 DEF InKind, Funded
  <2>3. holding'[m[i]] = Given(m[i], T[i].receiver)
    <3>1. PICK j \in D : /\ alloc[j].holding = m[i]
                         /\ holding'[m[i]] = Given(m[i], alloc[j].leg.receiver)
      BY <1>4, <1>5, <2>1, SwappedSlot
    <3>2. j = i
      BY <1>6, <2>1, <3>1
    <3> QED
      BY <1>4, <3>1, <3>2
  <2>4. holding'[m[i]] # None
    BY <2>1, <2>2, SettlementSlotStep DEF SlotStep, Kept
  <2> QED
    BY <2>2, <2>3, <2>4 DEF Given
<1>8. ASSUME NEW h \in Hold, \A i \in D : m[i] # h PROVE holding'[h] = holding[h]
  <2>1. \A i \in D : alloc[i].holding # h
    BY <1>8
  <2> QED
    BY <1>4, <1>5, <2>1, SwappedSlot
<1>9. m \in [D -> Hold]
  BY <1>4
<1>10. Pays(holding, holding', T, m)
  <2> HIDE DEF m, T
  <2> QED
    BY <1>6, <1>7, <1>8, <1>9 DEF Pays
<1> QED
  BY <1>2, <1>3, <1>10

-----------------------------------------------------------------------------
(* The rail's steps.                                                       *)

\* A batch names a book and, as its parties, exactly the firms of that book.
Named(b) ==
  batch[b] # None =>
    /\ batch[b].obligations # {} /\ batch[b].obligations \in SUBSET Obl
    /\ batch[b].parties = Involved(batch[b].obligations)

NamedInv == \A b \in Batch : Named(b)

LEMMA NamedInductive == TypeOK /\ NamedInv /\ [Next]_vars => NamedInv'
<1> SUFFICES ASSUME TypeOK, NamedInv, [Next]_vars, NEW b \in Batch PROVE Named(b)'
  BY DEF NamedInv
<1>0. Named(b)
  BY DEF NamedInv
<1>1. CASE Build
  <2> PICK d \in Batch, S \in SUBSET {o \in Obl : obl[o] # "none"}, legs \in Plans,
           credit \in SUBSET Known(CreditLimit),
           aggregate \in SUBSET Known(AggregateLimit),
           floors \in SUBSET Known(LiquidityFloor), rates \in SUBSET Known(FXRate) :
        CreateBatch(d, S, legs, credit, aggregate, floors, rates, Snapshot(floors))
    BY <1>1 DEF Build
  <2> DEFINE rec ==
        [obligations |-> S, residualLegs |-> legs, parties |-> Involved(S),
         creditLimits |-> credit, aggregateLimits |-> aggregate,
         liquidityFloors |-> floors, fxRates |-> rates, balanceFacts |-> Snapshot(floors),
         status |-> "pending"]
  <2>1. S # {} /\ batch' = [batch EXCEPT ![d] = rec]
    BY DEF CreateBatch
  <2>2. rec.obligations = S /\ rec.parties = Involved(S)
    OBVIOUS
  <2> HIDE DEF rec
  <2>3. CASE d = b
    <3>1. batch'[b] = rec
      BY <2>1, <2>3 DEF TypeOK
    <3> QED
      BY <2>1, <2>2, <3>1 DEF Named
  <2>4. CASE d # b
    <3>1. batch'[b] = batch[b]
      BY <2>1, <2>4 DEF TypeOK
    <3> QED
      BY <1>0, <3>1 DEF Named
  <2> QED
    BY <2>3, <2>4
<1>2. CASE SettleInKind
  <2>1. PICK d \in Batch : /\ batch[d] # None
                           /\ batch' = [batch EXCEPT ![d].status = "settled"]
    BY <1>2 DEF SettleInKind, SettleNetting
  <2>2. CASE d = b
    <3>1. batch[b] \in BatchRec
      BY <2>1, <2>2 DEF TypeOK
    <3>2. batch'[b] = [batch[b] EXCEPT !.status = "settled"]
      BY <2>1, <2>2 DEF TypeOK
    <3>3. /\ batch'[b].obligations = batch[b].obligations
          /\ batch'[b].parties = batch[b].parties
      BY <3>1, <3>2 DEF BatchRec
    <3> QED
      BY <1>0, <2>1, <2>2, <3>3 DEF Named
  <2>3. CASE d # b
    <3>1. batch'[b] = batch[b]
      BY <2>1, <2>3 DEF TypeOK
    <3> QED
      BY <1>0, <3>1 DEF Named
  <2> QED
    BY <2>2, <2>3
<1>3. CASE \E d \in Batch : CancelNetting(d)
  <2>1. PICK d \in Batch : batch' = [batch EXCEPT ![d] = None]
    BY <1>3 DEF CancelNetting
  <2>2. batch'[b] = None \/ batch'[b] = batch[b]
    BY <2>1 DEF TypeOK
  <2> QED
    BY <1>0, <2>2 DEF Named
<1>4. CASE Tick \/ Contracts \/ Cash \/ UNCHANGED vars
  <2>1. batch' = batch
    BY <1>4 DEF Tick, Contracts, Accrue, Discharge, Agree, Archive, Cash, Issue,
       LockHolding, Release, HoldingTransfer, vars
  <2> QED
    BY <1>0, <2>1 DEF Named
<1> QED
  BY <1>1, <1>2, <1>3, <1>4 DEF Next

LEMMA NamedAlways == Spec => []NamedInv
<1>1. Init => NamedInv
  BY DEF Init, NamedInv, Named
<1> QED
  BY <1>1, NamedInductive, TypeCorrect, PTL DEF Spec

LEMMA RailGain ==
  ASSUME TypeOK, TypeOK', NEW f \in Firm, NEW c \in Currency
  PROVE  Rail!Gain(f, c) = CashIn(holding', f, c) - CashIn(holding, f, c)
<1>1. Rail!Gain(f, c) = CashOf(f, c)' - CashOf(f, c)
  BY DEF Rail!Gain
<1> QED
  BY <1>1, CashNow

\* Steps that leave every holding alone are steps of the book, or none.
LEMMA BookStep ==
  ASSUME TypeOK, Tick \/ Contracts \/ Build \/ (\E b \in Batch : CancelNetting(b))
                   \/ UNCHANGED vars
  PROVE  [Rail!ANext]_(Rail!avars)
<1> DEFINE Bal == [f \in Firm |-> [c \in Currency |-> CashOf(f, c)]]
<1>1. holding' = holding => Bal' = Bal
  BY DEF CashOf, TotalOf, Held
<1>2. CASE Tick
  <2>1. Rail!Tick
    BY <1>1, <1>2 DEF Tick, Rail!Tick
  <2> QED
    BY <2>1 DEF Rail!ANext
<1>3. ASSUME NEW o \in Obl, Accrue(o) PROVE Rail!ANext
  <2>1. obl' = [p \in Obl |-> IF p \in {o} THEN "live" ELSE obl[p]]
    BY <1>3 DEF Accrue, TypeOK
  <2>2. Rail!Accrue(o)
    BY <1>1, <1>3, <2>1 DEF Accrue, Rail!Accrue, Rail!Close
  <2> QED
    BY <2>2 DEF Rail!ANext
<1>4. ASSUME NEW o \in Obl, Discharge(o) PROVE Rail!ANext
  <2>1. obl' = [p \in Obl |-> IF p \in {o} THEN "withdrawn" ELSE obl[p]]
    BY <1>4 DEF Discharge, TypeOK
  <2>2. Rail!Withdraw(o)
    BY <1>1, <1>4, <2>1 DEF Discharge, Dischargeable, Matured, Rail!Withdraw,
       Rail!Due, Rail!Close
  <2> QED
    BY <2>2 DEF Rail!ANext
<1>5. CASE (\E r \in Ref : Agree(r) \/ Archive(r)) \/ Build
             \/ (\E b \in Batch : CancelNetting(b)) \/ UNCHANGED vars
  <2>1. now' = now /\ obl' = obl /\ holding' = holding
    BY <1>5, BuildShape DEF Agree, Archive, CancelNetting, vars
  <2> QED
    BY <1>1, <2>1 DEF Rail!avars
<1> QED
  BY <1>2, <1>3, <1>4, <1>5 DEF Contracts

\* One slot changes: every balance changes by what that slot is worth in it.
LEMMA OneSlot ==
  ASSUME NEW H \in Ledgers, NEW H2 \in Ledgers, NEW h \in Hold,
         \A k \in Hold : k # h => H2[k] = H[k], NEW f, NEW c
  PROVE  /\ CashIn(H2, f, c) - CashIn(H, f, c) = Val(H2, f, c)[h] - Val(H, f, c)[h]
         /\ Val(H, f, c)[h] = IF H[h] # None /\ H[h].owner = f /\ H[h].currency = c
                              THEN H[h].amount ELSE 0
         /\ Val(H2, f, c)[h] = IF H2[h] # None /\ H2[h].owner = f /\ H2[h].currency = c
                               THEN H2[h].amount ELSE 0
<1> DEFINE u == Val(H, f, c)
           v == Val(H2, f, c)
<1>1. \A k \in Hold : u[k] \in Int /\ v[k] \in Int
  BY ValNat
<1>2. \A k \in Hold \ {h} : v[k] = u[k]
  BY DEF Val
<1>3. CashIn(H, f, c) \in Int /\ CashIn(H2, f, c) \in Int
  BY ValNat
<1>4. SumFunctionOnSet(v, Hold) = SumFunctionOnSet(u, Hold) - u[h] + v[h]
  <2>1. IsFiniteSet(Hold)
    BY FiniteLedger
  <2> HIDE DEF u, v
  <2> QED
    BY <1>1, <1>2, <2>1, SumChange, SMTT(60)
<1>5. CashIn(H2, f, c) = CashIn(H, f, c) - u[h] + v[h]
  BY <1>4 DEF CashIn
<1>6. u[h] \in Int /\ v[h] \in Int
  BY <1>1
<1>7. CashIn(H2, f, c) - CashIn(H, f, c) = v[h] - u[h]
  <2> HIDE DEF u, v
  <2> QED
    BY <1>3, <1>5, <1>6
<1> QED
  BY <1>7 DEF Val

LEMMA IssueOnRail ==
  ASSUME TypeOK, TypeOK', NEW h \in Hold, NEW t \in IssueTerms, Issue(h, t)
  PROVE  Rail!ANext
<1> DEFINE r == [owner |-> t.owner, currency |-> t.currency, amount |-> t.amount,
                 locked |-> FALSE]
<1>1. t.owner \in Firm /\ t.currency \in Currency /\ t.amount \in Nat /\ t.amount > 0
  BY CashTerms DEF IssueRec, Amount
<1>2. r \in HoldingRec /\ r.owner = t.owner /\ r.currency = t.currency /\ r.amount = t.amount
  BY CashTerms DEF IssueRec, HoldingRec
<1>3. /\ holding[h] = None /\ holding' = [holding EXCEPT ![h] = r]
      /\ now' = now /\ obl' = obl
  BY DEF Issue
<1>4. holding \in Ledgers /\ holding' \in Ledgers
  BY DEF TypeOK, Ledgers
<1> HIDE DEF r
<1>5. holding'[h] = r /\ r # None /\ \A k \in Hold : k # h => holding'[k] = holding[k]
  BY <1>2, <1>3, NoneIsNoRecord DEF TypeOK
<1>6. ASSUME NEW g \in Firm, NEW d \in Currency
      PROVE  Rail!Gain(g, d) = IF g = t.owner /\ d = t.currency THEN t.amount ELSE 0
  <2>1. Rail!Gain(g, d) = Val(holding', g, d)[h] - Val(holding, g, d)[h]
    BY <1>4, <1>5, OneSlot, RailGain
  <2>2. Val(holding, g, d)[h] = 0
    BY <1>3, <1>4, <1>5, OneSlot
  <2>3. Val(holding', g, d)[h] = IF g = t.owner /\ d = t.currency THEN t.amount ELSE 0
    BY <1>2, <1>4, <1>5, OneSlot
  <2> QED
    BY <1>1, <2>1, <2>2, <2>3
<1>7. Rail!Mint(t.owner, t.currency)
  <2>1. Rail!Gain(t.owner, t.currency) > 0
    BY <1>1, <1>6
  <2>2. \A g \in Firm, d \in Currency :
          <<g, d>> # <<t.owner, t.currency>> => Rail!Gain(g, d) = 0
    BY <1>6
  <2> QED
    BY <1>3, <2>1, <2>2 DEF Rail!Mint
<1> QED
  BY <1>1, <1>7 DEF Rail!ANext

LEMMA TransferOnRail ==
  ASSUME TypeOK, TypeOK', NEW h \in Hold, NEW f \in Firm, HoldingTransfer(h, f)
  PROVE  [Rail!ANext]_(Rail!avars)
<1>1. holding[h] # None /\ holding[h] \in HoldingRec
  BY DEF HoldingTransfer, Free, TypeOK
<1> DEFINE r == [holding[h] EXCEPT !.owner = f]
           p == holding[h].owner
           c == holding[h].currency
           n == holding[h].amount
<1>2. r \in HoldingRec /\ r.owner = f /\ r.currency = c /\ r.amount = n
  BY <1>1 DEF HoldingRec
<1>3. p \in Firm /\ c \in Currency /\ n \in Nat /\ n > 0
  BY <1>1 DEF HoldingRec, Amount
<1>4. holding' = [holding EXCEPT ![h] = r] /\ now' = now /\ obl' = obl
  BY DEF HoldingTransfer
<1>5. holding \in Ledgers /\ holding' \in Ledgers
  BY DEF TypeOK, Ledgers
<1> HIDE DEF r
<1>6. holding'[h] = r /\ r # None /\ \A k \in Hold : k # h => holding'[k] = holding[k]
  BY <1>2, <1>4, NoneIsNoRecord DEF TypeOK
<1>7. ASSUME NEW g \in Firm, NEW d \in Currency
      PROVE  Rail!Gain(g, d) = (IF g = f /\ d = c THEN n ELSE 0)
                                 - (IF g = p /\ d = c THEN n ELSE 0)
  <2>1. Rail!Gain(g, d) = Val(holding', g, d)[h] - Val(holding, g, d)[h]
    BY <1>5, <1>6, OneSlot, RailGain
  <2>2. Val(holding, g, d)[h] = IF g = p /\ d = c THEN n ELSE 0
    BY <1>1, <1>5, <1>6, OneSlot
  <2>3. Val(holding', g, d)[h] = IF g = f /\ d = c THEN n ELSE 0
    BY <1>2, <1>5, <1>6, OneSlot
  <2> QED
    BY <2>1, <2>2, <2>3
<1>8. CASE f = p
  <2>1. \A g \in Firm, d \in Currency : CashOf(g, d)' = CashOf(g, d)
    <3> SUFFICES ASSUME NEW g \in Firm, NEW d \in Currency
                 PROVE  CashOf(g, d)' = CashOf(g, d)
      OBVIOUS
    <3>1. Rail!Gain(g, d) = 0
      BY <1>3, <1>7, <1>8
    <3>2. CashIn(holding', g, d) \in Int /\ CashIn(holding, g, d) \in Int
      BY <1>5, ValNat
    <3>3. CashIn(holding', g, d) = CashIn(holding, g, d)
      BY <3>1, <3>2, RailGain
    <3> QED
      BY <3>3, CashNow
  <2> QED
    BY <1>4, <2>1 DEF Rail!avars
<1>9. CASE f # p
  <2>1. Rail!Gain(p, c) = -n /\ Rail!Gain(f, c) = n
    BY <1>3, <1>7, <1>9
  <2>2. \A g \in Firm, d \in Currency :
          d # c \/ g \notin {p, f} => Rail!Gain(g, d) = 0
    BY <1>3, <1>7
  <2>3. Rail!Move(p, f, c)
    <3>1. Rail!Gain(p, c) < 0 /\ Rail!Gain(p, c) + Rail!Gain(f, c) = 0
      BY <1>3, <2>1
    <3> QED
      BY <1>4, <1>9, <2>2, <3>1 DEF Rail!Move
  <2> QED
    BY <1>3, <2>3 DEF Rail!ANext
<1> QED
  BY <1>8, <1>9

LEMMA LockOnRail ==
  ASSUME TypeOK, TypeOK', NEW h \in Hold, LockHolding(h) \/ Release(h)
  PROVE  UNCHANGED Rail!avars
<1>1. holding[h] # None /\ holding[h] \in HoldingRec /\ now' = now /\ obl' = obl
  BY DEF LockHolding, Release, Free, Locked, TypeOK
<1>2. PICK l \in BOOLEAN : holding' = [holding EXCEPT ![h].locked = l]
  BY DEF LockHolding, Release
<1> DEFINE r == [holding[h] EXCEPT !.locked = l]
<1>3. /\ r \in HoldingRec /\ r.owner = holding[h].owner
      /\ r.currency = holding[h].currency /\ r.amount = holding[h].amount
  BY <1>1 DEF HoldingRec
<1>4. holding' = [holding EXCEPT ![h] = r]
  BY <1>2
<1>5. holding \in Ledgers /\ holding' \in Ledgers
  BY DEF TypeOK, Ledgers
<1> HIDE DEF r
<1>6. holding'[h] = r /\ r # None /\ \A k \in Hold : k # h => holding'[k] = holding[k]
  BY <1>3, <1>4, NoneIsNoRecord DEF TypeOK
<1>7. ASSUME NEW g \in Firm, NEW d \in Currency PROVE CashOf(g, d)' = CashOf(g, d)
  <2>1. \A k \in Hold : Val(holding', g, d)[k] = Val(holding, g, d)[k]
    BY <1>1, <1>3, <1>6 DEF Val
  <2>2. CashIn(holding', g, d) = CashIn(holding, g, d)
    BY <2>1, SumSame, FiniteLedger DEF CashIn
  <2> QED
    BY <2>2, CashNow
<1> QED
  BY <1>1, <1>7 DEF Rail!avars

\* The value of amounts n at the quote of R, where n are the nets of f in T.
LEMMA WorthIsValue ==
  ASSUME NEW T, NEW R, NEW f, NEW q, q.factor = [c \in Currency |-> FxFactor(R, c)],
         NEW n, \A c \in Currency : n[c] = NetOfCur(T, f, c)
  PROVE  Rail!Worth(n, q) = ValueNet(T, R, f)
<1>1. [c \in Currency |-> n[c] * q.factor[c]]
        = [c \in Currency |-> NetOfCur(T, f, c) * FxFactor(R, c)]
  OBVIOUS
<1> QED
  BY <1>1, RailSum DEF Rail!Worth, ValueNet

\* What leaves the firms in c is within the gross of the plan in c, and nothing
\* leaves them in a currency without a leg.
LEMMA OutflowWithinGross ==
  ASSUME NEW D, IsFiniteSet(D), NEW T \in [D -> Transfer], NEW c, NEW l,
         \A f \in Firm : l[f] = IF NetOfCur(T, f, c) < 0 THEN -NetOfCur(T, f, c) ELSE 0
  PROVE  /\ SumFunctionOnSet(l, Firm) \in Int /\ SumFunctionOnSet(l, Firm) <= GrossOf(T, c)
         /\ In(T, c) = {} => SumFunctionOnSet(l, Firm) = 0
<1> DEFINE out == [f \in Firm |-> OutOf(T, f, c)]
<1>1. ASSUME NEW f \in Firm
      PROVE  l[f] \in Int /\ out[f] \in Int /\ l[f] <= out[f]
  <2>1. /\ NetOfCur(T, f, c) = SumFunctionOnSet(InFlow(T, f, c), D) - OutOf(T, f, c)
        /\ OutOf(T, f, c) \in Nat /\ SumFunctionOnSet(InFlow(T, f, c), D) \in Nat
    BY NetIsFlow
  <2>2. l[f] = IF NetOfCur(T, f, c) < 0 THEN -NetOfCur(T, f, c) ELSE 0
    OBVIOUS
  <2>3. out[f] = OutOf(T, f, c)
    OBVIOUS
  <2> HIDE DEF out
  <2>4. \A i, o \in Nat : LET k == i - o IN
          /\ (IF k < 0 THEN -k ELSE 0) \in Int
          /\ (IF k < 0 THEN -k ELSE 0) <= o
    OBVIOUS
  <2> QED
    BY <2>1, <2>2, <2>3, <2>4
<1>2. SumFunctionOnSet(out, Firm) = GrossOf(T, c)
  BY GrossFlows
<1>3. /\ SumFunctionOnSet(l, Firm) <= SumFunctionOnSet(out, Firm)
      /\ SumFunctionOnSet(l, Firm) \in Int
  <2>1. \A f \in Firm : l[f] \in Int
    BY <1>1
  <2> HIDE DEF out
  <2> QED
    BY <1>1, <2>1, SumAtMost, SumInt, FiniteLedger
<1>4. ASSUME In(T, c) = {} PROVE SumFunctionOnSet(l, Firm) = 0
  <2>1. ASSUME NEW f \in Firm PROVE l[f] = 0
    <3>1. /\ \A i \in D : InFlow(T, f, c)[i] = 0
          /\ \A i \in D : OutFlow(T, f, c)[i] = 0
      BY <1>4 DEF InFlow, OutFlow, In
    <3>2. /\ SumFunctionOnSet(InFlow(T, f, c), D) = 0
          /\ SumFunctionOnSet(OutFlow(T, f, c), D) = 0
      BY <3>1, SumZero
    <3>3. NetOfCur(T, f, c) = 0
      BY <3>2, NetIsFlow
    <3> QED
      BY <3>3
  <2> QED
    BY <2>1, SumZero, FiniteLedger
<1> QED
  BY <1>2, <1>3, <1>4

\* A settlement is one netting of its book, in kind or at the agreed rates.
LEMMA SettlementOnRail ==
  ASSUME TypeOK, TypeOK', NamedInv, NEW b \in Batch, batch[b] # None,
         NEW alloc \in Allocations(b), InKind(alloc), SettleNetting(b, alloc)
  PROVE  Rail!ANext
<1> DEFINE B == batch[b]
           S == B.obligations
           T == B.residualLegs
           R == B.fxRates
           D == DOMAIN T
<1>1. /\ S # {} /\ S \in SUBSET Obl /\ B.parties = Involved(S) /\ R \in SUBSET FXRate
  BY DEF NamedInv, Named, TypeOK, BatchRec
<1>2. IsFiniteSet(D) /\ T \in [D -> Transfer]
  BY SettlementPays
<1>3. ASSUME NEW f \in Firm, NEW c \in Currency
      PROVE  Rail!Gain(f, c) = NetOfCur(T, f, c)
  <2>1. holding \in Ledgers /\ holding' \in Ledgers
    BY DEF TypeOK, Ledgers
  <2>2. Pays(holding, holding', T, [i \in D |-> alloc[i].holding])
    BY SettlementPays
  <2>3. CashIn(holding', f, c) - CashIn(holding, f, c) = NetOfCur(T, f, c)
    BY <1>2, <2>1, <2>2, CashSettled
  <2> QED
    BY <2>3, RailGain
<1>4. \A i \in D : T[i].receiver \in Involved(S)
  <2>1. DOMAIN alloc = D /\ \A i \in D : alloc[i].leg = T[i]
    BY AllocationShape
  <2> QED
    BY <1>1, <2>1 DEF SettleNetting, Funded
<1>5. Rail!Due(S)
  BY DEF SettleNetting, Dischargeable, Matured, Rail!Due
<1>6. Rail!Close(S, "netted") /\ now' = now
  BY DEF SettleNetting, Rail!Close
<1>7. Conserves(B) /\ RatesAgreed(B) /\ Efficient(B)
  BY DEF SettleNetting
<1>a. R = {} => \A c \in Currency, p \in B.parties :
                   NetOfCur(Facts(S), p, c) = NetOfCur(T, p, c)
  BY <1>7 DEF Conserves
<1> HIDE DEF B, S, T, R, D
<1>8. CASE R = {}
  <2>1. \A c \in Currency, p \in Involved(S) : NetOfCur(Facts(S), p, c) = NetOfCur(T, p, c)
    BY <1>1, <1>a, <1>8
  <2>2. \A c \in Currency, f \in Firm : NetOfCur(Facts(S), f, c) = NetOfCur(T, f, c)
    BY <1>1, <1>2, <1>4, <2>1, ConservesForAll
  <2>3. ASSUME NEW f \in Firm, NEW c \in Currency
        PROVE  Rail!Gain(f, c) = Rail!NetOf(S, f, c)
    BY <1>1, <1>3, <2>2, FactsOnRail
  <2>4. Rail!Net(S)
    BY <1>1, <1>5, <1>6, <2>3 DEF Rail!Net
  <2> QED
    BY <1>1, <2>4 DEF Rail!ANext
<1>9. CASE R # {}
  <2> DEFINE q == [factor |-> [c \in Currency |-> FxFactor(R, c)],
                   priced |-> {c \in Currency : Valued(R, c)},
                   signers |-> {f \in Firm : \A r \in R : f \in RateTerms[r].parties}]
  <2>1. q \in Quotes
    BY <1>1, <1>9 DEF Quotes
  <2>2. /\ q.factor = [c \in Currency |-> FxFactor(R, c)]
        /\ q.priced = {c \in Currency : Valued(R, c)}
        /\ q.signers = {f \in Firm : \A r \in R : f \in RateTerms[r].parties}
    OBVIOUS
  <2> HIDE DEF q
  <2>3. \A o \in S : {OblTerms[o].payer, OblTerms[o].payee} \subseteq q.signers
    <3> SUFFICES ASSUME NEW o \in S, NEW f \in {OblTerms[o].payer, OblTerms[o].payee}
                 PROVE  f \in q.signers
      OBVIOUS
    <3>1. f \in Involved(S) /\ f \in Firm
      BY <1>1, ObligationTerms DEF Involved, OblRec
    <3>2. \A r \in R : f \in RateTerms[r].parties
      BY <1>1, <1>7, <3>1 DEF RatesAgreed, R
    <3> QED
      BY <2>2, <3>1, <3>2
  <2>4. ASSUME NEW c \in Currency
        PROVE  /\ Rail!Outflow(c) \in Int /\ Rail!Outflow(c) <= GrossOf(T, c)
               /\ In(T, c) = {} => Rail!Outflow(c) = 0
    <3> DEFINE l == [f \in Firm |-> Rail!Loss(f, c)]
    <3>1. Rail!Outflow(c) = SumFunctionOnSet(l, Firm)
      BY RailSum DEF Rail!Outflow
    <3>2. \A f \in Firm :
            l[f] = IF NetOfCur(T, f, c) < 0 THEN -NetOfCur(T, f, c) ELSE 0
      BY <1>3 DEF Rail!Loss
    <3> HIDE DEF l
    <3> QED
      BY <1>2, <3>1, <3>2, OutflowWithinGross
  <2>5. ASSUME NEW c \in Currency, Rail!In(S, c) # {} \/ Rail!Outflow(c) > 0
        PROVE  c \in q.priced
    <3>1. In(Facts(S), c) # {} \/ In(T, c) # {}
      BY <1>1, <2>4, <2>5, FactsOnRail
    <3>2. Valued(R, c)
      BY <1>7, <1>9, <3>1 DEF RatesAgreed, R, S, T
    <3> QED
      BY <2>2, <3>2
  <2>6. ASSUME NEW c \in Currency
        PROVE  Rail!Outflow(c) <= Rail!Owed(Rail!In(S, c))
    <3>1. GrossOf(T, c) <= GrossOf(Facts(S), c)
      BY <1>7 DEF Efficient, S, T
    <3>2. GrossOf(Facts(S), c) = Rail!Owed(Rail!In(S, c))
      BY <1>1, FactsOnRail
    <3>3. GrossOf(T, c) \in Nat /\ GrossOf(Facts(S), c) \in Nat
      BY <1>1, <1>2, FactsShape, GrossFlows
    <3> QED
      BY <2>4, <3>1, <3>2, <3>3
  <2>7. ASSUME NEW f \in Firm
        PROVE  Rail!Worth([c \in Currency |-> Rail!Gain(f, c)], q)
                 = Rail!Worth([c \in Currency |-> Rail!NetOf(S, f, c)], q)
    <3> DEFINE g == [c \in Currency |-> Rail!Gain(f, c)]
               n == [c \in Currency |-> Rail!NetOf(S, f, c)]
    <3>1. \A c \in Currency : g[c] = NetOfCur(T, f, c)
      BY <1>3
    <3>2. \A c \in Currency : n[c] = NetOfCur(Facts(S), f, c)
      BY <1>1, FactsOnRail
    <3>3. \A p \in Involved(S) : ValueNet(Facts(S), R, p) = ValueNet(T, R, p)
      BY <1>1, <1>7, <1>9 DEF Conserves, S, T, R
    <3>4. ValueNet(Facts(S), R, f) = ValueNet(T, R, f)
      BY <1>1, <1>2, <1>4, <3>3, ConservesForAll
    <3> HIDE DEF g, n
    <3>5. Rail!Worth(g, q) = ValueNet(T, R, f)
      BY <2>2, <3>1, WorthIsValue
    <3>6. Rail!Worth(n, q) = ValueNet(Facts(S), R, f)
      BY <2>2, <3>2, WorthIsValue
    <3>7. Rail!Worth(g, q) = Rail!Worth(n, q)
      BY <3>4, <3>5, <3>6
    <3> QED
      BY <3>7 DEF g, n
  <2>8. Rail!NetAcross(S, q)
    BY <1>1, <1>5, <1>6, <2>3, <2>5, <2>6, <2>7 DEF Rail!NetAcross
  <2> QED
    BY <1>1, <2>1, <2>8 DEF Rail!ANext
<1> QED
  BY <1>8, <1>9

\* The netting core implements the rail: for every book, every plan, any rates
\* and any number of competing batches, each transaction of the ledger is one
\* step of the rail or leaves book and balances alone.
THEOREM NettingIsAtomic == Spec => RefinesAtomicNetting
<1>1. Init => Rail!AInit
  <2> SUFFICES ASSUME Init PROVE Rail!AInit
    OBVIOUS
  <2>1. ASSUME NEW f \in Firm, NEW c \in Currency PROVE CashOf(f, c) = 0
    <3>1. Held(f, c) = {}
      BY DEF Init, Held
    <3> QED
      BY <3>1, SumEmpty DEF CashOf, TotalOf
  <2> QED
    BY <2>1 DEF Init, Rail!AInit
<1>2. TypeOK /\ TypeOK' /\ NamedInv /\ [Next]_vars => [Rail!ANext]_(Rail!avars)
  <2> SUFFICES ASSUME TypeOK, TypeOK', NamedInv, [Next]_vars
               PROVE  [Rail!ANext]_(Rail!avars)
    OBVIOUS
  <2>1. CASE Tick \/ Contracts \/ Build \/ (\E b \in Batch : CancelNetting(b))
               \/ UNCHANGED vars
    BY <2>1, BookStep
  <2>2. CASE Cash
    BY <2>2, IssueOnRail, TransferOnRail, LockOnRail DEF Cash
  <2>3. CASE SettleInKind
    BY <2>3, SettlementOnRail DEF SettleInKind
  <2> QED
    BY <2>1, <2>2, <2>3 DEF Next
<1> QED
  BY <1>1, <1>2, TypeCorrect, NamedAlways, PTL
  DEF Spec, RefinesAtomicNetting, Rail!ASpec

-----------------------------------------------------------------------------
(* What a settlement may take.                                             *)

\* A batch becomes settled in a settlement of that batch and in no other step.
LEMMA SettlesIsSettlement ==
  ASSUME TypeOK, [Next]_vars, NEW b \in Batch, Settles(b)
  PROVE  /\ batch[b] # None
         /\ \E alloc \in Allocations(b) : InKind(alloc) /\ SettleNetting(b, alloc)
<1>1. b \notin SettledBatches /\ batch'[b] # None /\ batch'[b].status = "settled"
  BY DEF Settles, SettledBatches
<1>2. batch'[b] # batch[b]
  BY <1>1 DEF SettledBatches
<1>3. CASE SettleInKind
  <2>1. PICK d \in Batch :
          /\ batch[d] # None
          /\ \E alloc \in Allocations(d) : InKind(alloc) /\ SettleNetting(d, alloc)
    BY <1>3 DEF SettleInKind
  <2>2. d = b
    BY <1>2, <2>1 DEF SettleNetting, TypeOK
  <2> QED
    BY <2>1, <2>2
<1>4. CASE Build
  <2>1. PICK d \in Batch, r \in BatchRec :
          r.status = "pending" /\ batch' = [batch EXCEPT ![d] = r]
    BY <1>4, BuildShape
  <2>2. batch'[b] = r
    BY <1>2, <2>1 DEF TypeOK
  <2> QED
    BY <1>1, <2>1, <2>2
<1>5. CASE \E d \in Batch : CancelNetting(d)
  <2>1. PICK d \in Batch : batch' = [batch EXCEPT ![d] = None]
    BY <1>5 DEF CancelNetting
  <2> QED
    BY <1>1, <1>2, <2>1 DEF TypeOK
<1>6. CASE Tick \/ Contracts \/ Cash \/ UNCHANGED vars
  BY <1>2, <1>6 DEF Tick, Contracts, Accrue, Discharge, Agree, Archive, Cash, Issue,
     LockHolding, Release, HoldingTransfer, vars
<1> QED
  BY <1>3, <1>4, <1>5, <1>6 DEF Next

\* The legs from f, sorted by who receives them.
LEMMA OutByReceiver ==
  ASSUME NEW D, IsFiniteSet(D), NEW T \in [D -> Transfer], NEW f, NEW c, NEW s,
         \A g \in Firm : s[g] = TotalOf(T, Legs(T, f, g, c))
  PROVE  /\ SumFunctionOnSet(s, Firm) = OutOf(T, f, c)
         /\ \A g \in Firm : s[g] \in Int
<1> DEFINE W(g) == Legs(T, f, g, c)
           p == [g \in Firm |-> [i \in D |-> IF i \in W(g) THEN T[i].amount ELSE 0]]
           to == [i \in D |-> T[i].receiver]
           a == OutFlow(T, f, c)
<1>1. ASSUME NEW g \in Firm
      PROVE  s[g] = SumFunctionOnSet(p[g], D) /\ s[g] \in Int
  <2>1. W(g) \in SUBSET D /\ \A i \in W(g) : T[i].amount \in Int
    BY DEF In, Legs, Transfer, Amount
  <2>2. s[g] = TotalOf(T, W(g))
    OBVIOUS
  <2>3. \A i \in D : p[g][i] \in Int
    BY DEF Transfer, Amount
  <2>4. p[g] = [i \in D |-> IF i \in W(g) THEN T[i].amount ELSE 0]
    OBVIOUS
  <2> HIDE DEF W, p
  <2>5. s[g] = SumFunctionOnSet(p[g], D)
    BY <2>1, <2>2, <2>4, TotalPart
  <2> QED
    BY <2>3, <2>5, SumInt
<1>2. \A g \in Firm, i \in D : p[g][i] = (IF to[i] = g THEN a[i] ELSE 0)
  BY DEF OutFlow, In, Legs
<1>3. \A i \in D : a[i] \in Int /\ to[i] \in Firm
  BY FlowNat DEF Transfer
<1>4. \A g \in Firm : s[g] = SumFunctionOnSet(p[g], D)
  BY <1>1
<1>5. IsFiniteSet(Firm) /\ IsFiniteSet(D)
  BY FiniteLedger
<1>6. SumFunctionOnSet(s, Firm) = SumFunctionOnSet(a, D)
  <2> HIDE DEF p, to, a
  <2> QED
    BY ONLY <1>2, <1>3, <1>4, <1>5, SumByKey, SMT
<1>7. OutOf(T, f, c) = SumFunctionOnSet(a, D)
  BY NetIsFlow
<1>8. \A g \in Firm : s[g] \in Int
  BY <1>1
<1> HIDE DEF a
<1> QED
  BY <1>6, <1>7, <1>8

\* In a settlement of b, each firm pays another within the legs between them,
\* and all others together within its legs.
LEMMA PaidByLegs ==
  ASSUME TypeOK, TypeOK', NEW b \in Batch, batch[b] # None,
         NEW alloc \in Allocations(b), InKind(alloc), SettleNetting(b, alloc),
         NEW f, NEW c
  PROVE  LET T == batch[b].residualLegs IN
         /\ \A g \in Firm : /\ PaidTo(f, g, c) <= TotalOf(T, Legs(T, f, g, c))
                            /\ PaidTo(f, g, c) \in Int
                            /\ TotalOf(T, Legs(T, f, g, c)) \in Int
         /\ PaidOut(f, c) <= OutOf(T, f, c)
         /\ PaidOut(f, c) \in Int /\ OutOf(T, f, c) \in Int
<1> DEFINE T == batch[b].residualLegs
           D == DOMAIN T
           m == [i \in D |-> alloc[i].holding]
           s == [g \in Firm |-> TotalOf(T, Legs(T, f, g, c))]
           paid == [g \in Firm |-> PaidTo(f, g, c)]
<1>1. /\ IsFiniteSet(D) /\ T \in [D -> Transfer]
      /\ Pays(holding, holding', T, m)
  BY SettlementPays
<1>2. holding \in Ledgers /\ holding' \in Ledgers
  BY DEF TypeOK, Ledgers
<1> HIDE DEF T, D, m
<1>3. ASSUME NEW g \in Firm
      PROVE  /\ PaidTo(f, g, c) <= TotalOf(T, Legs(T, f, g, c))
             /\ PaidTo(f, g, c) \in Int
  <2> DEFINE M == {h \in Hold : Moved(h, f, g) /\ holding[h].currency = c}
  <2>1. /\ M \in SUBSET Hold
        /\ \A h \in M : /\ holding[h] # None /\ holding[h].owner = f
                        /\ holding[h].currency = c
                        /\ holding'[h].owner = g /\ f # g
    BY DEF Moved
  <2>2. PaidTo(f, g, c) = TotalOf(holding, M)
    BY DEF PaidTo
  <2> HIDE DEF M
  <2> QED
    BY <1>1, <1>2, <2>1, <2>2, PaidAlongLegs
<1>4. SumFunctionOnSet(s, Firm) = OutOf(T, f, c) /\ \A g \in Firm : s[g] \in Int
  <2>1. \A g \in Firm : s[g] = TotalOf(T, Legs(T, f, g, c))
    OBVIOUS
  <2> HIDE DEF s
  <2> QED
    BY <1>1, <2>1, OutByReceiver
<1>5. \A g \in Firm : paid[g] \in Int /\ s[g] \in Int /\ paid[g] <= s[g]
  BY <1>3, <1>4
<1>6. PaidOut(f, c) = SumFunctionOnSet(paid, Firm)
  BY DEF PaidOut
<1>7. OutOf(T, f, c) \in Int
  BY <1>1, NetIsFlow
<1>8. \A g \in Firm : TotalOf(T, Legs(T, f, g, c)) \in Int
  BY <1>4
<1>9. PaidOut(f, c) <= OutOf(T, f, c) /\ PaidOut(f, c) \in Int
  <2> HIDE DEF s, paid
  <2>1. \A g \in Firm : paid[g] \in Int
    BY <1>5
  <2> QED
    BY <1>4, <1>5, <1>6, <2>1, SumAtMost, SumInt, FiniteLedger
<1> QED
  BY <1>3, <1>7, <1>8, <1>9 DEF T

\* Whatever the plan, the limits and the number of legs: the cash that leaves a
\* firm in a settlement respects every limit the batch carries, in force then.
THEOREM LimitsBind == Spec => OutflowWithinCarriedLimits
<1> DEFINE Step ==
      \A b \in Batch :
        Settles(b) =>
          /\ \A k \in batch[b].creditLimits :
               /\ ref[k] = "active"
               /\ PaidTo(CreditTerms[k].from, CreditTerms[k].to, CreditTerms[k].currency)
                    <= CreditTerms[k].limit
          /\ \A k \in batch[b].aggregateLimits :
               /\ ref[k] = "active"
               /\ PaidOut(AggregateTerms[k].party, AggregateTerms[k].currency)
                    <= AggregateTerms[k].limit
<1>1. ASSUME TypeOK, TypeOK', [Next]_vars PROVE Step
  <2> SUFFICES ASSUME NEW b \in Batch, Settles(b)
               PROVE  /\ \A k \in batch[b].creditLimits :
                           /\ ref[k] = "active"
                           /\ PaidTo(CreditTerms[k].from, CreditTerms[k].to,
                                     CreditTerms[k].currency) <= CreditTerms[k].limit
                      /\ \A k \in batch[b].aggregateLimits :
                           /\ ref[k] = "active"
                           /\ PaidOut(AggregateTerms[k].party, AggregateTerms[k].currency)
                                <= AggregateTerms[k].limit
    OBVIOUS
  <2>1. PICK alloc \in Allocations(b) :
          batch[b] # None /\ InKind(alloc) /\ SettleNetting(b, alloc)
    BY <1>1, SettlesIsSettlement
  <2>2. batch[b].creditLimits \subseteq CreditLimit
          /\ batch[b].aggregateLimits \subseteq AggregateLimit
    BY <1>1, <2>1 DEF TypeOK, BatchRec
  <2>3. /\ Fetchable(batch[b])
        /\ WithinCreditLimits(batch[b]) /\ WithinAggregateLimits(batch[b])
    BY <2>1 DEF SettleNetting
  <2>4. ASSUME NEW k \in batch[b].creditLimits
        PROVE  /\ ref[k] = "active"
               /\ PaidTo(CreditTerms[k].from, CreditTerms[k].to, CreditTerms[k].currency)
                    <= CreditTerms[k].limit
    <3> DEFINE cl == CreditTerms[k]
               W == Legs(batch[b].residualLegs, cl.from, cl.to, cl.currency)
    <3>1. cl.to \in Firm /\ cl.limit \in Int
      BY <2>2, LimitTerms
    <3>2. TotalOf(batch[b].residualLegs, W) <= cl.limit
      BY <2>3 DEF WithinCreditLimits, Legs
    <3>3. /\ PaidTo(cl.from, cl.to, cl.currency) <= TotalOf(batch[b].residualLegs, W)
          /\ PaidTo(cl.from, cl.to, cl.currency) \in Int
          /\ TotalOf(batch[b].residualLegs, W) \in Int
      BY <1>1, <2>1, <3>1, PaidByLegs
    <3>4. ref[k] = "active"
      BY <2>3 DEF Fetchable, Carried
    <3> HIDE DEF cl, W
    <3>5. PaidTo(cl.from, cl.to, cl.currency) <= cl.limit
      BY <3>1, <3>2, <3>3
    <3> QED
      BY <3>4, <3>5 DEF cl
  <2>5. ASSUME NEW k \in batch[b].aggregateLimits
        PROVE  /\ ref[k] = "active"
               /\ PaidOut(AggregateTerms[k].party, AggregateTerms[k].currency)
                    <= AggregateTerms[k].limit
    <3> DEFINE al == AggregateTerms[k]
    <3>1. al.limit \in Int
      BY <2>2, LimitTerms
    <3>2. OutOf(batch[b].residualLegs, al.party, al.currency) <= al.limit
      BY <2>3 DEF WithinAggregateLimits
    <3>3. /\ PaidOut(al.party, al.currency)
               <= OutOf(batch[b].residualLegs, al.party, al.currency)
          /\ PaidOut(al.party, al.currency) \in Int
          /\ OutOf(batch[b].residualLegs, al.party, al.currency) \in Int
      BY <1>1, <2>1, PaidByLegs
    <3>4. ref[k] = "active"
      BY <2>3 DEF Fetchable, Carried
    <3> HIDE DEF al
    <3>5. PaidOut(al.party, al.currency) <= al.limit
      BY <3>1, <3>2, <3>3
    <3> QED
      BY <3>4, <3>5 DEF al
  <2> QED
    BY <2>4, <2>5
<1>2. TypeOK /\ TypeOK' /\ [Next]_vars => [Step]_vars
  BY <1>1
<1> HIDE DEF Step
<1>3. Spec => [][Step]_vars
  BY <1>2, TypeCorrect, PTL DEF Spec
<1> QED
  BY <1>3 DEF Step, OutflowWithinCarriedLimits

\* A floor carried by a batch whose stated balances are current holds in actual
\* cash after the settlement, for any plan in any number of currencies.
THEOREM FloorsHold == Spec => FloorHeldIfFactsCurrent
<1> DEFINE Step ==
      \A b \in Batch :
        Settles(b) /\ FactsCurrent(b) =>
          \A k \in batch[b].liquidityFloors :
            CashOf(FloorTerms[k].party, FloorTerms[k].currency)' >= FloorTerms[k].floor
<1>1. ASSUME TypeOK, TypeOK', [Next]_vars PROVE Step
  <2> SUFFICES ASSUME NEW b \in Batch, Settles(b), FactsCurrent(b),
                      NEW k \in batch[b].liquidityFloors
               PROVE  CashOf(FloorTerms[k].party, FloorTerms[k].currency)'
                        >= FloorTerms[k].floor
    OBVIOUS
  <2>1. PICK alloc \in Allocations(b) :
          batch[b] # None /\ InKind(alloc) /\ SettleNetting(b, alloc)
    BY <1>1, SettlesIsSettlement
  <2> DEFINE f == FloorTerms[k].party
             c == FloorTerms[k].currency
             T == batch[b].residualLegs
  <2>2. FloorTerms[k].floor \in Int
    BY <1>1, <2>1, LimitTerms DEF TypeOK, BatchRec
  <2>3. /\ batch[b].balanceFacts[f][c] = CashOf(f, c)
        /\ batch[b].balanceFacts[f][c] + NetOfCur(T, f, c) >= FloorTerms[k].floor
    BY <2>1 DEF FactsCurrent, SettleNetting, AboveFloors
  <2>4. holding \in Ledgers /\ holding' \in Ledgers
    BY <1>1 DEF TypeOK, Ledgers
  <2>5. CashIn(holding', f, c) - CashIn(holding, f, c) = NetOfCur(T, f, c)
    <3> DEFINE m == [i \in DOMAIN T |-> alloc[i].holding]
    <3>1. /\ IsFiniteSet(DOMAIN T) /\ T \in [DOMAIN T -> Transfer]
          /\ Pays(holding, holding', T, m)
      BY <1>1, <2>1, SettlementPays
    <3> HIDE DEF f, c, T, m
    <3> QED
      BY <2>4, <3>1, CashSettled
  <2>6. CashIn(holding, f, c) \in Int /\ CashIn(holding', f, c) \in Int
    BY <2>4, ValNat
  <2>7. CashOf(f, c) = CashIn(holding, f, c) /\ CashOf(f, c)' = CashIn(holding', f, c)
    BY <1>1, CashNow
  <2> HIDE DEF f, c, T
  <2>8. CashOf(f, c)' >= FloorTerms[k].floor
    BY <2>2, <2>3, <2>5, <2>6, <2>7
  <2> QED
    BY <2>8 DEF f, c
<1>2. TypeOK /\ TypeOK' /\ [Next]_vars => [Step]_vars
  BY <1>1
<1> HIDE DEF Step
<1>3. Spec => [][Step]_vars
  BY <1>2, TypeCorrect, PTL DEF Spec
<1> QED
  BY <1>3 DEF Step, FloorHeldIfFactsCurrent

LEMMA SumSingle ==
  ASSUME NEW S, IsFiniteSet(S), NEW x, NEW f, \A y \in S : y # x => f[y] = 0,
         x \in S => f[x] \in Int
  PROVE  SumFunctionOnSet(f, S) = IF x \in S THEN f[x] ELSE 0
<1>1. CASE x \in S
  <2>1. IsFiniteSet(S \ {x}) /\ \A y \in S \ {x} : f[y] = 0
    BY FS_RemoveElement
  <2>2. SumFunctionOnSet(f, S \ {x}) = 0
    BY <2>1, SumZero
  <2>3. \A y \in S : f[y] \in Int
    BY <1>1
  <2>4. SumFunctionOnSet(f, S) = f[x] + SumFunctionOnSet(f, S \ {x})
    BY <1>1, <2>3, SumRemove
  <2>. QED BY <1>1, <2>2, <2>4
<1>2. CASE x \notin S
  <2>1. \A y \in S : f[y] = 0
    BY <1>2
  <2>. QED BY <1>2, <2>1, SumZero
<1>. QED BY <1>1, <1>2

-----------------------------------------------------------------------------
(* The transfers of a flow.                                                *)

\* A flow between firms.
FlowOK(x) ==
  /\ IsFiniteSet(DOMAIN x) /\ DOMAIN x \subseteq Firm \X Firm
  /\ \A arc \in DOMAIN x : x[arc] \in Nat

\* What v makes of the transfer on each arc that carries something.
Values(v, x, c, g) ==
  \A arc \in DOMAIN x : g[arc] = IF x[arc] > 0 THEN v[TransferOn(x, arc, c)] ELSE 0

LEMMA TransferTyped ==
  ASSUME NEW x, FlowOK(x), NEW c \in Currency, NEW arc \in DOMAIN x, x[arc] > 0
  PROVE  TransferOn(x, arc, c) \in Transfer
<1>1. arc \in Firm \X Firm /\ x[arc] \in Nat
  BY DEF FlowOK
<1>2. arc[1] \in Firm /\ arc[2] \in Firm
  BY <1>1
<1>. QED BY <1>1, <1>2 DEF TransferOn, Transfer, Amount

\* The transfers of a flow are its arcs that carry something, once each.
LEMMA LegsOfIs ==
  ASSUME NEW x, FlowOK(x), NEW c \in Currency
  PROVE  /\ LegsOf(x, c) \in Seq(Transfer)
         /\ \A v \in [Transfer -> Int] : \A g :
              Values(v, x, c, g)
                => SeqTotal(v, LegsOf(x, c)) = SumFunctionOnSet(g, DOMAIN x)
         /\ LegsOf(x, c) # <<>> => \E arc \in DOMAIN x : x[arc] > 0
<1>. DEFINE used == {arc \in DOMAIN x : x[arc] > 0}
            q == LargestFirst(used, x)
            legs == LegsOf(x, c)
<1>1. IsFiniteSet(used) /\ \A arc \in used : x[arc] \in Int
  BY FS_Subset DEF FlowOK
<1>2. PICK k \in Nat : k = Cardinality(used)
  BY <1>1, FS_CardinalityType
<1>3. /\ q \in Seq(used) /\ Len(q) = k
      /\ \A m, n \in 1 .. k : m # n => q[m] # q[n]
      /\ \A arc \in used : \E n \in 1 .. k : q[n] = arc
  <2>. HIDE DEF used
  <2>. QED BY <1>1, <1>2, LargestFirstLists
<1>4. legs = [i \in DOMAIN q |-> TransferOn(x, q[i], c)]
  BY DEF LegsOf
<1>. HIDE DEF q, legs
<1>5. DOMAIN q = 1 .. k /\ \A n \in 1 .. k : q[n] \in used
  BY <1>3
<1>6. \A n \in 1 .. k : TransferOn(x, q[n], c) \in Transfer
  BY <1>5, TransferTyped
<1>7. legs = [n \in 1 .. k |-> TransferOn(x, q[n], c)] /\ legs \in Seq(Transfer) /\ Len(legs) = k
  <2>1. legs = [n \in 1 .. k |-> TransferOn(x, q[n], c)]
    BY <1>4, <1>5
  <2>2. legs \in [1 .. k -> Transfer]
    BY <1>6, <2>1
  <2>. QED BY <2>1, <2>2
<1>8. ASSUME NEW v \in [Transfer -> Int], NEW g, Values(v, x, c, g)
      PROVE  SeqTotal(v, legs) = SumFunctionOnSet(g, DOMAIN x)
  <2>. DEFINE I == 1 .. k
              D == DOMAIN x
              w == [n \in I |-> v[legs[n]]]
              h == [arc \in D |-> IF arc \in used THEN g[arc] ELSE 0]
  <2>1. IsFiniteSet(I) /\ IsFiniteSet(D) /\ used \in SUBSET D
    BY FS_Interval DEF FlowOK
  <2>2. q \in [I -> used] /\ Apart(q, I) /\ Reaches(q, I, used)
    <3>1. \A m, n \in I : m # n => q[m] # q[n]
      BY <1>3
    <3>2. \A arc \in used : \E n \in I : q[n] = arc
      BY <1>3
    <3>3. q \in [I -> used]
      BY <1>3, <1>5
    <3>. HIDE DEF I, used
    <3>. QED BY <3>1, <3>2, <3>3 DEF Apart, Reaches
  <2>3. ASSUME NEW arc \in used  PROVE g[arc] = v[TransferOn(x, arc, c)] /\ g[arc] \in Int
    <3>1. TransferOn(x, arc, c) \in Transfer
      BY TransferTyped
    <3>2. g[arc] = v[TransferOn(x, arc, c)]
      BY <1>8 DEF Values
    <3>. QED BY <3>1, <3>2
  <2>4. IntsOn(g, used)
    BY <2>3 DEF IntsOn
  <2>5. Along(w, g, q, I)
    <3>1. ASSUME NEW n \in I  PROVE w[n] = g[q[n]]
      BY <1>5, <1>7, <2>3
    <3>. HIDE DEF w, I
    <3>. QED BY <3>1 DEF Along
  <2>6. SeqTotal(v, legs) = SumFunctionOnSet(w, I)
    BY <1>7 DEF SeqTotal
  <2>7. \A arc \in D : h[arc] = g[arc]
    BY <1>8 DEF Values
  <2>. HIDE DEF I, D, w, used
  <2>8. SumFunctionOnSet(g, used) = SumFunctionOnSet(w, I)
    BY ONLY <1>1, <2>1, <2>2, <2>4, <2>5, SumReindex
  <2>9. SumFunctionOnSet(g, used) = SumFunctionOnSet(h, D)
    BY <2>1, <2>4, SumPart DEF IntsOn
  <2>10. SumFunctionOnSet(h, D) = SumFunctionOnSet(g, D)
    <3>. HIDE DEF h
    <3>. QED BY <2>1, <2>7, SumSame
  <2>. QED BY <2>6, <2>8, <2>9, <2>10 DEF D
<1>9. ASSUME legs # <<>>  PROVE \E arc \in DOMAIN x : x[arc] > 0
  <2>1. k # 0
    BY <1>7, <1>9
  <2>2. 1 \in 1 .. k
    BY <2>1
  <2>. QED BY <1>5, <2>2
<1>. QED BY <1>7, <1>8, <1>9 DEF legs

\* What a transfer takes from f in d, brings to f, and moves from f to g.
Takes(f, d) ==
  [t \in Transfer |-> IF t.currency = d /\ t.sender = f THEN t.amount ELSE 0]

Brings(f, d) ==
  [t \in Transfer |-> IF t.currency = d /\ t.receiver = f THEN t.amount ELSE 0]

Passes(f, g, d) ==
  [t \in Transfer |->
     IF t.currency = d /\ t.sender = f /\ t.receiver = g THEN t.amount ELSE 0]

Counts(d) == [t \in Transfer |-> IF t.currency = d THEN t.amount ELSE 0]

LEMMA AmountsTyped ==
  ASSUME NEW f, NEW g, NEW d
  PROVE  /\ Takes(f, d) \in [Transfer -> Int] /\ Brings(f, d) \in [Transfer -> Int]
         /\ Passes(f, g, d) \in [Transfer -> Int] /\ Counts(d) \in [Transfer -> Int]
<1>1. \A t \in Transfer : t.amount \in Int
  BY DEF Transfer, Amount
<1>. QED BY <1>1 DEF Takes, Brings, Passes, Counts

\* v is the amount of the transfers in W.
Weighs(v, T, W) == \A i \in DOMAIN T : v[T[i]] = IF i \in W THEN T[i].amount ELSE 0

LEMMA TotalOfLegs ==
  ASSUME NEW T \in Seq(Transfer), NEW W \in SUBSET DOMAIN T, NEW v, Weighs(v, T, W)
  PROVE  TotalOf(T, W) = SeqTotal(v, T)
<1>. DEFINE D == DOMAIN T
            f == [i \in D |-> IF i \in W THEN T[i].amount ELSE 0]
            g == [i \in D |-> v[T[i]]]
<1>1. D = 1 .. Len(T) /\ Len(T) \in Nat
  OBVIOUS
<1>2. IsFiniteSet(D) /\ IsFiniteSet(W)
  <2>1. IsFiniteSet(D)
    <3>. HIDE DEF D
    <3>. QED BY <1>1, FS_Interval
  <2>. QED BY <2>1, FS_Subset
<1>3. \A i \in D : T[i].amount \in Int
  <2>1. \A i \in D : T[i] \in Transfer
    OBVIOUS
  <2>. QED BY <2>1 DEF Transfer, Amount
<1>. DEFINE a == [i \in W |-> T[i].amount]
            b == [i \in D |-> IF i \in W THEN a[i] ELSE 0]
<1>4. SumFunctionOnSet(a, W) = SumFunctionOnSet(b, D)
  <2>1. W \in SUBSET D /\ \A i \in W : a[i] \in Int
    BY <1>3
  <2>. HIDE DEF a, D
  <2>. QED BY <1>2, <2>1, SumPart
<1>5. \A i \in D : b[i] = g[i]
  BY DEF Weighs
<1>6. SumFunctionOnSet(b, D) = SumFunctionOnSet(g, D)
  <2>. HIDE DEF b, g, D
  <2>. QED BY <1>2, <1>5, SumSame
<1>7. SumFunctionOnSet(g, D) = SeqTotal(v, T)
  BY <1>1 DEF SeqTotal
<1>. QED BY <1>4, <1>6, <1>7 DEF TotalOf

\* The ledger's sums over the legs of a plan.
LEMMA LegSums ==
  ASSUME NEW T \in Seq(Transfer), NEW f, NEW g, NEW d
  PROVE  /\ OutOf(T, f, d) = SeqTotal(Takes(f, d), T)
         /\ NetOfCur(T, f, d) = SeqTotal(Brings(f, d), T) - SeqTotal(Takes(f, d), T)
         /\ TotalOf(T, {i \in In(T, d) : T[i].sender = f /\ T[i].receiver = g})
              = SeqTotal(Passes(f, g, d), T)
         /\ GrossOf(T, d) = SeqTotal(Counts(d), T)
<1>1. \A i \in DOMAIN T : T[i] \in Transfer
  OBVIOUS
<1>2. OutOf(T, f, d) = SeqTotal(Takes(f, d), T)
  <2>. DEFINE W == {i \in In(T, d) : T[i].sender = f}
  <2>1. W \in SUBSET DOMAIN T
    BY DEF In
  <2>2. Weighs(Takes(f, d), T, W)
    BY <1>1 DEF Weighs, Takes, In
  <2>. HIDE DEF W
  <2>3. TotalOf(T, W) = SeqTotal(Takes(f, d), T)
    BY <2>1, <2>2, TotalOfLegs
  <2>. QED BY <2>3 DEF OutOf, W
<1>3. TotalOf(T, {i \in In(T, d) : T[i].receiver = f}) = SeqTotal(Brings(f, d), T)
  <2>. DEFINE W == {i \in In(T, d) : T[i].receiver = f}
  <2>1. W \in SUBSET DOMAIN T
    BY DEF In
  <2>2. Weighs(Brings(f, d), T, W)
    BY <1>1 DEF Weighs, Brings, In
  <2>. HIDE DEF W
  <2>3. TotalOf(T, W) = SeqTotal(Brings(f, d), T)
    BY <2>1, <2>2, TotalOfLegs
  <2>. QED BY <2>3 DEF W
<1>4. TotalOf(T, {i \in In(T, d) : T[i].sender = f /\ T[i].receiver = g})
        = SeqTotal(Passes(f, g, d), T)
  <2>. DEFINE W == {i \in In(T, d) : T[i].sender = f /\ T[i].receiver = g}
  <2>1. W \in SUBSET DOMAIN T
    BY DEF In
  <2>2. Weighs(Passes(f, g, d), T, W)
    BY <1>1 DEF Weighs, Passes, In
  <2>. HIDE DEF W
  <2>3. TotalOf(T, W) = SeqTotal(Passes(f, g, d), T)
    BY <2>1, <2>2, TotalOfLegs
  <2>. QED BY <2>3 DEF W
<1>5. GrossOf(T, d) = SeqTotal(Counts(d), T)
  <2>. DEFINE W == In(T, d)
  <2>1. W \in SUBSET DOMAIN T
    BY DEF In
  <2>2. Weighs(Counts(d), T, W)
    BY <1>1 DEF Weighs, Counts, In
  <2>. HIDE DEF W
  <2>3. TotalOf(T, W) = SeqTotal(Counts(d), T)
    BY <2>1, <2>2, TotalOfLegs
  <2>. QED BY <2>3 DEF GrossOf, W
<1>. QED BY <1>2, <1>3, <1>4, <1>5 DEF NetOfCur

\* The part of a flow on some of its arcs.
LEMMA FlowPart ==
  ASSUME NEW x, FlowOK(x), NEW W \in SUBSET DOMAIN x,
         NEW g, \A arc \in DOMAIN x : g[arc] = IF arc \in W THEN x[arc] ELSE 0
  PROVE  SumFunctionOnSet(g, DOMAIN x) = SumFunctionOnSet(x, W)
         /\ SumFunctionOnSet(x, W) \in Nat
<1>. DEFINE D == DOMAIN x
            h == [arc \in D |-> IF arc \in W THEN x[arc] ELSE 0]
<1>1. IsFiniteSet(D) /\ IsFiniteSet(W) /\ \A arc \in D : x[arc] \in Nat
  BY FS_Subset DEF FlowOK
<1>2. SumFunctionOnSet(x, W) = SumFunctionOnSet(h, D)
  <2>1. W \in SUBSET D /\ \A arc \in W : x[arc] \in Int
    BY <1>1
  <2>. HIDE DEF D
  <2>. QED BY <1>1, <2>1, SumPart
<1>3. \A arc \in D : h[arc] = g[arc]
  OBVIOUS
<1>4. SumFunctionOnSet(h, D) = SumFunctionOnSet(g, D)
  <2>. HIDE DEF h, D
  <2>. QED BY <1>1, <1>3, SumSame
<1>5. SumFunctionOnSet(x, W) \in Nat
  <2>1. \A arc \in W : x[arc] \in Nat
    BY <1>1
  <2>. QED BY <1>1, <2>1, SumNat
<1>. QED BY <1>2, <1>4, <1>5

\* What the transfers of a flow in c come to.
LEMMA LegsOfSums ==
  ASSUME NEW x, FlowOK(x), NEW c \in Currency, NEW f, NEW g, NEW d
  PROVE  /\ SeqTotal(Takes(f, d), LegsOf(x, c)) = IF d = c THEN Sent(x, f) ELSE 0
         /\ SeqTotal(Brings(f, d), LegsOf(x, c)) = IF d = c THEN Received(x, f) ELSE 0
         /\ SeqTotal(Passes(f, g, d), LegsOf(x, c))
              = IF d = c /\ <<f, g>> \in DOMAIN x THEN x[<<f, g>>] ELSE 0
         /\ SeqTotal(Counts(d), LegsOf(x, c))
              = IF d = c THEN SumFunctionOnSet(x, DOMAIN x) ELSE 0
         /\ Sent(x, f) \in Nat /\ Received(x, f) \in Nat
<1>. DEFINE D == DOMAIN x
            legs == LegsOf(x, c)
<1>1. IsFiniteSet(D) /\ \A arc \in D : x[arc] \in Nat /\ arc = <<arc[1], arc[2]>>
  BY DEF FlowOK
<1>2. ASSUME NEW arc \in D, x[arc] > 0
      PROVE  LET t == TransferOn(x, arc, c) IN
             /\ t \in Transfer /\ t.sender = arc[1] /\ t.receiver = arc[2]
             /\ t.amount = x[arc] /\ t.currency = c
  BY <1>2, TransferTyped DEF TransferOn
<1>3. ASSUME NEW v \in [Transfer -> Int], NEW W \in SUBSET D,
             \A arc \in D : x[arc] > 0 =>
               v[TransferOn(x, arc, c)] = IF arc \in W THEN x[arc] ELSE 0
      PROVE  SeqTotal(v, legs) = SumFunctionOnSet(x, W)
  <2>. DEFINE h == [arc \in D |-> IF arc \in W THEN x[arc] ELSE 0]
  <2>1. Values(v, x, c, h)
    BY <1>1, <1>3 DEF Values
  <2>2. SeqTotal(v, legs) = SumFunctionOnSet(h, D)
    BY <2>1, LegsOfIs
  <2>3. \A arc \in D : h[arc] = IF arc \in W THEN x[arc] ELSE 0
    OBVIOUS
  <2>4. SumFunctionOnSet(h, D) = SumFunctionOnSet(x, W)
    <3>. HIDE DEF h
    <3>. QED BY <2>3, FlowPart
  <2>. QED BY <2>2, <2>4
<1>4. SumFunctionOnSet(x, {}) = 0
  BY SumEmpty
<1>. HIDE DEF legs
<1>5. SeqTotal(Takes(f, d), legs) = IF d = c THEN Sent(x, f) ELSE 0
  <2>. DEFINE W == IF d = c THEN {arc \in D : arc[1] = f} ELSE {}
  <2>1. \A arc \in D : x[arc] > 0 =>
          Takes(f, d)[TransferOn(x, arc, c)] = IF arc \in W THEN x[arc] ELSE 0
    BY <1>2 DEF Takes
  <2>2. SeqTotal(Takes(f, d), legs) = SumFunctionOnSet(x, W)
    <3>1. W \in SUBSET D
      OBVIOUS
    <3>. HIDE DEF W, D
    <3>. QED BY <1>3, <2>1, <3>1, AmountsTyped
  <2>. QED BY <1>4, <2>2 DEF Sent
<1>6. SeqTotal(Brings(f, d), legs) = IF d = c THEN Received(x, f) ELSE 0
  <2>. DEFINE W == IF d = c THEN {arc \in D : arc[2] = f} ELSE {}
  <2>1. \A arc \in D : x[arc] > 0 =>
          Brings(f, d)[TransferOn(x, arc, c)] = IF arc \in W THEN x[arc] ELSE 0
    BY <1>2 DEF Brings
  <2>2. SeqTotal(Brings(f, d), legs) = SumFunctionOnSet(x, W)
    <3>1. W \in SUBSET D
      OBVIOUS
    <3>. HIDE DEF W, D
    <3>. QED BY <1>3, <2>1, <3>1, AmountsTyped
  <2>. QED BY <1>4, <2>2 DEF Received
<1>7. SeqTotal(Passes(f, g, d), legs)
        = IF d = c /\ <<f, g>> \in DOMAIN x THEN x[<<f, g>>] ELSE 0
  <2>. DEFINE a == <<f, g>>
              W == IF d = c /\ a \in D THEN {a} ELSE {}
  <2>1. \A arc \in D : x[arc] > 0 =>
          Passes(f, g, d)[TransferOn(x, arc, c)] = IF arc \in W THEN x[arc] ELSE 0
    <3>. SUFFICES ASSUME NEW arc \in D, x[arc] > 0
                  PROVE  Passes(f, g, d)[TransferOn(x, arc, c)] = IF arc \in W THEN x[arc] ELSE 0
      OBVIOUS
    <3>1. Passes(f, g, d)[TransferOn(x, arc, c)]
            = IF d = c /\ arc[1] = f /\ arc[2] = g THEN x[arc] ELSE 0
      BY <1>2 DEF Passes
    <3>2. arc = a <=> arc[1] = f /\ arc[2] = g
      BY <1>1
    <3>. QED BY <3>1, <3>2
  <2>2. SeqTotal(Passes(f, g, d), legs) = SumFunctionOnSet(x, W)
    <3>1. W \in SUBSET D
      OBVIOUS
    <3>. HIDE DEF W, D
    <3>. QED BY <1>3, <2>1, <3>1, AmountsTyped
  <2>3. CASE d = c /\ a \in D
    <3>1. IsFiniteSet({a}) /\ x[a] \in Int
      <4>. HIDE DEF a, W
      <4>1. IsFiniteSet({a})
        BY FS_Singleton
      <4>. QED BY <1>1, <2>3, <4>1
    <3>2. \A y \in {a} : y # a => x[y] = 0
      OBVIOUS
    <3>. HIDE DEF a
    <3>3. SumFunctionOnSet(x, {a}) = x[a]
      BY <3>1, <3>2, SumSingle
    <3>. QED BY <2>2, <2>3, <3>3 DEF a
  <2>4. CASE ~(d = c /\ a \in D)
    BY <1>4, <2>2, <2>4
  <2>. QED BY <2>3, <2>4
<1>8. SeqTotal(Counts(d), legs) = IF d = c THEN SumFunctionOnSet(x, DOMAIN x) ELSE 0
  <2>. DEFINE W == IF d = c THEN D ELSE {}
  <2>1. \A arc \in D : x[arc] > 0 =>
          Counts(d)[TransferOn(x, arc, c)] = IF arc \in W THEN x[arc] ELSE 0
    BY <1>2 DEF Counts
  <2>2. SeqTotal(Counts(d), legs) = SumFunctionOnSet(x, W)
    <3>1. W \in SUBSET D
      OBVIOUS
    <3>. HIDE DEF W, D
    <3>. QED BY <1>3, <2>1, <3>1, AmountsTyped
  <2>. QED BY <1>4, <2>2
<1>9. Sent(x, f) \in Nat /\ Received(x, f) \in Nat
  <2>1. ASSUME NEW W \in SUBSET D  PROVE SumFunctionOnSet(x, W) \in Nat
    <3>1. IsFiniteSet(W) /\ \A arc \in W : x[arc] \in Nat
      BY <1>1, FS_Subset
    <3>. QED BY <3>1, SumNat
  <2>. QED BY <2>1 DEF Sent, Received
<1>. QED BY <1>5, <1>6, <1>7, <1>8, <1>9 DEF legs

-----------------------------------------------------------------------------
(* Plans for several currencies.                                           *)

\* h is what v makes of the legs picked for each currency.
SumsOf(v, pick, K, h) == \A c \in K : h[c] = SeqTotal(v, pick[c].legs)

\* A combined plan is a plan for each currency, one after the other.
LEMMA CombinedIs ==
  ASSUME NEW K, IsFiniteSet(K), NEW plans, DOMAIN plans = K, NEW r \in Combined(plans)
  PROVE  \E pick :
           /\ \A c \in K : pick[c] \in plans[c]
           /\ r.obligations = UNION {pick[c].obligations : c \in K}
           /\ (\A c \in K : pick[c].legs \in Seq(Transfer)) =>
                /\ r.legs \in Seq(Transfer)
                /\ \A v \in [Transfer -> Int] : \A h :
                     SumsOf(v, pick, K, h) => SeqTotal(v, r.legs) = SumFunctionOnSet(h, K)
<1>. DEFINE order == SetToSeq(K)
<1>1. PICK k \in Nat : k = Cardinality(K)
  BY FS_CardinalityType
<1>2. /\ order \in [1 .. k -> K] /\ Len(order) = k /\ DOMAIN order = 1 .. k
      /\ \A m, n \in 1 .. k : m # n => order[m] # order[n]
      /\ \A c \in K : \E n \in 1 .. k : order[n] = c
  BY <1>1, SetToSeqLists
<1>3. PICK f : /\ \A n \in DOMAIN order : f[n] \in plans[order[n]]
               /\ r = [obligations |-> UNION {f[n].obligations : n \in DOMAIN order},
                       legs |-> FlattenSeq([n \in DOMAIN order |-> f[n].legs])]
  BY DEF Combined
<1>. HIDE DEF order
<1>. DEFINE place == [c \in K |-> CHOOSE n \in 1 .. k : order[n] = c]
            pick == [c \in K |-> f[place[c]]]
<1>4. \A c \in K : place[c] \in 1 .. k /\ order[place[c]] = c
  BY <1>2
<1>5. \A n \in 1 .. k : place[order[n]] = n
  <2>. HIDE DEF place
  <2>. QED BY <1>2, <1>4
<1>6. \A n \in 1 .. k : pick[order[n]] = f[n] /\ order[n] \in K
  <2>1. \A n \in 1 .. k : order[n] \in K
    BY <1>2
  <2>2. \A c \in K : pick[c] = f[place[c]]
    OBVIOUS
  <2>. HIDE DEF place, pick
  <2>. QED BY <1>5, <2>1, <2>2
<1>. HIDE DEF place
<1>7. \A c \in K : pick[c] \in plans[c]
  BY <1>2, <1>3, <1>4
<1>8. r.obligations = UNION {pick[c].obligations : c \in K}
  <2>1. \A n \in 1 .. k : f[n].obligations = pick[order[n]].obligations /\ order[n] \in K
    BY <1>6
  <2>2. \A c \in K : pick[c].obligations = f[place[c]].obligations /\ place[c] \in 1 .. k
    BY <1>4
  <2>3. r.obligations = UNION {f[n].obligations : n \in 1 .. k}
    BY <1>2, <1>3
  <2>. HIDE DEF pick
  <2>4. {f[n].obligations : n \in 1 .. k} = {pick[c].obligations : c \in K}
    BY <2>1, <2>2
  <2>. QED BY <2>3, <2>4
<1>9. ASSUME \A c \in K : pick[c].legs \in Seq(Transfer)
      PROVE  /\ r.legs \in Seq(Transfer)
             /\ \A v \in [Transfer -> Int] : \A h :
                  SumsOf(v, pick, K, h) => SeqTotal(v, r.legs) = SumFunctionOnSet(h, K)
  <2>. DEFINE ss == [n \in 1 .. k |-> f[n].legs]
  <2>1. \A n \in 1 .. k : ss[n] = pick[order[n]].legs /\ ss[n] \in Seq(Transfer)
    <3>1. \A n \in 1 .. k : f[n].legs = pick[order[n]].legs /\ order[n] \in K
      BY <1>6
    <3>. HIDE DEF pick
    <3>. QED BY <1>9, <3>1
  <2>2. ss \in Seq(Seq(Transfer)) /\ Len(ss) = k
    <3>. DEFINE Q == Seq(Transfer)
    <3>1. ss \in [1 .. k -> Q]
      BY <2>1
    <3>. HIDE DEF Q
    <3>2. ss \in Seq(Q) /\ Len(ss) = k
      BY <3>1
    <3>. QED BY <3>2 DEF Q
  <2>3. r.legs = FlattenSeq(ss)
    BY <1>2, <1>3
  <2>. HIDE DEF ss
  <2>4. r.legs \in Seq(Transfer)
    BY <2>2, <2>3, SeqTotalFlatten, AmountsTyped
  <2>5. ASSUME NEW v \in [Transfer -> Int], NEW h, SumsOf(v, pick, K, h)
        PROVE  SeqTotal(v, r.legs) = SumFunctionOnSet(h, K)
    <3>. DEFINE I == 1 .. k
                t == [n \in I |-> SeqTotal(v, ss[n])]
    <3>1. SeqTotal(v, r.legs) = SumFunctionOnSet(t, I)
      BY <2>2, <2>3, SeqTotalFlatten
    <3>2. IsFiniteSet(I)
      BY FS_Interval
    <3>3. \A n \in I : SeqTotal(v, ss[n]) \in Int
      BY <2>1, SeqTotalInt
    <3>4. \A c \in K : h[c] \in Int
      <4>1. \A c \in K : h[c] = SeqTotal(v, pick[c].legs)
        BY <2>5 DEF SumsOf
      <4>2. \A c \in K : SeqTotal(v, pick[c].legs) \in Int
        <5>. HIDE DEF pick
        <5>. QED BY <1>9, SeqTotalInt
      <4>. HIDE DEF pick
      <4>. QED BY <4>1, <4>2
    <3>5. Along(t, h, order, I)
      <4>1. ASSUME NEW n \in I  PROVE t[n] = h[order[n]]
        <5>1. h[order[n]] = SeqTotal(v, pick[order[n]].legs)
          <6>. HIDE DEF pick
          <6>. QED BY <1>6, <2>5 DEF SumsOf
        <5>. HIDE DEF pick
        <5>. QED BY <2>1, <5>1
      <4>. HIDE DEF t, I
      <4>. QED BY <4>1 DEF Along
    <3>6. order \in [I -> K] /\ Apart(order, I) /\ Reaches(order, I, K) /\ IntsOn(h, K)
      <4>1. /\ order \in [I -> K] /\ \A m, n \in I : m # n => order[m] # order[n]
            /\ \A c \in K : \E n \in I : order[n] = c
        BY <1>2
      <4>. HIDE DEF I
      <4>. QED BY <3>4, <4>1 DEF Apart, Reaches, IntsOn
    <3>. HIDE DEF I, t
    <3>7. SumFunctionOnSet(h, K) = SumFunctionOnSet(t, I)
      BY ONLY IsFiniteSet(K), <3>2, <3>5, <3>6, SumReindex
    <3>. QED BY <3>1, <3>7
  <2>. QED BY <2>4, <2>5
<1>10. WITNESS pick
<1>. QED BY <1>7, <1>8, <1>9

\* A plan made of a flow x[c] for each currency c of the book S, which settles T[c].
PlanOf(S, r, T, x) ==
  /\ r.obligations = UNION {T[c] : c \in Currencies(S)}
  /\ r.legs \in Seq(Transfer)
  /\ \A c \in Currencies(S) : T[c] \subseteq InCurrency(S, c) /\ FlowOK(x[c])
  /\ \A f, g : \A d \in Currency :
       /\ SeqTotal(Takes(f, d), r.legs)
            = IF d \in Currencies(S) THEN Sent(x[d], f) ELSE 0
       /\ SeqTotal(Brings(f, d), r.legs)
            = IF d \in Currencies(S) THEN Received(x[d], f) ELSE 0
       /\ SeqTotal(Passes(f, g, d), r.legs)
            = IF d \in Currencies(S) /\ <<f, g>> \in DOMAIN x[d] THEN x[d][<<f, g>>] ELSE 0
       /\ SeqTotal(Counts(d), r.legs)
            = IF d \in Currencies(S) THEN SumFunctionOnSet(x[d], DOMAIN x[d]) ELSE 0

LEMMA BookCurrencies ==
  ASSUME NEW S \in SUBSET Obl
  PROVE  /\ IsFiniteSet(S) /\ IsFiniteSet(Currencies(S)) /\ Currencies(S) \subseteq Currency
         /\ Involved(S) \subseteq Firm /\ IsFiniteSet(Involved(S))
         /\ \A c : InCurrency(S, c) \in SUBSET S
         /\ \A o \in S : /\ OblTerms[o].payer \in Involved(S) /\ OblTerms[o].payee \in Involved(S)
                         /\ OblTerms[o].currency \in Currency /\ OblTerms[o].amount \in Nat \ {0}
<1>1. \A o \in S : OblTerms[o] \in OblRec
  BY ObligationTerms
<1>2. Currencies(S) \subseteq Currency
  BY <1>1 DEF Currencies, OblRec
<1>3. Involved(S) \subseteq Firm
  BY <1>1 DEF Involved, OblRec
<1>4. IsFiniteSet(S) /\ IsFiniteSet(Currencies(S)) /\ IsFiniteSet(Involved(S))
  BY <1>2, <1>3, FiniteLedger, FS_Subset
<1>5. \A o \in S : /\ OblTerms[o].payer \in Involved(S) /\ OblTerms[o].payee \in Involved(S)
                   /\ OblTerms[o].currency \in Currency /\ OblTerms[o].amount \in Nat \ {0}
  BY <1>1 DEF Involved, OblRec, Amount
<1>. QED BY <1>2, <1>3, <1>4, <1>5 DEF InCurrency

\* The plans for each currency come from what X[c] offers to settle, and a flow for it.
FromFlows(plans, S, X) ==
  /\ DOMAIN plans = Currencies(S)
  /\ \A c \in Currencies(S) : \A q \in plans[c] : \E o \in X[c] :
       /\ o.settled \subseteq InCurrency(S, c) /\ FlowOK(o.flow)
       /\ q.obligations = o.settled /\ q.legs = LegsOf(o.flow, c)

LEMMA PlanExists ==
  ASSUME NEW S \in SUBSET Obl, NEW plans, NEW X, FromFlows(plans, S, X),
         NEW r \in Combined(plans)
  PROVE  \E T, x : /\ PlanOf(S, r, T, x)
                   /\ \A c \in Currencies(S) : \E o \in X[c] : T[c] = o.settled /\ x[c] = o.flow
<1>. DEFINE K == Currencies(S)
<1>1. IsFiniteSet(K) /\ K \subseteq Currency /\ DOMAIN plans = K
  BY BookCurrencies DEF FromFlows
<1>. HIDE DEF K
<1>2. PICK pick :
        /\ \A c \in K : pick[c] \in plans[c]
        /\ r.obligations = UNION {pick[c].obligations : c \in K}
        /\ (\A c \in K : pick[c].legs \in Seq(Transfer)) =>
             /\ r.legs \in Seq(Transfer)
             /\ \A v \in [Transfer -> Int] : \A h :
                  SumsOf(v, pick, K, h) => SeqTotal(v, r.legs) = SumFunctionOnSet(h, K)
  BY <1>1, CombinedIs
<1>. DEFINE o == [c \in K |-> CHOOSE o \in X[c] :
                     /\ o.settled \subseteq InCurrency(S, c) /\ FlowOK(o.flow)
                     /\ pick[c].obligations = o.settled /\ pick[c].legs = LegsOf(o.flow, c)]
            T == [c \in K |-> o[c].settled]
            x == [c \in K |-> o[c].flow]
<1>3. \A c \in K : /\ o[c] \in X[c]
                   /\ o[c].settled \subseteq InCurrency(S, c) /\ FlowOK(o[c].flow)
                   /\ pick[c].obligations = o[c].settled /\ pick[c].legs = LegsOf(o[c].flow, c)
  BY <1>2 DEF FromFlows, K
<1>. HIDE DEF o
<1>4. \A c \in K : /\ T[c] \subseteq InCurrency(S, c) /\ FlowOK(x[c])
                   /\ pick[c].obligations = T[c] /\ pick[c].legs = LegsOf(x[c], c)
                   /\ \E q \in X[c] : T[c] = q.settled /\ x[c] = q.flow
  BY <1>3
<1>. HIDE DEF T, x
<1>5. \A c \in K : pick[c].legs \in Seq(Transfer)
  BY <1>1, <1>4, LegsOfIs
<1>6. r.obligations = UNION {T[c] : c \in K}
  <2>1. {pick[c].obligations : c \in K} = {T[c] : c \in K}
    BY <1>4
  <2>. QED BY <1>2, <2>1
<1>7. ASSUME NEW v \in [Transfer -> Int], NEW d, NEW n \in Int,
             \A c \in K : SeqTotal(v, LegsOf(x[c], c)) = IF c = d THEN n ELSE 0
      PROVE  SeqTotal(v, r.legs) = IF d \in K THEN n ELSE 0
  <2>. DEFINE h == [c \in K |-> SeqTotal(v, pick[c].legs)]
  <2>1. SumsOf(v, pick, K, h)
    BY DEF SumsOf
  <2>2. SeqTotal(v, r.legs) = SumFunctionOnSet(h, K)
    BY <1>2, <1>5, <2>1
  <2>3. \A c \in K : h[c] = IF c = d THEN n ELSE 0
    BY <1>4, <1>7
  <2>. HIDE DEF h
  <2>4. (\A y \in K : y # d => h[y] = 0) /\ (d \in K => h[d] \in Int /\ h[d] = n)
    BY <2>3
  <2>5. SumFunctionOnSet(h, K) = IF d \in K THEN h[d] ELSE 0
    BY <1>1, <2>4, SumSingle
  <2>. QED BY <2>2, <2>4, <2>5
<1>8. ASSUME NEW f, NEW g, NEW d \in Currency
      PROVE  /\ SeqTotal(Takes(f, d), r.legs) = IF d \in K THEN Sent(x[d], f) ELSE 0
             /\ SeqTotal(Brings(f, d), r.legs) = IF d \in K THEN Received(x[d], f) ELSE 0
             /\ SeqTotal(Passes(f, g, d), r.legs)
                  = IF d \in K /\ <<f, g>> \in DOMAIN x[d] THEN x[d][<<f, g>>] ELSE 0
             /\ SeqTotal(Counts(d), r.legs)
                  = IF d \in K THEN SumFunctionOnSet(x[d], DOMAIN x[d]) ELSE 0
  <2>1. \A c \in K : c \in Currency /\ FlowOK(x[c])
    BY <1>1, <1>4
  <2>2. ASSUME NEW c \in K
        PROVE  /\ SeqTotal(Takes(f, d), LegsOf(x[c], c)) = IF c = d THEN Sent(x[c], f) ELSE 0
               /\ SeqTotal(Brings(f, d), LegsOf(x[c], c)) = IF c = d THEN Received(x[c], f) ELSE 0
               /\ SeqTotal(Passes(f, g, d), LegsOf(x[c], c))
                    = IF c = d /\ <<f, g>> \in DOMAIN x[c] THEN x[c][<<f, g>>] ELSE 0
               /\ SeqTotal(Counts(d), LegsOf(x[c], c))
                    = IF c = d THEN SumFunctionOnSet(x[c], DOMAIN x[c]) ELSE 0
               /\ Sent(x[c], f) \in Nat /\ Received(x[c], f) \in Nat
    <3>1. FlowOK(x[c]) /\ c \in Currency
      BY <2>1
    <3>. QED BY <3>1, LegsOfSums
  <2>3. /\ Takes(f, d) \in [Transfer -> Int] /\ Brings(f, d) \in [Transfer -> Int]
        /\ Passes(f, g, d) \in [Transfer -> Int] /\ Counts(d) \in [Transfer -> Int]
    BY AmountsTyped
  <2>4. CASE d \notin K
    <3>1. \A c \in K : /\ SeqTotal(Takes(f, d), LegsOf(x[c], c)) = 0
                       /\ SeqTotal(Brings(f, d), LegsOf(x[c], c)) = 0
                       /\ SeqTotal(Passes(f, g, d), LegsOf(x[c], c)) = 0
                       /\ SeqTotal(Counts(d), LegsOf(x[c], c)) = 0
      BY <2>2, <2>4
    <3>2. ASSUME NEW v \in [Transfer -> Int], \A c \in K : SeqTotal(v, LegsOf(x[c], c)) = 0
          PROVE  SeqTotal(v, r.legs) = 0
      <4>1. \A c \in K : SeqTotal(v, LegsOf(x[c], c)) = IF c = d THEN 0 ELSE 0
        BY <3>2
      <4>. QED BY <1>7, <4>1
    <3>. QED BY <2>3, <2>4, <3>1, <3>2
  <2>5. CASE d \in K
    <3>. DEFINE y == x[d]
    <3>1. FlowOK(y) /\ Sent(y, f) \in Nat /\ Received(y, f) \in Nat
      BY <2>1, <2>2, <2>5
    <3>2. SumFunctionOnSet(y, DOMAIN y) \in Nat
      <4>1. IsFiniteSet(DOMAIN y) /\ \A arc \in DOMAIN y : y[arc] \in Nat
        BY <3>1 DEF FlowOK
      <4>. HIDE DEF y
      <4>. QED BY <4>1, SumNat
    <3>3. (IF <<f, g>> \in DOMAIN y THEN y[<<f, g>>] ELSE 0) \in Nat
      BY <3>1 DEF FlowOK
    <3>4. SeqTotal(Takes(f, d), r.legs) = Sent(y, f)
      <4>. DEFINE n == Sent(y, f)
      <4>1. \A c \in K : SeqTotal(Takes(f, d), LegsOf(x[c], c)) = IF c = d THEN n ELSE 0
        BY <2>2
      <4>2. n \in Int
        BY <3>1
      <4>. HIDE DEF n
      <4>3. SeqTotal(Takes(f, d), r.legs) = n
        BY <1>7, <2>3, <2>5, <4>1, <4>2
      <4>. QED BY <4>3 DEF n
    <3>5. SeqTotal(Brings(f, d), r.legs) = Received(y, f)
      <4>. DEFINE n == Received(y, f)
      <4>1. \A c \in K : SeqTotal(Brings(f, d), LegsOf(x[c], c)) = IF c = d THEN n ELSE 0
        BY <2>2
      <4>2. n \in Int
        BY <3>1
      <4>. HIDE DEF n
      <4>3. SeqTotal(Brings(f, d), r.legs) = n
        BY <1>7, <2>3, <2>5, <4>1, <4>2
      <4>. QED BY <4>3 DEF n
    <3>6. SeqTotal(Passes(f, g, d), r.legs) = IF <<f, g>> \in DOMAIN y THEN y[<<f, g>>] ELSE 0
      <4>. DEFINE n == IF <<f, g>> \in DOMAIN y THEN y[<<f, g>>] ELSE 0
      <4>1. \A c \in K : SeqTotal(Passes(f, g, d), LegsOf(x[c], c)) = IF c = d THEN n ELSE 0
        BY <2>2
      <4>2. n \in Int
        BY <3>3
      <4>. HIDE DEF n
      <4>3. SeqTotal(Passes(f, g, d), r.legs) = n
        BY <1>7, <2>3, <2>5, <4>1, <4>2
      <4>. QED BY <4>3 DEF n
    <3>7. SeqTotal(Counts(d), r.legs) = SumFunctionOnSet(y, DOMAIN y)
      <4>. DEFINE n == SumFunctionOnSet(y, DOMAIN y)
      <4>1. \A c \in K : SeqTotal(Counts(d), LegsOf(x[c], c)) = IF c = d THEN n ELSE 0
        BY <2>2
      <4>2. n \in Int
        BY <3>2
      <4>. HIDE DEF n
      <4>3. SeqTotal(Counts(d), r.legs) = n
        BY <1>7, <2>3, <2>5, <4>1, <4>2
      <4>. QED BY <4>3 DEF n
    <3>. QED BY <2>5, <3>4, <3>5, <3>6, <3>7
  <2>. QED BY <2>4, <2>5
<1>9. PlanOf(S, r, T, x)
  <2>1. r.legs \in Seq(Transfer)
    BY <1>2, <1>5
  <2>2. \A c \in Currencies(S) : T[c] \subseteq InCurrency(S, c) /\ FlowOK(x[c])
    BY <1>4 DEF K
  <2>. QED BY <1>6, <1>8, <2>1, <2>2 DEF PlanOf, K
<1>. QED BY <1>4, <1>9 DEF K

\* What is settled in one currency does not change what a firm is due in another.
LEMMA NetOfUnion ==
  ASSUME NEW S \in SUBSET Obl, NEW T, \A c \in Currencies(S) : T[c] \subseteq InCurrency(S, c),
         NEW U, U = UNION {T[c] : c \in Currencies(S)}, NEW f, NEW d
  PROVE  /\ U \in SUBSET Obl
         /\ d \in Currencies(S) =>
              /\ T[d] \in SUBSET Obl
              /\ NetOfCur(Facts(U), f, d) = NetOfCur(Facts(T[d]), f, d)
              /\ GrossOf(Facts(U), d) = GrossOf(Facts(T[d]), d)
         /\ d \notin Currencies(S) => NetOfCur(Facts(U), f, d) = 0
<1>1. U \in SUBSET Obl
  BY BookCurrencies DEF InCurrency
<1>2. ASSUME d \in Currencies(S)
      PROVE  /\ T[d] \in SUBSET Obl
             /\ NetOfCur(Facts(U), f, d) = NetOfCur(Facts(T[d]), f, d)
             /\ GrossOf(Facts(U), d) = GrossOf(Facts(T[d]), d)
  <2>. DEFINE V == T[d]
  <2>1. V \in SUBSET Obl /\ V \subseteq U /\ \A o \in V : OblTerms[o].currency = d
    BY <1>2 DEF InCurrency
  <2>2. \A o \in U : OblTerms[o].currency = d => o \in V
    BY DEF InCurrency
  <2>. HIDE DEF V
  <2>3. \A o \in U : Facts(U)[o].currency = OblTerms[o].currency
    BY <1>1, FactsShape
  <2>4. \A o \in V : Facts(V)[o] = Facts(U)[o] /\ Facts(V)[o].currency = OblTerms[o].currency
    BY <2>1 DEF Facts
  <2>5. DOMAIN Facts(U) = U /\ DOMAIN Facts(V) = V
    BY DEF Facts
  <2>6. In(Facts(U), d) = V /\ In(Facts(V), d) = V
    BY <2>1, <2>2, <2>3, <2>4, <2>5 DEF In
  <2>7. ASSUME NEW I \in SUBSET V  PROVE TotalOf(Facts(U), I) = TotalOf(Facts(V), I)
    <3>1. [i \in I |-> Facts(U)[i].amount] = [i \in I |-> Facts(V)[i].amount]
      BY <2>4
    <3>. QED BY <3>1 DEF TotalOf
  <2>. DEFINE Gets(A) == {i \in V : A[i].receiver = f}
              Gives(A) == {i \in V : A[i].sender = f}
  <2>8. Gets(Facts(U)) = Gets(Facts(V)) /\ Gives(Facts(U)) = Gives(Facts(V))
    BY <2>4
  <2>9. Gets(Facts(V)) \in SUBSET V /\ Gives(Facts(V)) \in SUBSET V
    OBVIOUS
  <2>10. ASSUME NEW A, In(A, d) = V
         PROVE  /\ NetOfCur(A, f, d) = TotalOf(A, Gets(A)) - TotalOf(A, Gives(A))
                /\ GrossOf(A, d) = TotalOf(A, V)
    BY <2>10 DEF NetOfCur, OutOf, GrossOf
  <2>. HIDE DEF Gets, Gives
  <2>11. /\ TotalOf(Facts(U), Gets(Facts(U))) = TotalOf(Facts(V), Gets(Facts(V)))
         /\ TotalOf(Facts(U), Gives(Facts(U))) = TotalOf(Facts(V), Gives(Facts(V)))
         /\ TotalOf(Facts(U), V) = TotalOf(Facts(V), V)
    BY <2>7, <2>8, <2>9
  <2>12. /\ NetOfCur(Facts(U), f, d) = NetOfCur(Facts(V), f, d)
         /\ GrossOf(Facts(U), d) = GrossOf(Facts(V), d)
    BY <2>6, <2>10, <2>11
  <2>. QED BY <2>1, <2>12 DEF V
<1>3. ASSUME d \notin Currencies(S)  PROVE NetOfCur(Facts(U), f, d) = 0
  <2>1. \A o \in U : o \in S
    BY DEF InCurrency
  <2>2. \A o \in U : Facts(U)[o].currency # d
    BY <1>1, <1>3, <2>1, FactsShape DEF Currencies
  <2>3. In(Facts(U), d) = {}
    BY <2>2 DEF In, Facts
  <2>4. TotalOf(Facts(U), {}) = 0
    BY SumEmpty DEF TotalOf
  <2>. DEFINE Gets(A) == {i \in In(A, d) : A[i].receiver = f}
              Gives(A) == {i \in In(A, d) : A[i].sender = f}
  <2>5. Gets(Facts(U)) = {} /\ Gives(Facts(U)) = {}
    BY <2>3
  <2>6. ASSUME NEW A  PROVE NetOfCur(A, f, d) = TotalOf(A, Gets(A)) - TotalOf(A, Gives(A))
    BY DEF NetOfCur, OutOf
  <2>. HIDE DEF Gets, Gives
  <2>7. NetOfCur(Facts(U), f, d) = TotalOf(Facts(U), Gets(Facts(U))) - TotalOf(Facts(U), Gives(Facts(U)))
    BY <2>6
  <2>8. TotalOf(Facts(U), Gets(Facts(U))) = 0
    BY <2>4, <2>5
  <2>9. TotalOf(Facts(U), Gives(Facts(U))) = 0
    BY <2>4, <2>5
  <2>. QED BY <2>7, <2>8, <2>9
<1>. QED BY <1>1, <1>2, <1>3

-----------------------------------------------------------------------------
(* Flows that move the net positions of a book.                            *)

LEMMA MaxNat ==
  ASSUME NEW S, IsFiniteSet(S), S \subseteq Nat, S # {}
  PROVE  Max(S) \in S /\ \A y \in S : Max(S) >= y
<1>. DEFINE id == [x \in S |-> x]
            sum == SumFunctionOnSet(id, S)
<1>1. \A x \in S : id[x] \in Nat /\ id[x] \in Int /\ id[x] = x
  OBVIOUS
<1>. HIDE DEF id
<1>2. sum \in Nat
  BY <1>1, SumNat
<1>3. ASSUME NEW x \in S  PROVE x <= sum
  <2>1. sum = x + SumFunctionOnSet(id, S \ {x})
    BY <1>1, SumRemove
  <2>2. IsFiniteSet(S \ {x}) /\ \A y \in S \ {x} : id[y] \in Nat
    BY <1>1, FS_RemoveElement
  <2>3. SumFunctionOnSet(id, S \ {x}) \in Nat
    BY <2>2, SumNat
  <2>. QED BY <1>2, <2>1, <2>3
<1>. HIDE DEF sum
<1>. DEFINE R == {sum - x : x \in S}
<1>4. R \subseteq 0 .. sum /\ R # {}
  <2>1. \A x \in S : x \in Nat /\ x <= sum /\ sum - x \in 0 .. sum
    BY <1>2, <1>3
  <2>. QED BY <2>1
<1>5. IsFiniteSet(R) /\ R \subseteq Nat
  <2>. HIDE DEF R
  <2>1. IsFiniteSet(0 .. sum) /\ 0 .. sum \subseteq Nat
    BY <1>2, FS_Interval
  <2>. QED BY <1>4, <2>1, FS_Subset
<1>6. PICK n \in R : \A j \in R : n <= j
  <2>. HIDE DEF R
  <2>. QED BY <1>4, <1>5, FirstOf
<1>7. PICK m \in S : n = sum - m
  OBVIOUS
<1>8. \A y \in S : m >= y
  <2>. SUFFICES ASSUME NEW y \in S  PROVE m >= y
    OBVIOUS
  <2>1. n <= sum - y
    BY <1>6
  <2>. QED BY <1>2, <1>7, <2>1
<1>. QED BY <1>8 DEF Max

\* The net positions of obligations in one currency.
LEMMA NetOne ==
  ASSUME NEW S \in SUBSET Obl, NEW c, \A o \in S : OblTerms[o].currency = c,
         S # {} => c \in Currency
  PROVE  /\ DOMAIN NetPositions(S) = Involved(S)
         /\ Involved(S) \subseteq Firm /\ IsFiniteSet(Involved(S))
         /\ \A p \in Involved(S) : /\ NetPositions(S)[p] = NetOfCur(Facts(S), p, c)
                                   /\ NetPositions(S)[p] \in Int
         /\ SumFunctionOnSet(NetPositions(S), Involved(S)) = 0
<1>. DEFINE I == Involved(S)
            due == [f \in Firm |-> NetOfCur(Facts(S), f, c)]
<1>1. I \subseteq Firm /\ IsFiniteSet(I) /\ IsFiniteSet(Firm)
  BY BookCurrencies, FiniteLedger
<1>2. (\A f \in Firm : due[f] \in Int /\ due[f] = NetOfCur(Facts(S), f, c))
        /\ SumFunctionOnSet(due, Firm) = 0
  BY FactsShape, NetsCancel
<1>. HIDE DEF due
<1>3. ASSUME NEW p \in I  PROVE NetPositions(S)[p] = due[p]
  <2>. DEFINE in == [d \in Currencies(S) |-> NetOfCur(Facts(S), p, d)]
  <2>1. Currencies(S) = {c} /\ p \in Firm
    BY <1>1 DEF Involved, Currencies
  <2>2. NetPositions(S)[p] = SumFunctionOnSet(in, {c})
    BY <2>1 DEF NetPositions
  <2>3. IsFiniteSet({c}) /\ \A y \in {c} : y # c => in[y] = 0
    BY FS_Singleton
  <2>4. in[c] = due[p] /\ in[c] \in Int
    BY <1>2, <2>1
  <2>. HIDE DEF in
  <2>5. SumFunctionOnSet(in, {c}) = in[c]
    BY <2>3, <2>4, SumSingle
  <2>. QED BY <2>2, <2>4, <2>5
<1>4. DOMAIN NetPositions(S) = I
  BY DEF NetPositions
<1>5. \A p \in I : NetPositions(S)[p] = NetOfCur(Facts(S), p, c) /\ NetPositions(S)[p] \in Int
  BY <1>1, <1>2, <1>3
<1>6. SumFunctionOnSet(NetPositions(S), I) = 0
  <2>. DEFINE part == [f \in Firm |-> IF f \in I THEN due[f] ELSE 0]
  <2>1. SumFunctionOnSet(NetPositions(S), I) = SumFunctionOnSet(due, I)
    <3>. HIDE DEF I
    <3>. QED BY <1>1, <1>3, SumSame
  <2>2. SumFunctionOnSet(due, I) = SumFunctionOnSet(part, Firm)
    <3>1. \A f \in I : due[f] \in Int
      BY <1>1, <1>2
    <3>. HIDE DEF I
    <3>. QED BY <1>1, <3>1, SumPart
  <2>3. ASSUME NEW f \in Firm  PROVE part[f] = due[f]
    <3>1. f \notin I => due[f] = 0
      <4>1. CASE S = {}
        <5>1. In(Facts(S), c) = {}
          BY <4>1 DEF In, Facts
        <5>. DEFINE Gets(A) == {i \in In(A, c) : A[i].receiver = f}
                    Gives(A) == {i \in In(A, c) : A[i].sender = f}
        <5>2. Gets(Facts(S)) = {} /\ Gives(Facts(S)) = {}
          BY <5>1
        <5>3. NetOfCur(Facts(S), f, c) = TotalOf(Facts(S), Gets(Facts(S)))
                                           - TotalOf(Facts(S), Gives(Facts(S)))
          BY DEF NetOfCur, OutOf
        <5>. HIDE DEF Gets, Gives
        <5>4. TotalOf(Facts(S), {}) = 0
          BY SumEmpty DEF TotalOf
        <5>5. TotalOf(Facts(S), Gets(Facts(S))) = 0 /\ TotalOf(Facts(S), Gives(Facts(S))) = 0
          BY <5>2, <5>4
        <5>6. NetOfCur(Facts(S), f, c) = 0
          BY <5>3, <5>5
        <5>. QED BY <1>2, <5>6
      <4>2. CASE S # {}
        BY <1>2, <4>2, OutsidersUntouched
      <4>. QED BY <4>1, <4>2
    <3>. QED BY <3>1
  <2>4. SumFunctionOnSet(part, Firm) = SumFunctionOnSet(due, Firm)
    <3>. HIDE DEF part
    <3>. QED BY <1>1, <2>3, SumSame
  <2>. QED BY <1>2, <2>1, <2>2, <2>4
<1>. QED BY <1>1, <1>4, <1>5, <1>6

\* A flow straight from the payers to the receivers takes from each what it owes
\* and brings each what it is due.
LEMMA DirectMoves ==
  ASSUME NEW net, Positions(net), DOMAIN net \subseteq Firm, NEW x \in DirectFlows(net)
  PROVE  /\ FlowOK(x) /\ DOMAIN x = Payers(net) \X Receivers(net)
         /\ \A f : /\ Sent(x, f) = IF f \in Payers(net) THEN -net[f] ELSE 0
                   /\ Received(x, f) = IF f \in Receivers(net) THEN net[f] ELSE 0
<1>. DEFINE A == Payers(net) \X Receivers(net)
            sizes == {0} \union {net[q] : q \in Receivers(net)}
<1>1. IsFiniteSet(Payers(net)) /\ IsFiniteSet(Receivers(net))
  <2>1. Payers(net) \in SUBSET DOMAIN net /\ Receivers(net) \in SUBSET DOMAIN net
    BY DEF Payers, Receivers
  <2>. QED BY <2>1, FS_Subset DEF Positions
<1>2. IsFiniteSet(A)
  BY <1>1, FS_Product
<1>3. Max(sizes) \in Nat
  <2>1. \A q \in Receivers(net) : net[q] \in Nat
    BY DEF Positions, Receivers
  <2>2. IsFiniteSet({net[q] : q \in Receivers(net)})
    <3>. DEFINE at == [q \in Receivers(net) |-> net[q]]
                T == {net[q] : q \in Receivers(net)}
    <3>1. at \in [Receivers(net) -> T] /\ \A t \in T : \E q \in Receivers(net) : at[q] = t
      OBVIOUS
    <3>. HIDE DEF at, T
    <3>2. at \in Surjection(Receivers(net), T)
      BY <3>1 DEF Surjection
    <3>3. IsFiniteSet(T)
      BY <1>1, <3>2, FS_Surjection
    <3>. QED BY <3>3 DEF T
  <2>3. IsFiniteSet({0})
    BY FS_Singleton
  <2>4. IsFiniteSet(sizes)
    BY <2>2, <2>3, FS_Union
  <2>5. sizes \subseteq Nat /\ sizes # {}
    BY <2>1
  <2>. HIDE DEF sizes
  <2>. QED BY <2>4, <2>5, MaxNat
<1>4. /\ x \in [A -> 0 .. Max(sizes)]
      /\ \A p \in Payers(net) : Sent(x, p) = -net[p]
      /\ \A q \in Receivers(net) : Received(x, q) = net[q]
  BY DEF DirectFlows
<1>. HIDE DEF sizes
<1>5. FlowOK(x) /\ DOMAIN x = A
  <2>1. \A arc \in A : x[arc] \in Nat
    BY <1>3, <1>4
  <2>2. A \subseteq Firm \X Firm
    BY DEF Payers, Receivers
  <2>. QED BY <1>2, <1>4, <2>1, <2>2 DEF FlowOK
<1>6. ASSUME NEW f
      PROVE  /\ f \notin Payers(net) => Sent(x, f) = 0
             /\ f \notin Receivers(net) => Received(x, f) = 0
  <2>1. f \notin Payers(net) => {arc \in DOMAIN x : arc[1] = f} = {}
    BY <1>5
  <2>2. f \notin Receivers(net) => {arc \in DOMAIN x : arc[2] = f} = {}
    BY <1>5
  <2>3. SumFunctionOnSet(x, {}) = 0
    BY SumEmpty
  <2>. QED BY <2>1, <2>2, <2>3 DEF Sent, Received
<1>. QED BY <1>4, <1>5, <1>6

\* A flow brings every firm, on balance, what net says, between the firms of net.
Moves(x, net) ==
  /\ FlowOK(x) /\ \A arc \in DOMAIN x : arc[1] \in DOMAIN net /\ arc[2] \in DOMAIN net
  /\ \A f \in DOMAIN net : Received(x, f) - Sent(x, f) = net[f]
  /\ \A f : f \notin DOMAIN net => Received(x, f) = 0 /\ Sent(x, f) = 0

LEMMA DirectFlowMoves ==
  ASSUME NEW net, Positions(net), DOMAIN net \subseteq Firm, NEW x \in DirectFlows(net)
  PROVE  Moves(x, net)
<1>1. /\ FlowOK(x) /\ DOMAIN x = Payers(net) \X Receivers(net)
      /\ \A f : /\ Sent(x, f) = IF f \in Payers(net) THEN -net[f] ELSE 0
                /\ Received(x, f) = IF f \in Receivers(net) THEN net[f] ELSE 0
  BY DirectMoves
<1>2. \A arc \in DOMAIN x : arc[1] \in DOMAIN net /\ arc[2] \in DOMAIN net
  BY <1>1 DEF Payers, Receivers
<1>3. ASSUME NEW f \in DOMAIN net  PROVE Received(x, f) - Sent(x, f) = net[f]
  <2>1. net[f] \in Int
    BY DEF Positions
  <2>2. CASE net[f] < 0
    BY <1>1, <2>1, <2>2 DEF Payers, Receivers
  <2>3. CASE net[f] > 0
    BY <1>1, <2>1, <2>3 DEF Payers, Receivers
  <2>4. CASE net[f] = 0
    BY <1>1, <2>1, <2>4 DEF Payers, Receivers
  <2>. QED BY <2>1, <2>2, <2>3, <2>4
<1>4. \A f : f \notin DOMAIN net => Received(x, f) = 0 /\ Sent(x, f) = 0
  BY <1>1 DEF Payers, Receivers
<1>. QED BY <1>1, <1>2, <1>3, <1>4 DEF Moves

ArcsOf(F) == {pq \in F \X F : pq[1] # pq[2]}

\* What goes from p, and to p, to and from each of the others.
LEMMA ArcSums ==
  ASSUME NEW F, IsFiniteSet(F), NEW x, DOMAIN x = ArcsOf(F),
         \A arc \in ArcsOf(F) : x[arc] \in Nat, NEW p \in F
  PROVE  /\ Sent(x, p) = SumFunctionOnSet([q \in F \ {p} |-> x[<<p, q>>]], F \ {p})
         /\ Received(x, p) = SumFunctionOnSet([q \in F \ {p} |-> x[<<q, p>>]], F \ {p})
<1>. DEFINE I == F \ {p}
            out == {arc \in DOMAIN x : arc[1] = p}
            in == {arc \in DOMAIN x : arc[2] = p}
            a == [q \in I |-> <<p, q>>]
            b == [q \in I |-> <<q, p>>]
            sa == [q \in I |-> x[<<p, q>>]]
            sb == [q \in I |-> x[<<q, p>>]]
<1>1. IsFiniteSet(I)
  BY FS_RemoveElement
<1>2. IsFiniteSet(out) /\ IsFiniteSet(in)
  <2>1. IsFiniteSet(F \X F)
    BY FS_Product
  <2>2. out \in SUBSET (F \X F) /\ in \in SUBSET (F \X F)
    BY DEF ArcsOf
  <2>. HIDE DEF out, in
  <2>. QED BY <2>1, <2>2, FS_Subset
<1>3. /\ a \in [I -> out] /\ b \in [I -> in]
      /\ \A q, r \in I : q # r => a[q] # a[r] /\ b[q] # b[r]
      /\ \A arc \in out : arc[2] \in I /\ a[arc[2]] = arc
      /\ \A arc \in in : arc[1] \in I /\ b[arc[1]] = arc
      /\ \A q \in I : sa[q] = x[a[q]] /\ sb[q] = x[b[q]]
      /\ \A arc \in out : x[arc] \in Int
      /\ \A arc \in in : x[arc] \in Int
  BY DEF ArcsOf
<1>. HIDE DEF I, out, in, a, b, sa, sb
<1>4. /\ Apart(a, I) /\ Apart(b, I) /\ Reaches(a, I, out) /\ Reaches(b, I, in)
      /\ IntsOn(x, out) /\ IntsOn(x, in) /\ Along(sa, x, a, I) /\ Along(sb, x, b, I)
  BY <1>3 DEF Apart, Reaches, IntsOn, Along
<1>5. SumFunctionOnSet(x, out) = SumFunctionOnSet(sa, I)
  BY ONLY <1>1, <1>2, <1>3, <1>4, SumReindex
<1>6. SumFunctionOnSet(x, in) = SumFunctionOnSet(sb, I)
  BY ONLY <1>1, <1>2, <1>3, <1>4, SumReindex
<1>. QED BY <1>5, <1>6 DEF Sent, Received, I, out, in, sa, sb

\* h is what x comes to on the arcs with each key.
ByKey(h, x, key, F) ==
  \A p \in F : h[p] = SumFunctionOnSet(x, {arc \in DOMAIN x : key[arc] = p})

\* Whatever is sent is received.
LEMMA AllSentIsReceived ==
  ASSUME NEW F, IsFiniteSet(F), NEW x, FlowOK(x),
         \A arc \in DOMAIN x : arc[1] \in F /\ arc[2] \in F,
         NEW s, \A p \in F : s[p] = Sent(x, p), NEW r, \A p \in F : r[p] = Received(x, p)
  PROVE  /\ SumFunctionOnSet(s, F) = SumFunctionOnSet(x, DOMAIN x)
         /\ SumFunctionOnSet(r, F) = SumFunctionOnSet(x, DOMAIN x)
<1>. DEFINE D == DOMAIN x
<1>1. IsFiniteSet(D) /\ \A arc \in D : x[arc] \in Nat /\ x[arc] \in Int
  BY DEF FlowOK
<1>2. ASSUME NEW key, \A arc \in D : key[arc] \in F, NEW h, ByKey(h, x, key, F)
      PROVE  SumFunctionOnSet(h, F) = SumFunctionOnSet(x, D)
  <2>. DEFINE part == [p \in F |-> [arc \in D |-> IF key[arc] = p THEN x[arc] ELSE 0]]
  <2>1. Keyed(x, key, D, F)
    BY <1>1, <1>2 DEF Keyed
  <2>2. PartsOf(x, part, key, F, D)
    BY DEF PartsOf
  <2>3. ASSUME NEW p \in F  PROVE h[p] = SumFunctionOnSet(part[p], D)
    <3>. DEFINE W == {arc \in D : key[arc] = p}
                g == part[p]
    <3>1. W \in SUBSET D /\ \A arc \in D : g[arc] = IF arc \in W THEN x[arc] ELSE 0
      OBVIOUS
    <3>2. h[p] = SumFunctionOnSet(x, W)
      BY <1>2 DEF ByKey
    <3>. HIDE DEF W, g
    <3>3. SumFunctionOnSet(g, DOMAIN x) = SumFunctionOnSet(x, W)
      BY <3>1, FlowPart
    <3>. QED BY <3>2, <3>3 DEF g
  <2>4. TotalsOf(h, part, F, D)
    <3>. HIDE DEF part
    <3>. QED BY <2>3 DEF TotalsOf
  <2>. HIDE DEF part, D
  <2>. QED BY <1>1, <2>1, <2>2, <2>4, SumByNamedKey
<1>3. SumFunctionOnSet(s, F) = SumFunctionOnSet(x, D)
  <2>. DEFINE key == [arc \in D |-> arc[1]]
  <2>1. \A arc \in D : key[arc] \in F /\ key[arc] = arc[1]
    OBVIOUS
  <2>2. \A p \in F : {arc \in D : arc[1] = p} = {arc \in D : key[arc] = p}
    BY <2>1
  <2>3. ByKey(s, x, key, F)
    BY <2>2 DEF Sent, ByKey
  <2>4. \A arc \in D : key[arc] \in F
    BY <2>1
  <2>. HIDE DEF key, D
  <2>. QED BY <1>2, <2>3, <2>4
<1>4. SumFunctionOnSet(r, F) = SumFunctionOnSet(x, D)
  <2>. DEFINE key == [arc \in D |-> arc[2]]
  <2>1. \A arc \in D : key[arc] \in F /\ key[arc] = arc[2]
    OBVIOUS
  <2>2. \A p \in F : {arc \in D : arc[2] = p} = {arc \in D : key[arc] = p}
    BY <2>1
  <2>3. ByKey(r, x, key, F)
    BY <2>2 DEF Received, ByKey
  <2>4. \A arc \in D : key[arc] \in F
    BY <2>1
  <2>. HIDE DEF key, D
  <2>. QED BY <1>2, <2>3, <2>4
<1>. QED BY <1>3, <1>4

\* b says what goes from one to another, less what comes back: through the hub
\* goes what is left when the others have sent each other s.
Through(b, s, hub, net) ==
  LET rest == DOMAIN net \ {hub} IN
  /\ \A p, q \in rest : p # q => b[<<p, q>>] \in Int /\ b[<<q, p>>] = -b[<<p, q>>]
  /\ \A p \in rest : /\ b[<<hub, p>>] = net[p] + s[p]
                     /\ s[p] = SumFunctionOnSet([q \in rest \ {p} |-> b[<<p, q>>]], rest \ {p})
                     /\ b[<<p, hub>>] = -b[<<hub, p>>]

LEMMA HubMoves ==
  ASSUME NEW net, Positions(net), DOMAIN net \subseteq Firm,
         SumFunctionOnSet(net, DOMAIN net) = 0,
         NEW hub \in DOMAIN net, NEW b, NEW s, Through(b, s, hub, net), NEW x,
         DOMAIN x = ArcsOf(DOMAIN net),
         \A arc \in ArcsOf(DOMAIN net) : x[arc] = IF b[arc] > 0 THEN b[arc] ELSE 0
  PROVE  Moves(x, net)
<1>. DEFINE F == DOMAIN net
            rest == F \ {hub}
<1>1. IsFiniteSet(F) /\ IsFiniteSet(rest) /\ \A p \in F : net[p] \in Int
  <2>1. IsFiniteSet(F) /\ \A p \in F : net[p] \in Int
    BY DEF Positions
  <2>. QED BY <2>1, FS_RemoveElement
<1>2. ASSUME NEW p \in rest
      PROVE  /\ IsFiniteSet(rest \ {p})
             /\ \A q \in rest \ {p} : b[<<p, q>>] \in Int /\ b[<<q, p>>] = -b[<<p, q>>]
             /\ s[p] = SumFunctionOnSet([q \in rest \ {p} |-> b[<<p, q>>]], rest \ {p})
             /\ s[p] \in Int /\ net[p] \in Int
             /\ b[<<hub, p>>] = net[p] + s[p] /\ b[<<p, hub>>] = -(net[p] + s[p])
  <2>. DEFINE J == rest \ {p}
              sp == [q \in J |-> b[<<p, q>>]]
  <2>1. IsFiniteSet(J)
    <3>. HIDE DEF rest
    <3>. QED BY <1>1, FS_RemoveElement
  <2>2. \A q \in J : b[<<p, q>>] \in Int /\ b[<<q, p>>] = -b[<<p, q>>]
    BY DEF Through
  <2>3. s[p] = SumFunctionOnSet(sp, J)
    BY DEF Through
  <2>4. SumFunctionOnSet(sp, J) \in Int
    <3>1. \A q \in J : sp[q] \in Int
      BY <2>2
    <3>2. J \in SUBSET J
      OBVIOUS
    <3>. HIDE DEF J, sp
    <3>. QED BY <2>1, <3>1, <3>2, SumInt
  <2>5. b[<<hub, p>>] = net[p] + s[p] /\ b[<<p, hub>>] = -(net[p] + s[p])
    BY DEF Through
  <2>. QED BY <1>1, <2>1, <2>2, <2>3, <2>4, <2>5
<1>3. ASSUME NEW arc \in ArcsOf(F)
      PROVE  /\ b[arc] \in Int /\ x[arc] \in Nat
             /\ x[<<arc[2], arc[1]>>] - x[arc] = -b[arc]
  <2>. DEFINE p == arc[1]
              q == arc[2]
  <2>1. p \in F /\ q \in F /\ p # q /\ arc = <<p, q>> /\ <<q, p>> \in ArcsOf(F)
    BY DEF ArcsOf
  <2>. HIDE DEF p, q
  <2>2. b[<<p, q>>] \in Int /\ b[<<q, p>>] = -b[<<p, q>>]
    <3>1. CASE p = hub
      <4>1. q \in rest
        BY <2>1, <3>1
      <4>2. /\ net[q] \in Int /\ s[q] \in Int
            /\ b[<<hub, q>>] = net[q] + s[q] /\ b[<<q, hub>>] = -(net[q] + s[q])
        BY <1>2, <4>1
      <4>. QED BY <3>1, <4>2
    <3>2. CASE q = hub
      <4>1. p \in rest
        BY <2>1, <3>2
      <4>2. /\ net[p] \in Int /\ s[p] \in Int
            /\ b[<<hub, p>>] = net[p] + s[p] /\ b[<<p, hub>>] = -(net[p] + s[p])
        BY <1>2, <4>1
      <4>. QED BY <3>2, <4>2
    <3>3. CASE p # hub /\ q # hub
      <4>1. p \in rest /\ q \in rest \ {p}
        BY <2>1, <3>3
      <4>. QED BY <1>2, <4>1
    <3>. QED BY <3>1, <3>2, <3>3
  <2>3. /\ x[<<p, q>>] = IF b[<<p, q>>] > 0 THEN b[<<p, q>>] ELSE 0
        /\ x[<<q, p>>] = IF b[<<q, p>>] > 0 THEN b[<<q, p>>] ELSE 0
    BY <2>1
  <2>4. x[<<p, q>>] \in Nat /\ x[<<q, p>>] - x[<<p, q>>] = -b[<<p, q>>]
    BY <2>2, <2>3
  <2>. QED BY <2>1, <2>2, <2>4 DEF p, q
<1>4. FlowOK(x) /\ \A arc \in DOMAIN x : arc[1] \in F /\ arc[2] \in F
  <2>1. IsFiniteSet(F \X F)
    BY <1>1, FS_Product
  <2>2. ArcsOf(F) \in SUBSET (F \X F) /\ ArcsOf(F) \subseteq Firm \X Firm
    BY DEF ArcsOf
  <2>3. IsFiniteSet(ArcsOf(F))
    BY <2>1, <2>2, FS_Subset
  <2>4. \A arc \in ArcsOf(F) : x[arc] \in Nat /\ arc[1] \in F /\ arc[2] \in F
    BY <1>3, <2>2
  <2>. QED BY <2>2, <2>3, <2>4 DEF FlowOK
<1>5. ASSUME NEW p \in F  PROVE Sent(x, p) \in Nat /\ Received(x, p) \in Nat
  <2>1. ASSUME NEW W \in SUBSET DOMAIN x  PROVE SumFunctionOnSet(x, W) \in Nat
    <3>1. IsFiniteSet(W) /\ \A arc \in W : x[arc] \in Nat
      BY <1>4, FS_Subset DEF FlowOK
    <3>. QED BY <3>1, SumNat
  <2>. QED BY <2>1 DEF Sent, Received
<1>6. ASSUME NEW p \in rest  PROVE Received(x, p) - Sent(x, p) = net[p]
  <2>. DEFINE I == F \ {p}
              J == rest \ {p}
              out == [q \in I |-> x[<<p, q>>]]
              in == [q \in I |-> x[<<q, p>>]]
              d == [q \in I |-> -b[<<p, q>>]]
              sp == [q \in J |-> b[<<p, q>>]]
  <2>1. \A arc \in ArcsOf(F) : x[arc] \in Nat
    BY <1>3
  <2>2. Sent(x, p) = SumFunctionOnSet(out, I) /\ Received(x, p) = SumFunctionOnSet(in, I)
    BY <1>1, <2>1, ArcSums
  <2>3. IsFiniteSet(I) /\ IsFiniteSet(J) /\ hub \in I /\ I \ {hub} = J
    BY <1>1, <1>2, FS_RemoveElement
  <2>4. ASSUME NEW q \in I
        PROVE  in[q] \in Int /\ out[q] \in Int /\ d[q] = in[q] - out[q] /\ d[q] \in Int
    <3>1. <<p, q>> \in ArcsOf(F) /\ <<q, p>> \in ArcsOf(F)
      BY DEF ArcsOf
    <3>2. /\ b[<<p, q>>] \in Int /\ x[<<p, q>>] \in Nat /\ x[<<q, p>>] \in Nat
          /\ x[<<q, p>>] - x[<<p, q>>] = -b[<<p, q>>]
      BY <1>3, <3>1
    <3>. QED BY <3>2
  <2>5. SumFunctionOnSet(d, I) = SumFunctionOnSet(in, I) - SumFunctionOnSet(out, I)
    <3>. HIDE DEF I, in, out, d
    <3>. QED BY <2>3, <2>4, SumMinus
  <2>6. SumFunctionOnSet(d, I) = d[hub] + SumFunctionOnSet(d, J)
    <3>. HIDE DEF I, J, d
    <3>. QED BY <2>3, <2>4, SumRemove
  <2>7. d[hub] = net[p] + s[p] /\ net[p] \in Int /\ s[p] \in Int
    <3>1. d[hub] = -b[<<p, hub>>]
      BY <2>3
    <3>2. net[p] \in Int /\ s[p] \in Int /\ b[<<p, hub>>] = -(net[p] + s[p])
      BY <1>2
    <3>. HIDE DEF d
    <3>. QED BY <3>1, <3>2
  <2>8. SumFunctionOnSet(d, J) = (-1) * SumFunctionOnSet(sp, J)
    <3>1. ASSUME NEW q \in J  PROVE sp[q] \in Int /\ d[q] = (-1) * sp[q]
      <4>1. q \in I /\ b[<<p, q>>] \in Int
        BY <1>2
      <4>2. d[q] = -b[<<p, q>>] /\ sp[q] = b[<<p, q>>]
        BY <4>1
      <4>. HIDE DEF d, sp
      <4>. QED BY <4>1, <4>2
    <3>. HIDE DEF J, d, sp
    <3>. QED BY <2>3, <3>1, SumScale
  <2>9. SumFunctionOnSet(sp, J) = s[p]
    BY <1>2
  <2>. HIDE DEF I, J, in, out, d, sp
  <2>. QED BY <2>2, <2>5, <2>6, <2>7, <2>8, <2>9
<1>7. Received(x, hub) - Sent(x, hub) = net[hub]
  <2>. DEFINE r == [p \in F |-> Received(x, p)]
              t == [p \in F |-> Sent(x, p)]
              d == [p \in F |-> Received(x, p) - Sent(x, p)]
  <2>1. SumFunctionOnSet(r, F) = SumFunctionOnSet(t, F)
    <3>1. (\A p \in F : r[p] = Received(x, p)) /\ (\A p \in F : t[p] = Sent(x, p))
      OBVIOUS
    <3>. HIDE DEF F, r, t
    <3>2. SumFunctionOnSet(t, F) = SumFunctionOnSet(x, DOMAIN x)
          /\ SumFunctionOnSet(r, F) = SumFunctionOnSet(x, DOMAIN x)
      BY <1>1, <1>4, <3>1, AllSentIsReceived
    <3>. QED BY <3>2
  <2>2. \A p \in F : r[p] \in Int /\ t[p] \in Int /\ d[p] = r[p] - t[p] /\ d[p] \in Int
    BY <1>5
  <2>3. SumFunctionOnSet(d, F) = SumFunctionOnSet(r, F) - SumFunctionOnSet(t, F)
    <3>. HIDE DEF F, r, t, d
    <3>. QED BY <1>1, <2>2, SumMinus
  <2>4. SumFunctionOnSet(r, F) \in Int
    <3>. HIDE DEF F, r
    <3>1. F \in SUBSET F
      OBVIOUS
    <3>. QED BY <1>1, <2>2, <3>1, SumInt
  <2>5. \A p \in rest : d[p] = net[p]
    BY <1>6
  <2>6. hub \in F /\ d[hub] = Received(x, hub) - Sent(x, hub)
    OBVIOUS
  <2>. HIDE DEF r, t, d
  <2>7. SumFunctionOnSet(d, F) = d[hub] + SumFunctionOnSet(d, rest)
    <3>. HIDE DEF F
    <3>. QED BY <1>1, <2>2, <2>6, SumRemove
  <2>8. SumFunctionOnSet(net, F) = net[hub] + SumFunctionOnSet(net, rest)
    <3>. HIDE DEF F
    <3>. QED BY <1>1, <2>6, SumRemove
  <2>9. SumFunctionOnSet(d, rest) = SumFunctionOnSet(net, rest)
    <3>. HIDE DEF rest
    <3>. QED BY <1>1, <2>5, SumSame
  <2>10. SumFunctionOnSet(net, rest) \in Int
    <3>1. rest \in SUBSET F
      OBVIOUS
    <3>. HIDE DEF rest, F
    <3>. QED BY <1>1, <3>1, SumInt
  <2>11. d[hub] \in Int /\ net[hub] \in Int
    BY <1>1, <2>2, <2>6
  <2>. QED BY <2>1, <2>3, <2>4, <2>6, <2>7, <2>8, <2>9, <2>10, <2>11
<1>8. ASSUME NEW f, f \notin F  PROVE Received(x, f) = 0 /\ Sent(x, f) = 0
  <2>1. {arc \in DOMAIN x : arc[1] = f} = {} /\ {arc \in DOMAIN x : arc[2] = f} = {}
    BY <1>4, <1>8
  <2>. QED BY <2>1, SumEmpty DEF Sent, Received
<1>9. \A f \in F : Received(x, f) - Sent(x, f) = net[f]
  BY <1>6, <1>7
<1>. QED BY <1>4, <1>8, <1>9 DEF Moves

\* Flows between any two firms move every net position.
LEMMA FlowsMove ==
  ASSUME NEW net, Positions(net), DOMAIN net \subseteq Firm, DOMAIN net # {},
         SumFunctionOnSet(net, DOMAIN net) = 0, NEW x \in Flows(net)
  PROVE  Moves(x, net)
<1>. DEFINE F == DOMAIN net
            hub == CHOOSE p \in F : TRUE
            rest == F \ {hub}
            order == SetToSeq(rest)
            pairs == {<<order[ij[1]], order[ij[2]]>> :
                        ij \in {ij \in (DOMAIN order) \X (DOMAIN order) : ij[1] < ij[2]}}
            most == SumFunctionOnSet(net, Receivers(net))
            signed(g, p, q) == IF <<p, q>> \in pairs THEN g[<<p, q>>] ELSE -g[<<q, p>>]
            sends(g, p) == SumFunctionOnSet([q \in rest |-> signed(g, p, q)], rest \ {p})
            between(g, p, q) ==
              IF p = hub THEN net[q] + sends(g, q)
              ELSE IF q = hub THEN -net[p] - sends(g, p) ELSE signed(g, p, q)
<1>1. PICK g \in [pairs -> -most .. most] :
        x = [arc \in {pq \in F \X F : pq[1] # pq[2]} |->
               LET n == between(g, arc[1], arc[2]) IN IF n > 0 THEN n ELSE 0]
  BY DEF Flows
<1>2. hub \in F
  OBVIOUS
<1>. HIDE DEF hub
<1>3. IsFiniteSet(F) /\ IsFiniteSet(rest) /\ \A p \in F : net[p] \in Int
  <2>1. IsFiniteSet(F) /\ \A p \in F : net[p] \in Int
    BY DEF Positions
  <2>. QED BY <2>1, FS_RemoveElement
<1>4. most \in Int
  <2>1. Receivers(net) \in SUBSET F
    BY DEF Receivers
  <2>. HIDE DEF F
  <2>. QED BY <1>3, <2>1, SumInt
<1>5. \A a \in pairs : g[a] \in Int
  <2>1. -most .. most \subseteq Int
    BY <1>4
  <2>. HIDE DEF pairs, most
  <2>. QED BY <2>1
<1>6. ASSUME NEW p \in rest, NEW q \in rest, p # q
      PROVE  <<p, q>> \in pairs <=> <<q, p>> \notin pairs
  <2>. DEFINE k == Cardinality(rest)
  <2>1. /\ k \in Nat /\ DOMAIN order = 1 .. k
        /\ \A m, n \in 1 .. k : m # n => order[m] # order[n]
        /\ \A y \in rest : \E n \in 1 .. k : order[n] = y
    <3>. HIDE DEF rest
    <3>. QED BY <1>3, SetToSeqLists
  <2>. HIDE DEF order, k
  <2>2. PICK m \in 1 .. k : order[m] = p
    BY <2>1
  <2>3. PICK n \in 1 .. k : order[n] = q
    BY <2>1
  <2>4. m # n /\ m \in Nat /\ n \in Nat
    BY <1>6, <2>1, <2>2, <2>3
  <2>5. ASSUME NEW i \in 1 .. k, NEW j \in 1 .. k
        PROVE  <<order[i], order[j]>> \in pairs <=> i < j
    <3>1. i < j => <<order[i], order[j]>> \in pairs
      <4>. SUFFICES ASSUME i < j  PROVE <<order[i], order[j]>> \in pairs
        OBVIOUS
      <4>. DEFINE z == <<i, j>>
      <4>1. z \in {ij \in (DOMAIN order) \X (DOMAIN order) : ij[1] < ij[2]}
        BY <2>1
      <4>. QED BY <4>1
    <3>2. ASSUME <<order[i], order[j]>> \in pairs  PROVE i < j
      <4>1. PICK z \in {ij \in (DOMAIN order) \X (DOMAIN order) : ij[1] < ij[2]} :
              <<order[i], order[j]>> = <<order[z[1]], order[z[2]]>>
        BY <3>2
      <4>2. order[i] = order[z[1]] /\ order[j] = order[z[2]]
            /\ z[1] \in 1 .. k /\ z[2] \in 1 .. k /\ z[1] < z[2]
        BY <2>1, <4>1
      <4>3. i = z[1] /\ j = z[2]
        BY <2>1, <4>2
      <4>. QED BY <4>2, <4>3
    <3>. QED BY <3>1, <3>2
  <2>6. (<<order[m], order[n]>> \in pairs <=> m < n)
        /\ (<<order[n], order[m]>> \in pairs <=> n < m)
    BY <2>5
  <2>. HIDE DEF pairs
  <2>7. (<<p, q>> \in pairs <=> m < n) /\ (<<q, p>> \in pairs <=> n < m)
    BY <2>2, <2>3, <2>6
  <2>. QED BY <2>4, <2>7
<1>. HIDE DEF pairs, most
<1>7. ASSUME NEW p \in rest, NEW q \in rest, p # q
      PROVE  signed(g, p, q) \in Int /\ signed(g, q, p) = -signed(g, p, q)
  <2>1. CASE <<p, q>> \in pairs
    BY <1>5, <1>6, <1>7, <2>1
  <2>2. CASE <<q, p>> \in pairs
    BY <1>5, <1>6, <1>7, <2>2
  <2>. QED BY <1>6, <1>7, <2>1, <2>2
<1>. HIDE DEF signed
<1>. DEFINE A == ArcsOf(F)
            b == [arc \in A |-> between(g, arc[1], arc[2])]
            s == [p \in F |-> sends(g, p)]
<1>8. DOMAIN x = A /\ \A arc \in A : x[arc] = IF b[arc] > 0 THEN b[arc] ELSE 0
  BY <1>1 DEF ArcsOf
<1>9. ASSUME NEW p \in rest
      PROVE  /\ sends(g, p) = SumFunctionOnSet([q \in rest \ {p} |-> b[<<p, q>>]], rest \ {p})
             /\ sends(g, p) \in Int
  <2>. DEFINE J == rest \ {p}
              f == [q \in rest |-> signed(g, p, q)]
              h == [q \in J |-> b[<<p, q>>]]
  <2>1. IsFiniteSet(J)
    <3>. HIDE DEF rest
    <3>. QED BY <1>3, FS_RemoveElement
  <2>2. ASSUME NEW q \in J  PROVE f[q] = h[q] /\ f[q] \in Int
    <3>1. <<p, q>> \in A /\ p # hub /\ q # hub
      BY <1>2 DEF ArcsOf
    <3>2. b[<<p, q>>] = signed(g, p, q)
      BY <3>1
    <3>. QED BY <1>7, <3>2
  <2>3. SumFunctionOnSet(f, J) = SumFunctionOnSet(h, J)
    <3>. HIDE DEF J, f, h
    <3>. QED BY <2>1, <2>2, SumSame
  <2>4. SumFunctionOnSet(f, J) \in Int
    <3>1. J \in SUBSET J
      OBVIOUS
    <3>. HIDE DEF J, f
    <3>. QED BY <2>1, <2>2, <3>1, SumInt
  <2>. QED BY <2>3, <2>4
<1>. HIDE DEF sends
<1>10. Through(b, s, hub, net)
  <2>1. ASSUME NEW p \in rest, NEW q \in rest, p # q
        PROVE  b[<<p, q>>] \in Int /\ b[<<q, p>>] = -b[<<p, q>>]
    <3>1. <<p, q>> \in A /\ <<q, p>> \in A /\ p # hub /\ q # hub
      BY <2>1 DEF ArcsOf
    <3>2. b[<<p, q>>] = signed(g, p, q) /\ b[<<q, p>>] = signed(g, q, p)
      BY <3>1
    <3>. QED BY <1>7, <2>1, <3>2
  <2>2. ASSUME NEW p \in rest
        PROVE  /\ b[<<hub, p>>] = net[p] + s[p]
               /\ s[p] = SumFunctionOnSet([q \in rest \ {p} |-> b[<<p, q>>]], rest \ {p})
               /\ b[<<p, hub>>] = -b[<<hub, p>>]
    <3>1. <<hub, p>> \in A /\ <<p, hub>> \in A /\ p # hub
      BY <1>2 DEF ArcsOf
    <3>2. b[<<hub, p>>] = net[p] + sends(g, p) /\ b[<<p, hub>>] = -net[p] - sends(g, p)
      BY <3>1
    <3>3. s[p] = sends(g, p) /\ sends(g, p) \in Int /\ net[p] \in Int
      BY <1>3, <1>9
    <3>4. s[p] = SumFunctionOnSet([q \in rest \ {p} |-> b[<<p, q>>]], rest \ {p})
      <4>. HIDE DEF b
      <4>. QED BY <1>9, <3>3
    <3>. QED BY <3>2, <3>3, <3>4
  <2>. HIDE DEF b, s
  <2>. QED BY <2>1, <2>2 DEF Through
<1>. HIDE DEF b, s
<1>11. Moves(x, net)
  <2>1. \A arc \in ArcsOf(DOMAIN net) : x[arc] = IF b[arc] > 0 THEN b[arc] ELSE 0
    BY <1>8
  <2>. QED BY <1>2, <1>8, <1>10, <2>1, HubMoves
<1>. QED BY <1>11

LEMMA InOneCurrency ==
  ASSUME NEW S \in SUBSET Obl, NEW c \in Currencies(S), NEW T \in SUBSET InCurrency(S, c)
  PROVE  /\ T \in SUBSET Obl /\ T \in SUBSET S /\ c \in Currency
         /\ \A o \in T : OblTerms[o].currency = c
  BY BookCurrencies DEF InCurrency

LEMMA NothingDue ==
  ASSUME NEW S \in SUBSET Obl, NEW c \in Currency, NEW f \in Firm, f \notin Involved(S)
  PROVE  NetOfCur(Facts(S), f, c) = 0
<1>1. CASE S # {}
  BY <1>1, OutsidersUntouched
<1>2. CASE S = {}
  <2>. DEFINE T == [d \in Currencies(S) |-> InCurrency(S, d)]
  <2>1. Currencies(S) = {}
    BY <1>2 DEF Currencies
  <2>2. /\ \A d \in Currencies(S) : T[d] \subseteq InCurrency(S, d)
        /\ S = UNION {T[d] : d \in Currencies(S)} /\ c \notin Currencies(S)
    BY <1>2, <2>1
  <2>. HIDE DEF T
  <2>. QED BY <2>2, NetOfUnion
<1>. QED BY <1>1, <1>2

\* A flow in c brings every firm what the obligations T are to bring it.
Balanced(x, T, c) ==
  \A f \in Firm : Received(x, f) - Sent(x, f) = NetOfCur(Facts(T), f, c)

LEMMA BalancedIf ==
  ASSUME NEW net, NEW x, Moves(x, net), NEW T \in SUBSET Obl, NEW c \in Currency,
         Involved(T) \subseteq DOMAIN net,
         \A p \in Firm : p \in DOMAIN net => net[p] = NetOfCur(Facts(T), p, c)
  PROVE  Balanced(x, T, c)
<1>. SUFFICES ASSUME NEW f \in Firm
              PROVE  Received(x, f) - Sent(x, f) = NetOfCur(Facts(T), f, c)
  BY DEF Balanced
<1>1. CASE f \in DOMAIN net
  BY <1>1 DEF Moves
<1>2. CASE f \notin DOMAIN net
  <2>1. NetOfCur(Facts(T), f, c) = 0
    BY <1>2, NothingDue
  <2>2. Received(x, f) = 0 /\ Sent(x, f) = 0
    BY <1>2 DEF Moves
  <2>. QED BY <2>1, <2>2
<1>. QED BY <1>1, <1>2

\* The flows of the strict solver, for what is owed in one currency.
DirectIn(S, c) == DirectFlows(NetPositions(InCurrency(S, c)))

LEMMA PositionsInOne ==
  ASSUME NEW S \in SUBSET Obl, NEW c \in Currencies(S)
  PROVE  LET net == NetPositions(InCurrency(S, c)) IN
         /\ Positions(net) /\ DOMAIN net = Involved(InCurrency(S, c)) /\ DOMAIN net # {}
         /\ DOMAIN net \subseteq Firm /\ SumFunctionOnSet(net, DOMAIN net) = 0
         /\ \A p \in Firm : p \in DOMAIN net => net[p] = NetOfCur(Facts(InCurrency(S, c)), p, c)
<1>. DEFINE T == InCurrency(S, c)
            net == NetPositions(T)
<1>1. T \in SUBSET Obl /\ c \in Currency /\ \A o \in T : OblTerms[o].currency = c
  BY InOneCurrency
<1>2. T # {} /\ Involved(T) # {}
  BY DEF InCurrency, Currencies, Involved
<1>. HIDE DEF T
<1>3. /\ DOMAIN net = Involved(T) /\ Involved(T) \subseteq Firm /\ IsFiniteSet(Involved(T))
      /\ \A p \in Involved(T) : net[p] = NetOfCur(Facts(T), p, c) /\ net[p] \in Int
      /\ SumFunctionOnSet(net, Involved(T)) = 0
  BY <1>1, NetOne
<1>. HIDE DEF net
<1>4. Positions(net)
  BY <1>3 DEF Positions
<1>. QED BY <1>2, <1>3, <1>4 DEF net, T

LEMMA DirectBalances ==
  ASSUME NEW S \in SUBSET Obl, NEW c \in Currencies(S), NEW x \in DirectIn(S, c)
  PROVE  FlowOK(x) /\ Balanced(x, InCurrency(S, c), c)
<1>. DEFINE T == InCurrency(S, c)
            net == NetPositions(T)
<1>1. T \in SUBSET Obl /\ c \in Currency
  BY InOneCurrency
<1>2. /\ Positions(net) /\ DOMAIN net = Involved(T) /\ DOMAIN net \subseteq Firm
      /\ \A p \in Firm : p \in DOMAIN net => net[p] = NetOfCur(Facts(T), p, c)
  BY PositionsInOne
<1>3. x \in DirectFlows(net)
  BY DEF DirectIn
<1>. HIDE DEF net, T
<1>4. Moves(x, net)
  BY <1>2, <1>3, DirectFlowMoves
<1>5. Balanced(x, T, c)
  <2>1. Involved(T) \subseteq DOMAIN net
    BY <1>2
  <2>. QED BY <1>1, <1>2, <1>4, <2>1, BalancedIf
<1>. QED BY <1>4, <1>5 DEF Moves, T

LEMMA FlowBalances ==
  ASSUME NEW S \in SUBSET Obl, NEW c \in Currencies(S), NEW T \in SUBSET InCurrency(S, c),
         NEW x \in Flows(NetSettled(InCurrency(S, c), T))
  PROVE  FlowOK(x) /\ Balanced(x, T, c)
<1>. DEFINE B == InCurrency(S, c)
            net == NetSettled(B, T)
            F == Involved(B)
<1>1. /\ T \in SUBSET Obl /\ c \in Currency /\ (\A o \in T : OblTerms[o].currency = c)
      /\ B \in SUBSET Obl /\ (\A o \in B : OblTerms[o].currency = c)
  BY InOneCurrency
<1>2. B # {} /\ F # {} /\ Involved(T) \subseteq F
  <2>1. B # {}
    BY DEF InCurrency, Currencies
  <2>2. T \subseteq B
    OBVIOUS
  <2>. HIDE DEF B
  <2>. QED BY <2>1, <2>2 DEF Involved
<1>3. F \subseteq Firm /\ IsFiniteSet(F)
  BY <1>1, BookCurrencies
<1>. HIDE DEF B
<1>4. /\ Involved(T) \subseteq Firm /\ IsFiniteSet(Involved(T))
      /\ \A p \in Involved(T) : /\ NetPositions(T)[p] = NetOfCur(Facts(T), p, c)
                                /\ NetPositions(T)[p] \in Int
      /\ SumFunctionOnSet(NetPositions(T), Involved(T)) = 0
  BY <1>1, NetOne
<1>5. DOMAIN net = F
  BY DEF NetSettled
<1>6. ASSUME NEW p \in F
      PROVE  /\ net[p] = IF p \in Involved(T) THEN NetPositions(T)[p] ELSE 0
             /\ net[p] = NetOfCur(Facts(T), p, c) /\ net[p] \in Int
  <2>1. net[p] = IF p \in Involved(T) THEN NetPositions(T)[p] ELSE 0
    BY DEF NetSettled
  <2>2. p \notin Involved(T) => NetOfCur(Facts(T), p, c) = 0
    BY <1>1, <1>3, NothingDue
  <2>. QED BY <1>4, <2>1, <2>2
<1>7. SumFunctionOnSet(net, F) = 0
  <2>. DEFINE I == Involved(T)
              part == [p \in F |-> IF p \in I THEN NetPositions(T)[p] ELSE 0]
  <2>1. SumFunctionOnSet(NetPositions(T), I) = SumFunctionOnSet(part, F)
    <3>1. I \in SUBSET F /\ \A p \in I : NetPositions(T)[p] \in Int
      BY <1>2, <1>4
    <3>. HIDE DEF I, F
    <3>. QED BY <1>3, <3>1, SumPart
  <2>2. \A p \in F : part[p] = net[p]
    BY <1>6
  <2>. HIDE DEF part, F, net
  <2>3. SumFunctionOnSet(part, F) = SumFunctionOnSet(net, F)
    BY <1>3, <2>2, SumSame
  <2>. QED BY <1>4, <2>1, <2>3
<1>8. x \in Flows(net)
  BY DEF B
<1>. HIDE DEF net
<1>9. Positions(net) /\ DOMAIN net \subseteq Firm /\ DOMAIN net # {}
        /\ SumFunctionOnSet(net, DOMAIN net) = 0
  BY <1>2, <1>3, <1>5, <1>6, <1>7 DEF Positions
<1>. HIDE DEF F
<1>10. Moves(x, net)
  BY <1>8, <1>9, FlowsMove
<1>11. Balanced(x, T, c)
  <2>1. /\ Involved(T) \subseteq DOMAIN net
        /\ \A p \in Firm : p \in DOMAIN net => net[p] = NetOfCur(Facts(T), p, c)
    BY <1>2, <1>5, <1>6
  <2>. QED BY <1>1, <1>10, <2>1, BalancedIf
<1>. QED BY <1>10, <1>11 DEF Moves

-----------------------------------------------------------------------------
(* What the planners return.                                               *)

LEMMA SolveFlows ==
  ASSUME NEW S \in SUBSET Obl, NEW K, NEW w, NEW r \in Solve(S, K, w)
  PROVE  \E T, x : /\ PlanOf(S, r, T, x)
                   /\ \A c \in Currencies(S) : /\ T[c] = InCurrency(S, c)
                                               /\ x[c] \in DirectIn(S, c)
                                               /\ WithinCaps(x[c], K, c)
<1>. DEFINE plans == [c \in Currencies(S) |-> SolveOneCurrency(S, c, K, w)]
            flows(c) == {x \in DirectIn(S, c) : WithinCaps(x, K, c)}
            X == [c \in Currencies(S) |->
                    {[settled |-> InCurrency(S, c), flow |-> x] : x \in flows(c)}]
<1>1. FromFlows(plans, S, X)
  <2>. SUFFICES ASSUME NEW c \in Currencies(S), NEW q \in plans[c]
                PROVE  \E o \in X[c] :
                         /\ o.settled \subseteq InCurrency(S, c) /\ FlowOK(o.flow)
                         /\ q.obligations = o.settled /\ q.legs = LegsOf(o.flow, c)
    BY DEF FromFlows
  <2>1. PICK x \in Cheapest(flows(c), w) :
          q = [obligations |-> InCurrency(S, c), legs |-> LegsOf(x, c)]
    BY DEF SolveOneCurrency, DirectIn
  <2>2. x \in flows(c)
    BY DEF Cheapest
  <2>3. FlowOK(x)
    BY <2>2, DirectBalances
  <2>. DEFINE o == [settled |-> InCurrency(S, c), flow |-> x]
  <2>4. o \in X[c] /\ o.settled = InCurrency(S, c) /\ o.flow = x
    BY <2>2
  <2>. HIDE DEF o, X
  <2>. QED BY <2>1, <2>3, <2>4
<1>2. r \in Combined(plans)
  BY DEF Solve
<1>. HIDE DEF plans
<1>3. PICK T, x : /\ PlanOf(S, r, T, x)
                  /\ \A c \in Currencies(S) : \E o \in X[c] : T[c] = o.settled /\ x[c] = o.flow
  <2>. HIDE DEF X
  <2>. QED BY <1>1, <1>2, PlanExists
<1>4. \A c \in Currencies(S) : /\ T[c] = InCurrency(S, c)
                               /\ x[c] \in DirectIn(S, c) /\ WithinCaps(x[c], K, c)
  BY <1>3
<1>. QED BY <1>3, <1>4

LEMMA MaximalFlows ==
  ASSUME NEW S \in SUBSET Obl, NEW K, NEW A, NEW w, NEW r \in SolveMaximal(S, K, A, w)
  PROVE  \E T, x : /\ PlanOf(S, r, T, x)
                   /\ \A c \in Currencies(S) :
                        /\ T[c] \in SUBSET InCurrency(S, c)
                        /\ x[c] \in Flows(NetSettled(InCurrency(S, c), T[c]))
                        /\ WithinCaps(x[c], K, c) /\ WithinAggregates(x[c], A, c)
<1>. DEFINE plans == [c \in Currencies(S) |-> SolveOneCurrencyMaximal(S, c, K, A, w)]
            allowed(c, T) == {x \in Flows(NetSettled(InCurrency(S, c), T)) :
                                WithinCaps(x, K, c) /\ WithinAggregates(x, A, c)}
            X == [c \in Currencies(S) |->
                    UNION {{[settled |-> T, flow |-> x] : x \in allowed(c, T)} :
                             T \in SUBSET InCurrency(S, c)}]
<1>1. FromFlows(plans, S, X)
  <2>. SUFFICES ASSUME NEW c \in Currencies(S), NEW q \in plans[c]
                PROVE  \E o \in X[c] :
                         /\ o.settled \subseteq InCurrency(S, c) /\ FlowOK(o.flow)
                         /\ q.obligations = o.settled /\ q.legs = LegsOf(o.flow, c)
    BY DEF FromFlows
  <2>1. PICK o \in UNION {{[settled |-> T, flow |-> x] : x \in Cheapest(allowed(c, T), w)} :
                            T \in SUBSET InCurrency(S, c)} :
          q = [obligations |-> o.settled, legs |-> LegsOf(o.flow, c)]
    BY DEF SolveOneCurrencyMaximal
  <2>2. PICK T \in SUBSET InCurrency(S, c) :
          o \in {[settled |-> T, flow |-> x] : x \in Cheapest(allowed(c, T), w)}
    BY <2>1
  <2>3. PICK x \in Cheapest(allowed(c, T), w) : o = [settled |-> T, flow |-> x]
    BY <2>2
  <2>4. x \in allowed(c, T)
    BY DEF Cheapest
  <2>5. FlowOK(x)
    BY <2>4, FlowBalances
  <2>6. o \in X[c] /\ o.settled = T /\ o.flow = x
    BY <2>3, <2>4
  <2>. HIDE DEF X
  <2>. QED BY <2>1, <2>5, <2>6
<1>2. r \in Combined(plans)
  BY DEF SolveMaximal
<1>. HIDE DEF plans
<1>3. PICK T, x : /\ PlanOf(S, r, T, x)
                  /\ \A c \in Currencies(S) : \E o \in X[c] : T[c] = o.settled /\ x[c] = o.flow
  <2>. HIDE DEF X
  <2>. QED BY <1>1, <1>2, PlanExists
<1>4. ASSUME NEW c \in Currencies(S)
      PROVE  /\ T[c] \in SUBSET InCurrency(S, c)
             /\ x[c] \in Flows(NetSettled(InCurrency(S, c), T[c]))
             /\ WithinCaps(x[c], K, c) /\ WithinAggregates(x[c], A, c)
  <2>1. PICK o \in X[c] : T[c] = o.settled /\ x[c] = o.flow
    BY <1>3
  <2>2. PICK U \in SUBSET InCurrency(S, c) :
          o \in {[settled |-> U, flow |-> y] : y \in allowed(c, U)}
    BY <2>1
  <2>3. PICK y \in allowed(c, U) : o = [settled |-> U, flow |-> y]
    BY <2>2
  <2>4. T[c] = U /\ x[c] = y
    BY <2>1, <2>3
  <2>. QED BY <2>3, <2>4
<1>. QED BY <1>3, <1>4

\* The legs bring every firm what the obligations settled were to bring it.
LEMMA PlanConserves ==
  ASSUME NEW S \in SUBSET Obl, NEW r, NEW T, NEW x, PlanOf(S, r, T, x),
         \A c \in Currencies(S) : Balanced(x[c], T[c], c)
  PROVE  /\ r.obligations \in SUBSET Obl /\ r.legs \in Seq(Transfer)
         /\ \A f \in Firm, d \in Currency :
              NetOfCur(Facts(r.obligations), f, d) = NetOfCur(r.legs, f, d)
<1>1. /\ r.obligations = UNION {T[c] : c \in Currencies(S)} /\ r.legs \in Seq(Transfer)
      /\ \A c \in Currencies(S) : T[c] \subseteq InCurrency(S, c)
  BY DEF PlanOf
<1>2. r.obligations \in SUBSET Obl
  BY <1>1, BookCurrencies DEF InCurrency
<1>3. ASSUME NEW f \in Firm, NEW d \in Currency
      PROVE  NetOfCur(Facts(r.obligations), f, d) = NetOfCur(r.legs, f, d)
  <2>1. NetOfCur(r.legs, f, d)
          = SeqTotal(Brings(f, d), r.legs) - SeqTotal(Takes(f, d), r.legs)
    BY <1>1, LegSums
  <2>2. /\ SeqTotal(Takes(f, d), r.legs) = IF d \in Currencies(S) THEN Sent(x[d], f) ELSE 0
        /\ SeqTotal(Brings(f, d), r.legs) = IF d \in Currencies(S) THEN Received(x[d], f) ELSE 0
    BY DEF PlanOf
  <2>3. /\ d \in Currencies(S) => NetOfCur(Facts(r.obligations), f, d) = NetOfCur(Facts(T[d]), f, d)
        /\ d \notin Currencies(S) => NetOfCur(Facts(r.obligations), f, d) = 0
    BY <1>1, NetOfUnion
  <2>4. d \in Currencies(S) =>
          Received(x[d], f) - Sent(x[d], f) = NetOfCur(Facts(T[d]), f, d)
    BY DEF Balanced
  <2>5. CASE d \in Currencies(S)
    BY <2>1, <2>2, <2>3, <2>4, <2>5
  <2>6. CASE d \notin Currencies(S)
    BY <2>1, <2>2, <2>3, <2>6
  <2>. QED BY <2>5, <2>6
<1>. QED BY <1>1, <1>2, <1>3

\* Limits on the flows are limits on the legs.
LEMMA PlanWithinCaps ==
  ASSUME NEW S \in SUBSET Obl, NEW r, NEW T, NEW x, PlanOf(S, r, T, x),
         NEW B, B.residualLegs = r.legs, B.creditLimits \subseteq CreditLimit,
         \A c \in Currencies(S) : WithinCaps(x[c], B.creditLimits, c)
  PROVE  WithinCreditLimits(B)
<1>. DEFINE legs == B.residualLegs
<1>. SUFFICES ASSUME NEW k \in B.creditLimits
              PROVE  TotalOf(legs, {i \in In(legs, CreditTerms[k].currency) :
                                      /\ legs[i].sender = CreditTerms[k].from
                                      /\ legs[i].receiver = CreditTerms[k].to})
                       <= CreditTerms[k].limit
  BY DEF WithinCreditLimits
<1>. DEFINE f == CreditTerms[k].from
            g == CreditTerms[k].to
            d == CreditTerms[k].currency
            l == CreditTerms[k].limit
<1>1. d \in Currency /\ l \in Nat
  BY LimitTerms
<1>2. legs \in Seq(Transfer) /\ legs = r.legs
  BY DEF PlanOf
<1>3. d \in Currencies(S) /\ <<f, g>> \in DOMAIN x[d] => x[d][<<f, g>>] <= l
  BY DEF WithinCaps
<1>. HIDE DEF f, g, d, l, legs
<1>4. TotalOf(legs, {i \in In(legs, d) : legs[i].sender = f /\ legs[i].receiver = g})
        = SeqTotal(Passes(f, g, d), legs)
  BY <1>2, LegSums
<1>5. SeqTotal(Passes(f, g, d), legs)
        = IF d \in Currencies(S) /\ <<f, g>> \in DOMAIN x[d] THEN x[d][<<f, g>>] ELSE 0
  BY <1>1, <1>2 DEF PlanOf
<1>6. TotalOf(legs, {i \in In(legs, d) : legs[i].sender = f /\ legs[i].receiver = g}) <= l
  BY <1>1, <1>3, <1>4, <1>5
<1>. QED BY <1>6 DEF f, g, d, l, legs

LEMMA PlanWithinAggregates ==
  ASSUME NEW S \in SUBSET Obl, NEW r, NEW T, NEW x, PlanOf(S, r, T, x),
         NEW B, B.residualLegs = r.legs, B.aggregateLimits \subseteq AggregateLimit,
         \A c \in Currencies(S) : WithinAggregates(x[c], B.aggregateLimits, c)
  PROVE  WithinAggregateLimits(B)
<1>. DEFINE legs == B.residualLegs
<1>. SUFFICES ASSUME NEW k \in B.aggregateLimits
              PROVE  OutOf(legs, AggregateTerms[k].party, AggregateTerms[k].currency)
                       <= AggregateTerms[k].limit
  BY DEF WithinAggregateLimits
<1>. DEFINE f == AggregateTerms[k].party
            d == AggregateTerms[k].currency
            l == AggregateTerms[k].limit
<1>1. d \in Currency /\ l \in Nat
  BY LimitTerms
<1>2. legs \in Seq(Transfer) /\ legs = r.legs
  BY DEF PlanOf
<1>3. d \in Currencies(S) => Sent(x[d], f) <= l
  BY DEF WithinAggregates
<1>. HIDE DEF f, d, l, legs
<1>4. OutOf(legs, f, d) = SeqTotal(Takes(f, d), legs)
  BY <1>2, LegSums
<1>5. SeqTotal(Takes(f, d), legs) = IF d \in Currencies(S) THEN Sent(x[d], f) ELSE 0
  BY <1>1, <1>2 DEF PlanOf
<1>6. OutOf(legs, f, d) <= l
  BY <1>1, <1>3, <1>4, <1>5
<1>. QED BY <1>6 DEF f, d, l, legs

\* A leg brings its receiver something.
LEMMA LegBrings ==
  ASSUME NEW legs \in Seq(Transfer), NEW i \in DOMAIN legs
  PROVE  SeqTotal(Brings(legs[i].receiver, legs[i].currency), legs) > 0
<1>. DEFINE v == Brings(legs[i].receiver, legs[i].currency)
            I == 1 .. Len(legs)
            f == [n \in I |-> v[legs[n]]]
<1>1. i \in I /\ \A n \in I : legs[n] \in Transfer /\ legs[n].amount \in Nat \ {0}
  <2>1. i \in I /\ \A n \in I : legs[n] \in Transfer
    OBVIOUS
  <2>2. \A t \in Transfer : t.amount \in Nat \ {0}
    BY DEF Transfer, Amount
  <2>. QED BY <2>1, <2>2
<1>2. (\A n \in I : f[n] \in Nat) /\ f[i] # 0
  <2>1. ASSUME NEW t \in Transfer  PROVE v[t] \in Nat
    BY DEF Brings, Transfer, Amount
  <2>2. v[legs[i]] = legs[i].amount
    BY <1>1 DEF Brings
  <2>. HIDE DEF v
  <2>. QED BY <1>1, <2>1, <2>2
<1>3. IsFiniteSet(I)
  BY FS_Interval
<1>. HIDE DEF f, I
<1>4. SumFunctionOnSet(f, I) > 0
  BY <1>1, <1>2, <1>3, SumPositive
<1>. QED BY <1>4 DEF SeqTotal, f, I

\* The strict solver's legs go to firms of the book.
LEMMA SolveReceivers ==
  ASSUME NEW S \in SUBSET Obl, NEW r, NEW T, NEW x, PlanOf(S, r, T, x),
         \A c \in Currencies(S) : x[c] \in DirectIn(S, c),
         NEW i \in DOMAIN r.legs
  PROVE  r.legs[i].receiver \in Involved(S)
<1>0. \A f : \A d \in Currency :
        SeqTotal(Brings(f, d), r.legs) = IF d \in Currencies(S) THEN Received(x[d], f) ELSE 0
  BY DEF PlanOf
<1>. DEFINE f == r.legs[i].receiver
            d == r.legs[i].currency
<1>1. r.legs \in Seq(Transfer)
  BY DEF PlanOf
<1>2. d \in Currency
  <2>1. r.legs[i] \in Transfer
    BY <1>1
  <2>2. \A t \in Transfer : t.currency \in Currency
    BY DEF Transfer
  <2>. QED BY <2>1, <2>2
<1>3. SeqTotal(Brings(f, d), r.legs) > 0
  BY <1>1, LegBrings
<1>. HIDE DEF f, d
<1>4. SeqTotal(Brings(f, d), r.legs) = IF d \in Currencies(S) THEN Received(x[d], f) ELSE 0
  BY <1>0, <1>2
<1>5. d \in Currencies(S) /\ Received(x[d], f) > 0
  BY <1>3, <1>4
<1>. DEFINE T1 == InCurrency(S, d)
            net == NetPositions(T1)
<1>6. Positions(net) /\ DOMAIN net = Involved(T1) /\ DOMAIN net \subseteq Firm
  BY <1>5, PositionsInOne
<1>7. Received(x[d], f) = IF f \in Receivers(net) THEN net[f] ELSE 0
  <2>1. x[d] \in DirectFlows(net)
    BY <1>5 DEF DirectIn
  <2>. HIDE DEF net
  <2>. QED BY <1>6, <2>1, DirectMoves
<1>8. f \in Involved(T1)
  BY <1>5, <1>6, <1>7 DEF Receivers
<1>9. T1 \subseteq S
  BY DEF InCurrency
<1>. QED BY <1>8, <1>9 DEF Involved, f

\* What the strict solver moves of a currency is what its payers owe, net.
LEMMA SolveGross ==
  ASSUME NEW S \in SUBSET Obl, NEW r, NEW T, NEW x, PlanOf(S, r, T, x),
         \A c \in Currencies(S) : T[c] = InCurrency(S, c) /\ x[c] \in DirectIn(S, c),
         NEW c \in Currency, NEW l,
         \A f \in Firm : l[f] = IF NetOfCur(Facts(S), f, c) < 0
                                THEN -NetOfCur(Facts(S), f, c) ELSE 0
  PROVE  GrossOf(r.legs, c) = SumFunctionOnSet(l, Firm)
<1>1. r.legs \in Seq(Transfer) /\ r.legs \in [DOMAIN r.legs -> Transfer] /\ IsFiniteSet(DOMAIN r.legs)
  <2>1. r.legs \in Seq(Transfer)
    BY DEF PlanOf
  <2>2. IsFiniteSet(1 .. Len(r.legs))
    BY <2>1, FS_Interval
  <2>. QED BY <2>1, <2>2
<1>. DEFINE out == [f \in Firm |-> OutOf(r.legs, f, c)]
<1>2. SumFunctionOnSet(out, Firm) = GrossOf(r.legs, c)
  BY <1>1, GrossFlows
<1>3. ASSUME NEW f \in Firm  PROVE out[f] = l[f]
  <2>1. out[f] = SeqTotal(Takes(f, c), r.legs)
    BY <1>1, LegSums
  <2>2. SeqTotal(Takes(f, c), r.legs) = IF c \in Currencies(S) THEN Sent(x[c], f) ELSE 0
    BY DEF PlanOf
  <2>3. S = UNION {InCurrency(S, d) : d \in Currencies(S)}
    BY DEF InCurrency, Currencies
  <2>. DEFINE U == [d \in Currencies(S) |-> InCurrency(S, d)]
  <2>4. /\ \A d \in Currencies(S) : U[d] \subseteq InCurrency(S, d)
        /\ S = UNION {U[d] : d \in Currencies(S)}
    BY <2>3
  <2>5. /\ c \in Currencies(S) => NetOfCur(Facts(S), f, c) = NetOfCur(Facts(U[c]), f, c)
        /\ c \notin Currencies(S) => NetOfCur(Facts(S), f, c) = 0
    <3>. HIDE DEF U
    <3>. QED BY <2>4, NetOfUnion
  <2>6. CASE c \notin Currencies(S)
    BY <2>1, <2>2, <2>5, <2>6
  <2>7. CASE c \in Currencies(S)
    <3>. DEFINE T1 == InCurrency(S, c)
                net == NetPositions(T1)
    <3>1. /\ Positions(net) /\ DOMAIN net = Involved(T1) /\ DOMAIN net \subseteq Firm
          /\ \A p \in Firm : p \in DOMAIN net => net[p] = NetOfCur(Facts(T1), p, c)
      BY <2>7, PositionsInOne
    <3>2. Sent(x[c], f) = IF f \in Payers(net) THEN -net[f] ELSE 0
      <4>1. x[c] \in DirectFlows(net)
        BY <2>7 DEF DirectIn
      <4>. HIDE DEF net
      <4>. QED BY <3>1, <4>1, DirectMoves
    <3>3. NetOfCur(Facts(S), f, c) = NetOfCur(Facts(T1), f, c)
      BY <2>5, <2>7
    <3>4. f \notin DOMAIN net => NetOfCur(Facts(T1), f, c) = 0
      <4>1. T1 \in SUBSET Obl
        BY <2>7, InOneCurrency
      <4>. HIDE DEF T1
      <4>. QED BY <3>1, <4>1, NothingDue
    <3>5. l[f] = IF NetOfCur(Facts(T1), f, c) < 0 THEN -NetOfCur(Facts(T1), f, c) ELSE 0
      BY <3>3
    <3>. HIDE DEF net, T1
    <3>6. Sent(x[c], f) = l[f]
      BY <3>1, <3>2, <3>4, <3>5 DEF Payers
    <3>. QED BY <2>1, <2>2, <2>7, <3>6
  <2>. QED BY <2>6, <2>7
<1>4. SumFunctionOnSet(out, Firm) = SumFunctionOnSet(l, Firm)
  <2>. HIDE DEF out
  <2>. QED BY <1>3, FiniteLedger, SumSame
<1>. QED BY <1>2, <1>4

-----------------------------------------------------------------------------
(* Types of the plans for one currency.                                    *)

LEMMA OneCurrencyBook ==
  ASSUME NEW S \in SUBSET Obl, NEW c, Currencies(S) = {c}
  PROVE  /\ c \in Currency /\ S # {} /\ InCurrency(S, c) = S
         /\ Positions(NetPositions(S)) /\ DOMAIN NetPositions(S) = Involved(S)
         /\ Involved(S) \subseteq Firm
         /\ SumFunctionOnSet(NetPositions(S), DOMAIN NetPositions(S)) = 0
         /\ \A p \in Firm : p \in Involved(S) => NetPositions(S)[p] = NetOfCur(Facts(S), p, c)
<1>1. c \in Currencies(S)
  OBVIOUS
<1>2. InCurrency(S, c) = S /\ S # {} /\ c \in Currency
  <2>1. \A o \in S : OblTerms[o].currency = c
    BY DEF Currencies
  <2>2. S # {}
    BY <1>1 DEF Currencies
  <2>3. Currencies(S) \subseteq Currency
    BY BookCurrencies
  <2>4. InCurrency(S, c) = S
    BY <2>1 DEF InCurrency
  <2>. QED BY <1>1, <2>2, <2>3, <2>4
<1>3. /\ Positions(NetPositions(InCurrency(S, c)))
      /\ DOMAIN NetPositions(InCurrency(S, c)) = Involved(InCurrency(S, c))
      /\ DOMAIN NetPositions(InCurrency(S, c)) \subseteq Firm
      /\ SumFunctionOnSet(NetPositions(InCurrency(S, c)),
                          DOMAIN NetPositions(InCurrency(S, c))) = 0
      /\ \A p \in Firm : p \in DOMAIN NetPositions(InCurrency(S, c)) =>
           NetPositions(InCurrency(S, c))[p] = NetOfCur(Facts(InCurrency(S, c)), p, c)
  BY <1>1, PositionsInOne
<1>. QED BY <1>2, <1>3

LEMMA GreedyTyped ==
  ASSUME NEW S \in SUBSET Obl, NEW c, Currencies(S) = {c}
  PROVE  /\ MinimalSettlement(S, c) \in Seq(Transfer)
         /\ Match(NetPositions(S)) \in Seq(MatchLeg(NetPositions(S)))
<1>. DEFINE net == NetPositions(S)
            legs == Match(net)
            q == MinimalSettlement(S, c)
<1>1. /\ Positions(net) /\ DOMAIN net \subseteq Firm /\ c \in Currency
      /\ SumFunctionOnSet(net, DOMAIN net) = 0
  BY OneCurrencyBook
<1>. HIDE DEF net
<1>2. legs \in Seq(MatchLeg(net))
  BY <1>1, MatchSettles
<1>3. q = [i \in DOMAIN legs |-> [sender |-> legs[i].sender, receiver |-> legs[i].receiver,
                                  amount |-> legs[i].amount, currency |-> c]]
  BY DEF MinimalSettlement, net
<1>. HIDE DEF legs, q
<1>4. PICK k \in Nat : k = Len(legs)
  BY <1>2
<1>5. DOMAIN legs = 1 .. k /\ \A i \in 1 .. k : legs[i] \in MatchLeg(net)
  BY <1>2, <1>4
<1>6. \A m \in MatchLeg(net) :
        [sender |-> m.sender, receiver |-> m.receiver, amount |-> m.amount, currency |-> c]
          \in Transfer
  BY <1>1 DEF MatchLeg, Transfer, Amount, Payers, Receivers
<1>7. q \in [1 .. k -> Transfer]
  BY <1>3, <1>5, <1>6
<1>8. q \in Seq(Transfer)
  BY <1>7
<1>. QED BY <1>2, <1>8 DEF q, legs, net

\* Rounding to the smallest unit is off by at most half of it.
LEMMA Rounds ==
  ASSUME NEW n \in Nat
  PROVE  /\ RoundToUnit(n) \in Nat
         /\ 2 * (Unit * RoundToUnit(n) - n) <= Unit
         /\ 2 * (n - Unit * RoundToUnit(n)) <= Unit
<1>. DEFINE u == Unit
            D == 2 * u
            m == 2 * n + u
            q == m \div D
<1>1. u \in Nat /\ u > 0 /\ D \in Nat /\ D > 0 /\ m \in Nat
  BY FXTerms DEF Amount
<1>. HIDE DEF u
<1>2. q \in Int /\ D * q <= m /\ m < D * q + D
  <2>. HIDE DEF D, m
  <2>. QED BY <1>1
<1>3. q >= 0
  <2>. HIDE DEF D, m
  <2>. QED BY <1>1
<1>. HIDE DEF q
<1>4. D * q = 2 * (u * q)
  BY <1>1, <1>2
<1>5. u * q \in Int
  BY <1>1, <1>2
<1>. DEFINE z == u * q
<1>. HIDE DEF z
<1>6. z \in Int /\ 2 * z <= 2 * n + u /\ 2 * n + u < 2 * z + 2 * u
  BY <1>2, <1>4, <1>5 DEF z
<1>7. 2 * (z - n) <= u /\ 2 * (n - z) <= u
  BY <1>1, <1>6
<1>. QED BY <1>2, <1>3, <1>7 DEF RoundToUnit, q, u, z

LEMMA ObligationValue ==
  ASSUME NEW S \in SUBSET Obl, NEW R \in SUBSET FXRate, NEW o \in S
  PROVE  OblTerms[o].amount * FxFactor(R, OblTerms[o].currency) \in Nat
<1>1. OblTerms[o].amount \in Nat /\ OblTerms[o].currency \in Currency
  BY BookCurrencies
<1>2. FxFactor(R, OblTerms[o].currency) \in Nat
  BY <1>1, FactorNat
<1>. QED BY <1>1, <1>2

LEMMA ValuesTyped ==
  ASSUME NEW S \in SUBSET Obl, NEW R \in SUBSET FXRate
  PROVE  /\ Positions(ValuePositions(S, R)) /\ DOMAIN ValuePositions(S, R) = Involved(S)
         /\ Involved(S) \subseteq Firm
<1>. DEFINE value == [o \in S |->
                        RoundToUnit(OblTerms[o].amount * FxFactor(R, OblTerms[o].currency))]
            net == ValuePositions(S, R)
<1>1. IsFiniteSet(S) /\ IsFiniteSet(Involved(S)) /\ Involved(S) \subseteq Firm
  BY BookCurrencies
<1>2. ASSUME NEW o \in S  PROVE value[o] \in Int
  <2>1. OblTerms[o].amount * FxFactor(R, OblTerms[o].currency) \in Nat
    BY ObligationValue
  <2>2. RoundToUnit(OblTerms[o].amount * FxFactor(R, OblTerms[o].currency)) \in Nat
    BY <2>1, Rounds
  <2>. QED BY <2>2
<1>3. ASSUME NEW p \in Involved(S)  PROVE net[p] \in Int
  <2>1. {o \in S : OblTerms[o].payee = p} \in SUBSET S
        /\ {o \in S : OblTerms[o].payer = p} \in SUBSET S
    OBVIOUS
  <2>2. net[p] = SumFunctionOnSet(value, {o \in S : OblTerms[o].payee = p})
                   - SumFunctionOnSet(value, {o \in S : OblTerms[o].payer = p})
    BY DEF ValuePositions
  <2>. HIDE DEF value, net
  <2>3. \A T \in SUBSET S : SumFunctionOnSet(value, T) \in Int
    BY <1>1, <1>2, SumInt
  <2>. QED BY <2>1, <2>2, <2>3
<1>4. DOMAIN net = Involved(S)
  BY DEF ValuePositions
<1>. HIDE DEF net
<1>. QED BY <1>1, <1>3, <1>4 DEF Positions, net

LEMMA FxFlow ==
  ASSUME NEW S \in SUBSET Obl, NEW R \in SUBSET FXRate, NEW K, NEW F, NEW balance, NEW w,
         NEW r \in SolveFx(S, R, K, F, balance, w)
  PROVE  \E x \in DirectFlows(ValuePositions(S, R)) :
           /\ \A c \in Currencies(S) : Valued(R, c)
           /\ FlowOK(x) /\ WithinCaps(x, K, Valuation)
           /\ Payers(ValuePositions(S, R)) # {} => KeepsFloors(x, F, balance)
           /\ r.obligations = S /\ r.legs = LegsOf(x, Valuation) /\ r.legs \in Seq(Transfer)
<1>. DEFINE net == ValuePositions(S, R)
            flows == {x \in DirectFlows(net) :
                        /\ WithinCaps(x, K, Valuation)
                        /\ Payers(net) # {} => KeepsFloors(x, F, balance)}
<1>1. /\ \A c \in Currencies(S) : Valued(R, c)
      /\ r \in {[obligations |-> S, legs |-> LegsOf(x, Valuation)] : x \in Cheapest(flows, w)}
  BY DEF SolveFx
<1>2. PICK x \in Cheapest(flows, w) : r = [obligations |-> S, legs |-> LegsOf(x, Valuation)]
  BY <1>1
<1>3. x \in flows
  BY DEF Cheapest
<1>4. Positions(net) /\ DOMAIN net \subseteq Firm
  BY ValuesTyped
<1>5. FlowOK(x) /\ r.legs \in Seq(Transfer)
  <2>1. x \in DirectFlows(net)
    BY <1>3
  <2>. HIDE DEF net, flows
  <2>2. FlowOK(x)
    BY <1>4, <2>1, DirectMoves
  <2>3. Valuation \in Currency
    BY FXTerms
  <2>. QED BY <1>2, <2>2, <2>3, LegsOfIs
<1>. QED BY <1>1, <1>2, <1>3, <1>5

-----------------------------------------------------------------------------
(* A plan is made of the book and the limits as they are, and nothing      *)
(* moves until it is looked at.                                            *)

\* The plan is one of the results.
Among(results) ==
  \E r \in results : planned.obligations = r.obligations /\ planned.legs = r.legs

Planners == {"greedy", "solve", "maximal", "fx"}

PlannedFrom ==
  /\ Found("greedy") =>
       \E c \in Currencies(Book) :
         /\ Currencies(Book) = {c}
         /\ planned.obligations = Book /\ planned.legs = MinimalSettlement(Book, c)
  /\ Found("solve") => Among(Solve(Book, Active(CreditLimit), planned.weights))
  /\ Found("maximal") =>
       Among(SolveMaximal(Book, Active(CreditLimit), Active(AggregateLimit), planned.weights))
  /\ Found("fx") =>
       Among(SolveFx(Book, Active(FXRate), Active(CreditLimit), Active(LiquidityFloor),
                     planned.balance, NoWeights))

PlanInv ==
  /\ TypeOK /\ PlannedFrom
  /\ planned.weights \in Weights /\ planned.balance \in [Firm -> Nat]
  /\ planned.by \in Planners \union {"none"} /\ planned.found \in BOOLEAN
  /\ planned.found => planned.by \in Planners
  /\ ~planned.found => planned.obligations = {} /\ planned.legs = <<>>

LEMMA OneCurrency ==
  ASSUME NEW S, IsFiniteSet(S), Cardinality(S) = 1, NEW c \in S
  PROVE  S = {c}
<1>1. \E x : S = {x}
  BY FS_Singleton
<1>. QED BY <1>1

LEMMA UnplannedInv ==
  ASSUME TypeOK, planned = Unplanned
  PROVE  PlanInv
<1>1. NoWeights \in Weights /\ NoBalance \in [Firm -> Nat]
  BY DEF NoWeights, Weights, NoBalance
<1>2. /\ planned.by = "none" /\ planned.found = FALSE /\ planned.obligations = {}
      /\ planned.legs = <<>> /\ planned.weights = NoWeights /\ planned.balance = NoBalance
  BY DEF Unplanned
<1>3. PlannedFrom
  BY <1>2 DEF PlannedFrom, Found
<1>. QED BY <1>1, <1>2, <1>3 DEF PlanInv

\* What a planner that returns leaves behind.
LEMMA ReturnsShape ==
  ASSUME NEW by, NEW results, NEW w, NEW balance, Returns(by, results, w, balance)
  PROVE  /\ UNCHANGED vars /\ planned'.by = by
         /\ planned'.weights = w /\ planned'.balance = balance
         /\ \/ planned'.found = FALSE /\ planned'.obligations = {} /\ planned'.legs = <<>>
            \/ /\ planned'.found = TRUE
               /\ \E r \in results :
                    planned'.obligations = r.obligations /\ planned'.legs = r.legs
<1>1. CASE results = {}
  <2>1. planned' = [Unplanned EXCEPT !.by = by, !.weights = w, !.balance = balance]
    BY <1>1 DEF Returns
  <2>2. /\ planned'.by = by /\ planned'.weights = w /\ planned'.balance = balance
        /\ planned'.found = FALSE /\ planned'.obligations = {} /\ planned'.legs = <<>>
    BY <2>1 DEF Unplanned
  <2>. QED BY <2>2 DEF Returns
<1>2. CASE results # {}
  <2>1. PICK r \in results :
          planned' = [by |-> by, found |-> TRUE, obligations |-> r.obligations, legs |-> r.legs,
                      weights |-> w, balance |-> balance]
    BY <1>2 DEF Returns
  <2>. QED BY <2>1 DEF Returns
<1>. QED BY <1>1, <1>2

LEMMA PlanInvHolds == PSpec => []PlanInv
<1>1. PInit => PlanInv
  <2>1. Init => TypeOK
    BY TimeBound DEF Init, TypeOK
  <2>. QED BY <2>1, UnplannedInv DEF PInit
<1>2. PlanInv /\ [PNext]_pvars => PlanInv'
  <2>. SUFFICES ASSUME PlanInv, [PNext]_pvars  PROVE PlanInv'
    OBVIOUS
  <2>1. ASSUME NEW by \in Planners, NEW results, NEW w \in Weights,
               NEW balance \in [Firm -> Nat], Returns(by, results, w, balance),
               PlannedFrom'
        PROVE  PlanInv'
    <3>1. /\ UNCHANGED vars /\ planned'.by = by
          /\ planned'.weights = w /\ planned'.balance = balance
          /\ \/ planned'.found = FALSE /\ planned'.obligations = {} /\ planned'.legs = <<>>
             \/ planned'.found = TRUE
      BY <2>1, ReturnsShape
    <3>2. TypeOK'
      BY <3>1 DEF PlanInv, TypeOK, vars
    <3>. QED BY <2>1, <3>1, <3>2 DEF PlanInv
  <2>2. ASSUME UNCHANGED vars
        PROVE  Book' = Book /\ \A K : Active(K)' = Active(K)
    BY <2>2 DEF Book, Active, vars
  <2>3. NoWeights \in Weights /\ NoBalance \in [Firm -> Nat]
    BY DEF NoWeights, Weights, NoBalance
  <2>4. CASE Agreements
    <3>1. planned = Unplanned /\ planned' = planned
      BY <2>4 DEF Agreements
    <3>2. Contracts
      BY <2>4 DEF Agreements, Contracts
    <3>3. TypeOK'
      BY <3>2, TypeInductive DEF PlanInv, Next
    <3>4. planned' = Unplanned
      BY <3>1
    <3>5. planned'.by = "none" /\ planned'.found = FALSE /\ planned'.obligations = {}
          /\ planned'.legs = <<>> /\ planned'.weights = NoWeights /\ planned'.balance = NoBalance
      BY <3>4 DEF Unplanned
    <3>6. PlannedFrom'
      BY <3>5 DEF PlannedFrom, Found
    <3>. QED BY <2>3, <3>3, <3>5, <3>6 DEF PlanInv
  <2>5. CASE PlanGreedy
    <3>1. PICK c \in Currencies(Book) :
            Returns("greedy", {[obligations |-> Book, legs |-> MinimalSettlement(Book, c)]},
                    NoWeights, NoBalance)
      BY <2>5 DEF PlanGreedy
    <3>2. Currencies(Book) = {c}
      <4>1. Book \in SUBSET Obl
        BY DEF Book
      <4>2. IsFiniteSet(Currencies(Book))
        BY <4>1, BookCurrencies
      <4>. QED BY <2>5, <4>2, OneCurrency DEF PlanGreedy
    <3>3. /\ UNCHANGED vars /\ planned'.by = "greedy"
          /\ planned'.found => planned'.obligations = Book
                               /\ planned'.legs = MinimalSettlement(Book, c)
      <4>. DEFINE q == [obligations |-> Book, legs |-> MinimalSettlement(Book, c)]
      <4>1. q.obligations = Book /\ q.legs = MinimalSettlement(Book, c)
        OBVIOUS
      <4>. HIDE DEF q
      <4>. DEFINE Q == {q}
      <4>2. Returns("greedy", Q, NoWeights, NoBalance)
        BY <3>1 DEF q
      <4>. HIDE DEF Q
      <4>3. /\ UNCHANGED vars /\ planned'.by = "greedy"
            /\ planned'.found =>
                 \E r \in Q : planned'.obligations = r.obligations /\ planned'.legs = r.legs
        BY <4>2, ReturnsShape
      <4>. QED BY <4>1, <4>3 DEF Q
    <3>4. PlannedFrom'
      <4>1. Book' = Book
        BY <2>2, <3>3
      <4>2. planned'.found =>
              /\ Currencies(Book') = {c} /\ c \in Currencies(Book')
              /\ planned'.obligations = Book' /\ planned'.legs = MinimalSettlement(Book', c)
        BY <3>2, <3>3, <4>1
      <4>. QED BY <3>3, <4>2 DEF PlannedFrom, Found
    <3>. QED BY <2>1, <2>3, <3>1, <3>4 DEF Planners
  <2>6. CASE PlanWhole
    <3>1. PICK w \in Policies :
            Returns("solve", Solve(Book, Active(CreditLimit), w), w, NoBalance)
      BY <2>6 DEF PlanWhole
    <3>2. /\ UNCHANGED vars /\ planned'.by = "solve" /\ planned'.weights = w
          /\ planned'.found => \E r \in Solve(Book, Active(CreditLimit), w) :
                                 planned'.obligations = r.obligations /\ planned'.legs = r.legs
      BY <3>1, ReturnsShape
    <3>3. PlannedFrom'
      BY <2>2, <3>2 DEF PlannedFrom, Found, Among
    <3>. QED BY <2>1, <2>3, <3>1, <3>3, PolicyTerms DEF Planners
  <2>7. CASE PlanMaximal
    <3>1. PICK w \in Policies :
            Returns("maximal",
                    SolveMaximal(Book, Active(CreditLimit), Active(AggregateLimit), w),
                    w, NoBalance)
      BY <2>7 DEF PlanMaximal
    <3>2. /\ UNCHANGED vars /\ planned'.by = "maximal" /\ planned'.weights = w
          /\ planned'.found =>
               \E r \in SolveMaximal(Book, Active(CreditLimit), Active(AggregateLimit), w) :
                 planned'.obligations = r.obligations /\ planned'.legs = r.legs
      BY <3>1, ReturnsShape
    <3>3. PlannedFrom'
      BY <2>2, <3>2 DEF PlannedFrom, Found, Among
    <3>. QED BY <2>1, <2>3, <3>1, <3>3, PolicyTerms DEF Planners
  <2>8. CASE PlanFx
    <3>1. PICK balance \in Balances :
            Returns("fx", SolveFx(Book, Active(FXRate), Active(CreditLimit),
                                  Active(LiquidityFloor), balance, NoWeights),
                    NoWeights, balance)
      BY <2>8 DEF PlanFx
    <3>2. /\ UNCHANGED vars /\ planned'.by = "fx" /\ planned'.balance = balance
          /\ planned'.found =>
               \E r \in SolveFx(Book, Active(FXRate), Active(CreditLimit),
                                Active(LiquidityFloor), balance, NoWeights) :
                 planned'.obligations = r.obligations /\ planned'.legs = r.legs
      BY <3>1, ReturnsShape
    <3>3. PlannedFrom'
      BY <2>2, <3>2 DEF PlannedFrom, Found, Among
    <3>. QED BY <2>1, <2>3, <3>1, <3>3, PolicyTerms DEF Planners
  <2>9. CASE UNCHANGED pvars
    <3>1. UNCHANGED vars /\ planned' = planned
      BY <2>9 DEF pvars
    <3>2. TypeOK'
      BY <3>1 DEF PlanInv, TypeOK, vars
    <3>3. PlannedFrom'
      BY <2>2, <3>1 DEF PlanInv, PlannedFrom, Found, Among
    <3>. QED BY <3>1, <3>2, <3>3 DEF PlanInv
  <2>. QED BY <2>4, <2>5, <2>6, <2>7, <2>8, <2>9 DEF PNext
<1>. QED BY <1>1, <1>2, PTL DEF PSpec

-----------------------------------------------------------------------------
(* The planners' theorems.                                                 *)

LEMMA FxTyped ==
  ASSUME NEW S \in SUBSET Obl, NEW R \in SUBSET FXRate, NEW K, NEW F, NEW balance,
         NEW r \in SolveFx(S, R, K, F, balance, NoWeights)
  PROVE  r.obligations = S /\ r.legs \in Seq(Transfer)
<1>1. \E x \in DirectFlows(ValuePositions(S, R)) :
           /\ \A c \in Currencies(S) : Valued(R, c)
           /\ FlowOK(x) /\ WithinCaps(x, K, Valuation)
           /\ Payers(ValuePositions(S, R)) # {} => KeepsFloors(x, F, balance)
           /\ r.obligations = S /\ r.legs = LegsOf(x, Valuation) /\ r.legs \in Seq(Transfer)
  BY FxFlow
<1>. QED BY <1>1

\* A planner returns obligations of the book and well-typed transfers.
THEOREM PlansTyped == PSpec => []PlanTypeOK
<1>1. PlanInv => PlanTypeOK
  <2>. SUFFICES ASSUME PlanInv  PROVE PlanTypeOK
    OBVIOUS
  <2>1. Book \in SUBSET Obl /\ Active(FXRate) \in SUBSET FXRate
    BY DEF Book, Active
  <2>2. planned.obligations \subseteq Obl /\ planned.legs \in Seq(Transfer)
    <3>1. CASE ~planned.found
      <4>1. planned.obligations = {} /\ planned.legs = <<>>
        BY <3>1 DEF PlanInv
      <4>. QED BY <4>1
    <3>2. CASE Found("greedy")
      <4>1. PICK c \in Currencies(Book) :
              /\ Currencies(Book) = {c}
              /\ planned.obligations = Book /\ planned.legs = MinimalSettlement(Book, c)
        BY <3>2 DEF PlanInv, PlannedFrom
      <4>. QED BY <2>1, <4>1, GreedyTyped
    <3>3. CASE Found("solve")
      <4>1. PICK r \in Solve(Book, Active(CreditLimit), planned.weights) :
              planned.obligations = r.obligations /\ planned.legs = r.legs
        BY <3>3 DEF PlanInv, PlannedFrom, Among
      <4>2. PICK T, x : PlanOf(Book, r, T, x)
        BY <2>1, SolveFlows
      <4>. QED BY <2>1, <4>1, <4>2 DEF PlanOf, InCurrency
    <3>4. CASE Found("maximal")
      <4>1. PICK r \in SolveMaximal(Book, Active(CreditLimit), Active(AggregateLimit),
                                    planned.weights) :
              planned.obligations = r.obligations /\ planned.legs = r.legs
        BY <3>4 DEF PlanInv, PlannedFrom, Among
      <4>2. PICK T, x : PlanOf(Book, r, T, x)
        BY <2>1, MaximalFlows
      <4>. QED BY <2>1, <4>1, <4>2 DEF PlanOf, InCurrency
    <3>5. CASE Found("fx")
      <4>. DEFINE S == Book
                  R == Active(FXRate)
                  K == Active(CreditLimit)
                  F == Active(LiquidityFloor)
      <4>1. PICK r \in SolveFx(S, R, K, F, planned.balance, NoWeights) :
              planned.obligations = r.obligations /\ planned.legs = r.legs
        BY <3>5 DEF PlanInv, PlannedFrom, Among
      <4>2. S \in SUBSET Obl /\ R \in SUBSET FXRate
        BY <2>1
      <4>. HIDE DEF S, R, K, F
      <4>3. r.obligations = S /\ r.legs \in Seq(Transfer)
        BY <4>1, <4>2, FxTyped
      <4>4. S = Book
        BY DEF S
      <4>. QED BY <2>1, <4>1, <4>3, <4>4
    <3>. QED BY <3>1, <3>2, <3>3, <3>4, <3>5 DEF PlanInv, Found, Planners
  <2>3. TypeOK /\ planned.weights \in Weights /\ planned.balance \in [Firm -> Nat]
        /\ planned.by \in Planners \union {"none"} /\ planned.found \in BOOLEAN
    BY DEF PlanInv
  <2>. QED BY <2>2, <2>3 DEF PlanTypeOK, Planners
<1>. QED BY <1>1, PlanInvHolds, PTL

\* What the batch of a plan carries that is not made across currencies.
LEMMA BatchShape ==
  ASSUME NEW p, p.by # "fx"
  PROVE  LET B == BatchFor(p) IN
         /\ B.obligations = p.obligations /\ B.residualLegs = p.legs
         /\ B.parties = Involved(p.obligations)
         /\ B.creditLimits = Active(CreditLimit) /\ B.aggregateLimits = Active(AggregateLimit)
         /\ B.liquidityFloors = {} /\ B.fxRates = {}
  BY DEF BatchFor

LEMMA ConservesWithoutRates ==
  ASSUME NEW B, B.fxRates = {},
         \A c \in Currency, p \in B.parties :
           NetOfCur(Facts(B.obligations), p, c) = NetOfCur(B.residualLegs, p, c)
  PROVE  Conserves(B)
  BY DEF Conserves

\* A plan of the strict solver for the whole book passes every guard of
\* SettleNetting, for every book, all limits between firms and all weights, unless
\* a limit on a firm's whole outflow is in force, which the solver is not given.
THEOREM WholePlansAccepted == PSpec => []WholePlanAccepted
<1>1. PlanInv => WholePlanAccepted
  <2>. SUFFICES ASSUME PlanInv, Found("solve"), Active(AggregateLimit) = {}
                PROVE  LedgerAccepts(BatchFor(planned))
    BY DEF WholePlanAccepted
  <2>. DEFINE S == Book
              K == Active(CreditLimit)
              B == BatchFor(planned)
  <2>1. S \in SUBSET Obl /\ K \in SUBSET CreditLimit
    BY DEF Book, Active
  <2>2. PICK r \in Solve(S, K, planned.weights) :
          planned.obligations = r.obligations /\ planned.legs = r.legs
    BY DEF PlanInv, PlannedFrom, Among
  <2>. HIDE DEF S, K
  <2>3. PICK T, x : /\ PlanOf(S, r, T, x)
                    /\ \A c \in Currencies(S) : /\ T[c] = InCurrency(S, c)
                                                /\ x[c] \in DirectIn(S, c)
                                                /\ WithinCaps(x[c], K, c)
    BY <2>1, <2>2, SolveFlows
  <2>4. r.obligations = S
    <3>1. S = UNION {InCurrency(S, c) : c \in Currencies(S)}
      BY DEF InCurrency, Currencies
    <3>2. {T[c] : c \in Currencies(S)} = {InCurrency(S, c) : c \in Currencies(S)}
      BY <2>3
    <3>. QED BY <2>3, <3>1, <3>2 DEF PlanOf
  <2>5. /\ B.obligations = S /\ B.residualLegs = r.legs /\ B.parties = Involved(S)
        /\ B.creditLimits = K /\ B.aggregateLimits = {}
        /\ B.liquidityFloors = {} /\ B.fxRates = {}
    BY <2>2, <2>4, BatchShape DEF Found, K
  <2>. HIDE DEF B
  <2>6. \A c \in Currencies(S) : Balanced(x[c], T[c], c)
    BY <2>1, <2>3, DirectBalances
  <2>7. /\ r.legs \in Seq(Transfer)
        /\ \A f \in Firm, d \in Currency : NetOfCur(Facts(S), f, d) = NetOfCur(r.legs, f, d)
    BY <2>1, <2>3, <2>4, <2>6, PlanConserves
  <2>8. Conserves(B)
    <3>1. Involved(S) \subseteq Firm
      BY <2>1, BookCurrencies
    <3>. QED BY <2>5, <2>7, <3>1, ConservesWithoutRates
  <2>9. Efficient(B)
    <3>. SUFFICES ASSUME NEW c \in Currency
                  PROVE  GrossOf(r.legs, c) <= GrossOf(Facts(S), c)
      BY <2>5 DEF Efficient
    <3>. DEFINE l == [f \in Firm |-> IF NetOfCur(Facts(S), f, c) < 0
                                     THEN -NetOfCur(Facts(S), f, c) ELSE 0]
    <3>1. \A f \in Firm : l[f] = IF NetOfCur(Facts(S), f, c) < 0
                                 THEN -NetOfCur(Facts(S), f, c) ELSE 0
      OBVIOUS
    <3>. HIDE DEF l
    <3>2. GrossOf(r.legs, c) = SumFunctionOnSet(l, Firm)
      BY <2>1, <2>3, <3>1, SolveGross
    <3>3. SumFunctionOnSet(l, Firm) <= GrossOf(Facts(S), c)
      BY <2>1, <3>1, FactsShape, OutflowWithinGross
    <3>. QED BY <3>2, <3>3
  <2>10. WithinCreditLimits(B)
    <3>1. \A c \in Currencies(S) : WithinCaps(x[c], B.creditLimits, c)
      BY <2>3, <2>5
    <3>. QED BY <2>1, <2>3, <2>5, <3>1, PlanWithinCaps
  <2>11. RatesAgreed(B) /\ WithinAggregateLimits(B) /\ AboveFloors(B)
    BY <2>5 DEF RatesAgreed, WithinAggregateLimits, AboveFloors
  <2>12. \A i \in DOMAIN B.residualLegs : B.residualLegs[i].receiver \in B.parties
    BY <2>1, <2>3, <2>5, SolveReceivers
  <2>. QED BY <2>8, <2>9, <2>10, <2>11, <2>12 DEF LedgerAccepts, B
<1>. QED BY <1>1, PlanInvHolds, PTL

\* A maximal plan brings every firm what the obligations it settles were to bring,
\* through whatever intermediaries, and keeps all limits, for every book.
THEOREM MaximalPlansWithinLimits == PSpec => []MaximalPlanWithinLimits
<1>1. PlanInv => MaximalPlanWithinLimits
  <2>. DEFINE S == Book
              K == Active(CreditLimit)
              A == Active(AggregateLimit)
              B == BatchFor(planned)
  <2>. SUFFICES ASSUME PlanInv, Found("maximal")
                PROVE  Conserves(B) /\ WithinCreditLimits(B) /\ WithinAggregateLimits(B)
    BY DEF MaximalPlanWithinLimits
  <2>1. S \in SUBSET Obl /\ K \in SUBSET CreditLimit /\ A \in SUBSET AggregateLimit
    BY DEF Book, Active
  <2>2. PICK r \in SolveMaximal(S, K, A, planned.weights) :
          planned.obligations = r.obligations /\ planned.legs = r.legs
    BY DEF PlanInv, PlannedFrom, Among
  <2>3. /\ B.obligations = r.obligations /\ B.residualLegs = r.legs
        /\ B.parties = Involved(r.obligations)
        /\ B.creditLimits = K /\ B.aggregateLimits = A /\ B.fxRates = {}
    BY <2>2, BatchShape DEF Found
  <2>. HIDE DEF S, K, A, B
  <2>4. PICK T, x : /\ PlanOf(S, r, T, x)
                    /\ \A c \in Currencies(S) :
                         /\ T[c] \in SUBSET InCurrency(S, c)
                         /\ x[c] \in Flows(NetSettled(InCurrency(S, c), T[c]))
                         /\ WithinCaps(x[c], K, c) /\ WithinAggregates(x[c], A, c)
    BY <2>1, <2>2, MaximalFlows
  <2>5. \A c \in Currencies(S) : Balanced(x[c], T[c], c)
    BY <2>1, <2>4, FlowBalances
  <2>6. /\ r.obligations \in SUBSET Obl
        /\ \A f \in Firm, d \in Currency :
             NetOfCur(Facts(r.obligations), f, d) = NetOfCur(r.legs, f, d)
    BY <2>1, <2>4, <2>5, PlanConserves
  <2>7. Conserves(B)
    <3>1. Involved(r.obligations) \subseteq Firm
      BY <2>6, BookCurrencies
    <3>. QED BY <2>3, <2>6, <3>1, ConservesWithoutRates
  <2>8. WithinCreditLimits(B)
    <3>1. \A c \in Currencies(S) : WithinCaps(x[c], B.creditLimits, c)
      BY <2>3, <2>4
    <3>. QED BY <2>1, <2>3, <2>4, <3>1, PlanWithinCaps
  <2>9. WithinAggregateLimits(B)
    <3>1. \A c \in Currencies(S) : WithinAggregates(x[c], B.aggregateLimits, c)
      BY <2>3, <2>4
    <3>. QED BY <2>1, <2>3, <2>4, <3>1, PlanWithinAggregates
  <2>. QED BY <2>7, <2>8, <2>9
<1>. QED BY <1>1, PlanInvHolds, PTL

LEMMA SumConst ==
  ASSUME NEW S, IsFiniteSet(S), NEW k \in Nat, NEW f, \A x \in S : f[x] = k
  PROVE  SumFunctionOnSet(f, S) = k * Cardinality(S)
<1>. DEFINE B == {T \in SUBSET S : SumFunctionOnSet(f, T) # k * Cardinality(T)}
<1>1. {} \notin B
  <2>1. SumFunctionOnSet(f, {}) = 0 /\ Cardinality({}) = 0
    BY SumEmpty, FS_EmptySet
  <2>. QED BY <2>1
<1>2. \A x \in S : f[x] \in Int
  OBVIOUS
<1>3. B = {}
  <2>. SUFFICES ASSUME B # {}  PROVE FALSE
    OBVIOUS
  <2>1. PICK T \in B, x \in S : /\ x \in T /\ T \in SUBSET S /\ IsFiniteSet(T)
                                /\ T \ {x} \in SUBSET S /\ T \ {x} \notin B
    <3>1. B \in SUBSET (SUBSET S)
      OBVIOUS
    <3>. HIDE DEF B
    <3>. QED BY <1>1, <3>1, TakeOut
  <2>2. SumFunctionOnSet(f, T) = f[x] + SumFunctionOnSet(f, T \ {x})
    BY <1>2, <2>1, SumTake
  <2>3. SumFunctionOnSet(f, T \ {x}) = k * Cardinality(T \ {x})
    BY <2>1
  <2>4. Cardinality(T \ {x}) = Cardinality(T) - 1 /\ Cardinality(T) \in Nat
    BY <2>1, FS_RemoveElement, FS_CardinalityType
  <2>5. SumFunctionOnSet(f, T) = k + k * (Cardinality(T) - 1)
    BY <2>2, <2>3, <2>4
  <2>. DEFINE n == Cardinality(T)
  <2>6. k + k * (n - 1) = k * n
    <3>. HIDE DEF n
    <3>1. n \in Nat
      BY <2>4 DEF n
    <3>. QED BY <3>1
  <2>7. SumFunctionOnSet(f, T) # k * Cardinality(T)
    OBVIOUS
  <2>. QED BY <2>5, <2>6, <2>7
<1>4. S \notin B
  BY <1>3
<1>. QED BY <1>4

\* What an obligation of the book is to bring f, by value.
Worths(S, R, f) ==
  [o \in S |->
     LET n == OblTerms[o].amount * FxFactor(R, OblTerms[o].currency)
     IN (IF OblTerms[o].payee = f THEN n ELSE 0) - (IF OblTerms[o].payer = f THEN n ELSE 0)]

LEMMA FactsValue ==
  ASSUME NEW S \in SUBSET Obl, NEW R \in SUBSET FXRate, NEW f
  PROVE  /\ \A o \in S : Worths(S, R, f)[o] \in Int
         /\ ValueNet(Facts(S), R, f) = SumFunctionOnSet(Worths(S, R, f), S)
<1>. DEFINE n == [o \in S |-> OblTerms[o].amount * FxFactor(R, OblTerms[o].currency)]
            w == Worths(S, R, f)
            key == [o \in S |-> OblTerms[o].currency]
            p == [c \in Currency |-> [o \in S |-> IF key[o] = c THEN w[o] ELSE 0]]
            h == [c \in Currency |-> NetOfCur(Facts(S), f, c) * FxFactor(R, c)]
<1>1. IsFiniteSet(S) /\ IsFiniteSet(Currency) /\ \A o \in S : key[o] \in Currency
  BY BookCurrencies, FiniteLedger
<1>2. ASSUME NEW o \in S
      PROVE  /\ n[o] \in Nat /\ w[o] \in Int
             /\ w[o] = (IF OblTerms[o].payee = f THEN n[o] ELSE 0)
                         - (IF OblTerms[o].payer = f THEN n[o] ELSE 0)
  <2>1. n[o] = OblTerms[o].amount * FxFactor(R, OblTerms[o].currency) /\ n[o] \in Nat
    BY ObligationValue
  <2>2. w[o] = (IF OblTerms[o].payee = f THEN n[o] ELSE 0)
                 - (IF OblTerms[o].payer = f THEN n[o] ELSE 0)
    BY DEF Worths
  <2>. HIDE DEF n, w
  <2>. QED BY <2>1, <2>2
<1>3. ASSUME NEW c \in Currency  PROVE h[c] = SumFunctionOnSet(p[c], S)
  <2>. DEFINE T == Facts(S)
              in == InFlow(T, f, c)
              out == OutFlow(T, f, c)
              d == [o \in S |-> in[o] - out[o]]
              g == p[c]
              k == FxFactor(R, c)
  <2>1. k \in Int
    BY FactorNat
  <2>2. T \in [S -> Transfer]
    BY FactsShape
  <2>3. OutOf(T, f, c) = SumFunctionOnSet(out, S)
        /\ NetOfCur(T, f, c) = SumFunctionOnSet(in, S) - OutOf(T, f, c)
    <3>. HIDE DEF T
    <3>. QED BY <1>1, <2>2, NetIsFlow
  <2>4. \A o \in S : in[o] \in Int /\ out[o] \in Int
    <3>1. \A o \in S : in[o] \in Nat /\ out[o] \in Nat
      <4>. HIDE DEF T
      <4>. QED BY <2>2, FlowNat
    <3>. HIDE DEF in, out
    <3>. QED BY <3>1
  <2>5. ASSUME NEW o \in S  PROVE d[o] \in Int /\ g[o] = k * d[o]
    <3>1. /\ in[o] = IF OblTerms[o].currency = c /\ OblTerms[o].payee = f
                     THEN OblTerms[o].amount ELSE 0
          /\ out[o] = IF OblTerms[o].currency = c /\ OblTerms[o].payer = f
                      THEN OblTerms[o].amount ELSE 0
      BY DEF InFlow, OutFlow, Facts
    <3>2. d[o] = in[o] - out[o] /\ d[o] \in Int
      BY <2>4
    <3>3. OblTerms[o].amount \in Nat
      BY BookCurrencies
    <3>. HIDE DEF in, out, d, T, w
    <3>4. CASE OblTerms[o].currency # c
      <4>1. in[o] = 0 /\ out[o] = 0 /\ g[o] = 0
        BY <3>1, <3>4
      <4>. QED BY <2>1, <3>2, <4>1
    <3>5. CASE OblTerms[o].currency = c
      <4>. DEFINE a == OblTerms[o].amount
      <4>1. n[o] = k * a /\ g[o] = w[o]
        BY <2>1, <3>3, <3>5
      <4>2. /\ in[o] = IF OblTerms[o].payee = f THEN a ELSE 0
            /\ out[o] = IF OblTerms[o].payer = f THEN a ELSE 0
        BY <3>1, <3>5
      <4>3. w[o] = (IF OblTerms[o].payee = f THEN k * a ELSE 0)
                     - (IF OblTerms[o].payer = f THEN k * a ELSE 0)
        <5>. HIDE DEF n
        <5>. QED BY <1>2, <4>1
      <4>4. a \in Int
        BY <3>3
      <4>5. k * a \in Int /\ k * (a - a) = 0 /\ k * (0 - a) = 0 - k * a /\ k * (a - 0) = k * a
            /\ k * (0 - 0) = 0
        <5>. HIDE DEF a, k
        <5>. QED BY <2>1, <4>4
      <4>. HIDE DEF a, k, g
      <4>6. w[o] = k * d[o]
        <5>1. CASE OblTerms[o].payee = f /\ OblTerms[o].payer = f
          BY <3>2, <4>2, <4>3, <4>4, <4>5, <5>1
        <5>2. CASE OblTerms[o].payee = f /\ OblTerms[o].payer # f
          BY <3>2, <4>2, <4>3, <4>4, <4>5, <5>2
        <5>3. CASE OblTerms[o].payee # f /\ OblTerms[o].payer = f
          BY <3>2, <4>2, <4>3, <4>4, <4>5, <5>3
        <5>4. CASE OblTerms[o].payee # f /\ OblTerms[o].payer # f
          BY <3>2, <4>2, <4>3, <4>4, <4>5, <5>4
        <5>. QED BY <5>1, <5>2, <5>3, <5>4
      <4>. QED BY <3>2, <4>1, <4>6
    <3>. QED BY <3>4, <3>5
  <2>6. SumFunctionOnSet(d, S) = SumFunctionOnSet(in, S) - SumFunctionOnSet(out, S)
    <3>1. \A o \in S : in[o] \in Int /\ out[o] \in Int /\ d[o] = in[o] - out[o]
      BY <2>4
    <3>. HIDE DEF d, in, out
    <3>. QED BY <1>1, <3>1, SumMinus
  <2>7. SumFunctionOnSet(g, S) = k * SumFunctionOnSet(d, S)
    <3>. HIDE DEF d, g, k
    <3>. QED BY <1>1, <2>1, <2>5, SumScale
  <2>8. SumFunctionOnSet(d, S) \in Int
    <3>1. S \in SUBSET S /\ \A o \in S : d[o] \in Int
      BY <2>5
    <3>. HIDE DEF d
    <3>. QED BY <1>1, <3>1, SumInt
  <2>9. h[c] = SumFunctionOnSet(d, S) * k
    BY <2>3, <2>6
  <2>. HIDE DEF d, g, k, h
  <2>10. h[c] = SumFunctionOnSet(g, S)
    BY <2>1, <2>7, <2>8, <2>9
  <2>11. SumFunctionOnSet(g, S) = SumFunctionOnSet(p[c], S)
    BY DEF g
  <2>. QED BY <2>10, <2>11
<1>4. SumFunctionOnSet(h, Currency) = SumFunctionOnSet(w, S)
  <2>1. Keyed(w, key, S, Currency)
    <3>. HIDE DEF w, key
    <3>. QED BY <1>1, <1>2 DEF Keyed
  <2>2. PartsOf(w, p, key, Currency, S)
    BY DEF PartsOf
  <2>3. TotalsOf(h, p, Currency, S)
    <3>. HIDE DEF h, p
    <3>. QED BY <1>3 DEF TotalsOf
  <2>. HIDE DEF w, key, p, h
  <2>. QED BY <1>1, <2>1, <2>2, <2>3, SumByNamedKey
<1>5. ValueNet(Facts(S), R, f) = SumFunctionOnSet(h, Currency)
  BY DEF ValueNet
<1>. HIDE DEF h, w
<1>6. \A o \in S : w[o] \in Int
  BY <1>2
<1>. QED BY <1>4, <1>5, <1>6 DEF w

\* What an obligation is to bring f in the smallest unit of Valuation.
Rounded(S, R, f) ==
  [o \in S |->
     LET v == RoundToUnit(OblTerms[o].amount * FxFactor(R, OblTerms[o].currency))
     IN (IF OblTerms[o].payee = f THEN v ELSE 0) - (IF OblTerms[o].payer = f THEN v ELSE 0)]

LEMMA PositionIsRounded ==
  ASSUME NEW S \in SUBSET Obl, NEW R \in SUBSET FXRate, NEW f \in Involved(S)
  PROVE  /\ \A o \in S : Rounded(S, R, f)[o] \in Int
         /\ ValuePositions(S, R)[f] = SumFunctionOnSet(Rounded(S, R, f), S)
<1>. DEFINE v == [o \in S |-> RoundToUnit(OblTerms[o].amount * FxFactor(R, OblTerms[o].currency))]
            G == {o \in S : OblTerms[o].payee = f}
            P == {o \in S : OblTerms[o].payer = f}
            g == [o \in S |-> IF o \in G THEN v[o] ELSE 0]
            p == [o \in S |-> IF o \in P THEN v[o] ELSE 0]
            d == Rounded(S, R, f)
<1>1. IsFiniteSet(S)
  BY BookCurrencies
<1>2. ASSUME NEW o \in S  PROVE v[o] \in Int
  <2>1. OblTerms[o].amount * FxFactor(R, OblTerms[o].currency) \in Nat
    BY ObligationValue
  <2>2. RoundToUnit(OblTerms[o].amount * FxFactor(R, OblTerms[o].currency)) \in Nat
    BY <2>1, Rounds
  <2>. QED BY <2>2
<1>3. G \in SUBSET S /\ P \in SUBSET S
  OBVIOUS
<1>4. ValuePositions(S, R)[f] = SumFunctionOnSet(v, G) - SumFunctionOnSet(v, P)
  BY DEF ValuePositions
<1>5. ASSUME NEW o \in S
      PROVE  d[o] = (IF OblTerms[o].payee = f THEN v[o] ELSE 0)
                      - (IF OblTerms[o].payer = f THEN v[o] ELSE 0)
  BY DEF Rounded
<1>. HIDE DEF v
<1>6. ASSUME NEW o \in S
      PROVE  g[o] \in Int /\ p[o] \in Int /\ d[o] = g[o] - p[o] /\ d[o] \in Int
  BY <1>2, <1>5
<1>7. SumFunctionOnSet(v, G) = SumFunctionOnSet(g, S)
  <2>1. \A o \in G : v[o] \in Int
    BY <1>2
  <2>. HIDE DEF G
  <2>. QED BY <1>1, <1>3, <2>1, SumPart
<1>8. SumFunctionOnSet(v, P) = SumFunctionOnSet(p, S)
  <2>1. \A o \in P : v[o] \in Int
    BY <1>2
  <2>. HIDE DEF P
  <2>. QED BY <1>1, <1>3, <2>1, SumPart
<1>. HIDE DEF G, P, g, p, d
<1>9. SumFunctionOnSet(d, S) = SumFunctionOnSet(g, S) - SumFunctionOnSet(p, S)
  BY <1>1, <1>6, SumMinus
<1>10. ValuePositions(S, R)[f] = SumFunctionOnSet(d, S) /\ \A o \in S : d[o] \in Int
  BY <1>4, <1>6, <1>7, <1>8, <1>9
<1>. QED BY <1>10 DEF d

\* A flow in Valuation has the value of what it moves.
LEMMA LegsValue ==
  ASSUME NEW x, FlowOK(x), NEW R \in SUBSET FXRate, NEW f
  PROVE  ValueNet(LegsOf(x, Valuation), R, f) = Unit * (Received(x, f) - Sent(x, f))
<1>. DEFINE T == LegsOf(x, Valuation)
            h == [c \in Currency |-> NetOfCur(T, f, c) * FxFactor(R, c)]
            m == Received(x, f) - Sent(x, f)
<1>1. Valuation \in Currency /\ Unit \in Nat
  BY FXTerms DEF Amount
<1>2. T \in Seq(Transfer)
  BY <1>1, LegsOfIs
<1>3. ASSUME NEW d
      PROVE  /\ SeqTotal(Takes(f, d), T) = IF d = Valuation THEN Sent(x, f) ELSE 0
             /\ SeqTotal(Brings(f, d), T) = IF d = Valuation THEN Received(x, f) ELSE 0
             /\ Sent(x, f) \in Nat /\ Received(x, f) \in Nat
  <2>1. /\ SeqTotal(Takes(f, d), T) = IF d = Valuation THEN Sent(x, f) ELSE 0
        /\ SeqTotal(Brings(f, d), T) = IF d = Valuation THEN Received(x, f) ELSE 0
        /\ SeqTotal(Passes(f, f, d), T)
             = IF d = Valuation /\ <<f, f>> \in DOMAIN x THEN x[<<f, f>>] ELSE 0
        /\ SeqTotal(Counts(d), T)
             = IF d = Valuation THEN SumFunctionOnSet(x, DOMAIN x) ELSE 0
        /\ Sent(x, f) \in Nat /\ Received(x, f) \in Nat
    BY <1>1, LegsOfSums
  <2>. QED BY <2>1
<1>. HIDE DEF T
<1>4. m \in Int /\ \A c \in Currency : NetOfCur(T, f, c) = IF c = Valuation THEN m ELSE 0
  <2>1. m \in Int
    BY <1>3
  <2>2. ASSUME NEW c \in Currency
        PROVE  NetOfCur(T, f, c) = IF c = Valuation THEN m ELSE 0
    <3>1. /\ OutOf(T, f, c) = SeqTotal(Takes(f, c), T)
          /\ NetOfCur(T, f, c) = SeqTotal(Brings(f, c), T) - SeqTotal(Takes(f, c), T)
          /\ TotalOf(T, {i \in In(T, c) : T[i].sender = f /\ T[i].receiver = f})
               = SeqTotal(Passes(f, f, c), T)
          /\ GrossOf(T, c) = SeqTotal(Counts(c), T)
      BY <1>2, LegSums
    <3>2. CASE c = Valuation
      BY <1>3, <3>1, <3>2
    <3>3. CASE c # Valuation
      BY <1>3, <3>1, <3>3
    <3>. QED BY <3>2, <3>3
  <2>. QED BY <2>1, <2>2
<1>. HIDE DEF m
<1>5. ASSUME NEW c \in Currency, c # Valuation  PROVE h[c] = 0
  <2>1. FxFactor(R, c) \in Nat
    BY FactorNat
  <2>2. h[c] = 0 * FxFactor(R, c)
    BY <1>4, <1>5
  <2>. QED BY <2>1, <2>2
<1>6. h[Valuation] = m * Unit
  BY <1>1, <1>4 DEF FxFactor
<1>7. SumFunctionOnSet(h, Currency) = h[Valuation]
  <2>1. h[Valuation] \in Int
    BY <1>1, <1>4, <1>6
  <2>. HIDE DEF h
  <2>. QED BY <1>1, <1>5, <2>1, FiniteLedger, SumSingle
<1>8. ValueNet(T, R, f) = SumFunctionOnSet(h, Currency)
  BY DEF ValueNet
<1>. HIDE DEF h
<1>9. ValueNet(T, R, f) = Unit * m
  BY <1>1, <1>4, <1>6, <1>7, <1>8
<1>. QED BY <1>9 DEF T, m

\* Half a smallest unit for each obligation of f.
LEMMA DriftBound ==
  ASSUME NEW S \in SUBSET Obl, NEW R \in SUBSET FXRate, NEW f \in Involved(S),
         NEW M, M = {o \in S : f \in {OblTerms[o].payer, OblTerms[o].payee}},
         NEW drift, drift = ValueNet(Facts(S), R, f) - Unit * ValuePositions(S, R)[f]
  PROVE  2 * drift <= Unit * Cardinality(M) /\ -2 * drift <= Unit * Cardinality(M)
<1>. DEFINE u == Unit
            w == Worths(S, R, f)
            v == Rounded(S, R, f)
            uv == [o \in S |-> u * v[o]]
            e == [o \in S |-> w[o] - uv[o]]
            b == [o \in S |-> IF o \in M THEN u ELSE 0]
            up == [o \in S |-> 2 * e[o]]
            down == [o \in S |-> (-2) * e[o]]
<1>1. IsFiniteSet(S) /\ u \in Nat /\ M \in SUBSET S /\ IsFiniteSet(M)
  <2>1. IsFiniteSet(S) /\ M \in SUBSET S
    BY BookCurrencies
  <2>. QED BY <2>1, FS_Subset, FXTerms DEF Amount
<1>2. /\ \A o \in S : w[o] \in Int
      /\ ValueNet(Facts(S), R, f) = SumFunctionOnSet(w, S)
  BY FactsValue
<1>3. /\ \A o \in S : v[o] \in Int
      /\ ValuePositions(S, R)[f] = SumFunctionOnSet(v, S)
  BY PositionIsRounded
<1>4. ASSUME NEW o \in S
      PROVE  uv[o] \in Int /\ e[o] \in Int /\ b[o] \in Int /\ 2 * e[o] <= b[o] /\ (-2) * e[o] <= b[o]
  <2>. DEFINE n == OblTerms[o].amount * FxFactor(R, OblTerms[o].currency)
              r == RoundToUnit(n)
              z == u * r
  <2>1. n \in Nat
    BY ObligationValue
  <2>2. r \in Nat /\ 2 * (z - n) <= u /\ 2 * (n - z) <= u
    <3>. HIDE DEF n
    <3>. QED BY <2>1, Rounds
  <2>3. w[o] = (IF OblTerms[o].payee = f THEN n ELSE 0) - (IF OblTerms[o].payer = f THEN n ELSE 0)
    BY DEF Worths
  <2>4. v[o] = (IF OblTerms[o].payee = f THEN r ELSE 0) - (IF OblTerms[o].payer = f THEN r ELSE 0)
    BY DEF Rounded
  <2>5. uv[o] = u * v[o] /\ e[o] = w[o] - uv[o] /\ b[o] = IF o \in M THEN u ELSE 0
    OBVIOUS
  <2>6. o \in M <=> OblTerms[o].payee = f \/ OblTerms[o].payer = f
    OBVIOUS
  <2>. HIDE DEF n, r, u, w, v, uv, e, b
  <2>7. z \in Int /\ u * 0 = 0 /\ u * (r - 0) = z /\ u * (0 - r) = 0 - z /\ u * (0 - 0) = 0
          /\ u * (r - r) = 0
    BY <1>1, <2>2
  <2>. HIDE DEF z
  <2>8. CASE OblTerms[o].payee = f /\ OblTerms[o].payer = f
    <3>1. w[o] = n - n /\ v[o] = r - r /\ b[o] = u
      BY <2>3, <2>4, <2>5, <2>6, <2>8
    <3>2. uv[o] = 0 /\ w[o] = 0
      BY <2>1, <2>5, <2>7, <3>1
    <3>. QED BY <1>1, <2>5, <3>1, <3>2
  <2>9. CASE OblTerms[o].payee = f /\ OblTerms[o].payer # f
    <3>1. w[o] = n /\ v[o] = r - 0 /\ b[o] = u
      BY <2>1, <2>3, <2>4, <2>5, <2>6, <2>9
    <3>2. uv[o] = z
      BY <2>5, <2>7, <3>1
    <3>. QED BY <1>1, <2>1, <2>2, <2>5, <2>7, <3>1, <3>2
  <2>10. CASE OblTerms[o].payee # f /\ OblTerms[o].payer = f
    <3>1. w[o] = 0 - n /\ v[o] = 0 - r /\ b[o] = u
      BY <2>3, <2>4, <2>5, <2>6, <2>10
    <3>2. uv[o] = 0 - z
      BY <2>5, <2>7, <3>1
    <3>. QED BY <1>1, <2>1, <2>2, <2>5, <2>7, <3>1, <3>2
  <2>11. CASE OblTerms[o].payee # f /\ OblTerms[o].payer # f
    <3>1. w[o] = 0 /\ v[o] = 0 - 0 /\ b[o] = 0
      BY <2>3, <2>4, <2>5, <2>6, <2>11
    <3>2. uv[o] = 0
      BY <2>5, <2>7, <3>1
    <3>3. e[o] = 0
      BY <2>5, <3>1, <3>2
    <3>. QED BY <3>1, <3>2, <3>3
  <2>. QED BY <2>8, <2>9, <2>10, <2>11
<1>5. SumFunctionOnSet(uv, S) = u * SumFunctionOnSet(v, S)
  <2>1. \A o \in S : v[o] \in Int /\ uv[o] = u * v[o]
    BY <1>3
  <2>2. u \in Int
    BY <1>1
  <2>. HIDE DEF u, v, uv
  <2>. QED BY <1>1, <2>1, <2>2, SumScale
<1>6. SumFunctionOnSet(e, S) = SumFunctionOnSet(w, S) - SumFunctionOnSet(uv, S)
  <2>1. \A o \in S : w[o] \in Int /\ uv[o] \in Int /\ e[o] = w[o] - uv[o]
    BY <1>2, <1>4
  <2>. HIDE DEF w, uv, e
  <2>. QED BY <1>1, <2>1, SumMinus
<1>7. drift = SumFunctionOnSet(e, S)
  <2>. HIDE DEF w, v, uv, e, u
  <2>. QED BY <1>2, <1>3, <1>5, <1>6 DEF u
<1>8. SumFunctionOnSet(b, S) = u * Cardinality(M)
  <2>. DEFINE k == [o \in M |-> u]
              bk == [o \in S |-> IF o \in M THEN k[o] ELSE 0]
  <2>1. (\A o \in M : k[o] = u) /\ (\A o \in M : k[o] \in Int)
    BY <1>1
  <2>2. \A o \in S : bk[o] = b[o]
    OBVIOUS
  <2>. HIDE DEF u, k, b
  <2>3. SumFunctionOnSet(k, M) = u * Cardinality(M)
    BY <1>1, <2>1, SumConst
  <2>4. SumFunctionOnSet(k, M) = SumFunctionOnSet(bk, S)
    BY <1>1, <2>1, SumPart
  <2>. HIDE DEF bk
  <2>5. SumFunctionOnSet(bk, S) = SumFunctionOnSet(b, S)
    BY <1>1, <2>2, SumSame
  <2>. QED BY <2>3, <2>4, <2>5
<1>. HIDE DEF e, b
<1>9. \A o \in S : /\ up[o] \in Int /\ down[o] \in Int /\ e[o] \in Int /\ b[o] \in Int
                   /\ up[o] = 2 * e[o] /\ down[o] = (-2) * e[o]
                   /\ up[o] <= b[o] /\ down[o] <= b[o]
  BY <1>4
<1>. HIDE DEF up, down
<1>10. SumFunctionOnSet(up, S) = 2 * SumFunctionOnSet(e, S)
  BY <1>1, <1>9, SumScale
<1>11. SumFunctionOnSet(down, S) = (-2) * SumFunctionOnSet(e, S)
  <2>1. -2 \in Int
    OBVIOUS
  <2>. QED BY <1>1, <1>9, <2>1, SumScale
<1>12. SumFunctionOnSet(up, S) <= SumFunctionOnSet(b, S)
  BY <1>1, <1>9, SumAtMost
<1>13. SumFunctionOnSet(down, S) <= SumFunctionOnSet(b, S)
  BY <1>1, <1>9, SumAtMost
<1>. QED BY <1>7, <1>8, <1>10, <1>11, <1>12, <1>13 DEF u

\* What a plan of solve_fx keeps and moves.
LEMMA FxPlan ==
  ASSUME NEW S \in SUBSET Obl, NEW R \in SUBSET FXRate, NEW K \in SUBSET CreditLimit,
         NEW F \in SUBSET LiquidityFloor, NEW balance \in [Firm -> Nat],
         NEW r \in SolveFx(S, R, K, F, balance, NoWeights)
  PROVE  /\ r.obligations = S /\ r.legs \in Seq(Transfer)
         /\ \A f \in Involved(S) : ValueNet(r.legs, R, f) = Unit * ValuePositions(S, R)[f]
         /\ \A k \in K :
              SeqTotal(Passes(CreditTerms[k].from, CreditTerms[k].to, CreditTerms[k].currency),
                       r.legs) <= CreditTerms[k].limit
         /\ r.legs # <<>> => \A k \in F : FloorTerms[k].currency = Valuation =>
              balance[FloorTerms[k].party] + NetOfCur(r.legs, FloorTerms[k].party, Valuation)
                >= FloorTerms[k].floor
<1>. DEFINE net == ValuePositions(S, R)
<1>1. \E x \in DirectFlows(ValuePositions(S, R)) :
           /\ \A c \in Currencies(S) : Valued(R, c)
           /\ FlowOK(x) /\ WithinCaps(x, K, Valuation)
           /\ Payers(ValuePositions(S, R)) # {} => KeepsFloors(x, F, balance)
           /\ r.obligations = S /\ r.legs = LegsOf(x, Valuation) /\ r.legs \in Seq(Transfer)
  BY FxFlow
<1>2. PICK x \in DirectFlows(net) :
           /\ FlowOK(x) /\ WithinCaps(x, K, Valuation)
           /\ Payers(net) # {} => KeepsFloors(x, F, balance)
           /\ r.obligations = S /\ r.legs = LegsOf(x, Valuation) /\ r.legs \in Seq(Transfer)
  BY <1>1
<1>3. Positions(net) /\ DOMAIN net = Involved(S) /\ DOMAIN net \subseteq Firm
  BY ValuesTyped
<1>. HIDE DEF net
<1>4. /\ Moves(x, net) /\ DOMAIN x = Payers(net) \X Receivers(net)
  BY <1>2, <1>3, DirectMoves, DirectFlowMoves
<1>5. Valuation \in Currency
  BY FXTerms
<1>6. ASSUME NEW f, NEW g, NEW d
      PROVE  /\ SeqTotal(Takes(f, d), r.legs) = IF d = Valuation THEN Sent(x, f) ELSE 0
             /\ SeqTotal(Brings(f, d), r.legs) = IF d = Valuation THEN Received(x, f) ELSE 0
             /\ SeqTotal(Passes(f, g, d), r.legs)
                  = IF d = Valuation /\ <<f, g>> \in DOMAIN x THEN x[<<f, g>>] ELSE 0
             /\ Sent(x, f) \in Nat /\ Received(x, f) \in Nat
  <2>1. /\ SeqTotal(Takes(f, d), LegsOf(x, Valuation)) = IF d = Valuation THEN Sent(x, f) ELSE 0
        /\ SeqTotal(Brings(f, d), LegsOf(x, Valuation))
             = IF d = Valuation THEN Received(x, f) ELSE 0
        /\ SeqTotal(Passes(f, g, d), LegsOf(x, Valuation))
             = IF d = Valuation /\ <<f, g>> \in DOMAIN x THEN x[<<f, g>>] ELSE 0
        /\ SeqTotal(Counts(d), LegsOf(x, Valuation))
             = IF d = Valuation THEN SumFunctionOnSet(x, DOMAIN x) ELSE 0
        /\ Sent(x, f) \in Nat /\ Received(x, f) \in Nat
    BY <1>2, <1>5, LegsOfSums
  <2>. QED BY <1>2, <2>1
<1>7. ASSUME NEW f \in Involved(S)
      PROVE  ValueNet(r.legs, R, f) = Unit * net[f]
  <2>1. ValueNet(LegsOf(x, Valuation), R, f) = Unit * (Received(x, f) - Sent(x, f))
    BY <1>2, LegsValue
  <2>2. Received(x, f) - Sent(x, f) = net[f]
    BY <1>3, <1>4 DEF Moves
  <2>. QED BY <1>2, <2>1, <2>2
<1>8. ASSUME NEW k \in K
      PROVE  SeqTotal(Passes(CreditTerms[k].from, CreditTerms[k].to, CreditTerms[k].currency),
                      r.legs) <= CreditTerms[k].limit
  <2>. DEFINE f == CreditTerms[k].from
              g == CreditTerms[k].to
              d == CreditTerms[k].currency
              l == CreditTerms[k].limit
  <2>1. l \in Nat
    BY LimitTerms
  <2>2. d = Valuation /\ <<f, g>> \in DOMAIN x => x[<<f, g>>] <= l
    BY <1>2 DEF WithinCaps
  <2>. HIDE DEF f, g, d, l
  <2>3. SeqTotal(Passes(f, g, d), r.legs)
          = IF d = Valuation /\ <<f, g>> \in DOMAIN x THEN x[<<f, g>>] ELSE 0
    BY <1>6
  <2>4. SeqTotal(Passes(f, g, d), r.legs) <= l
    BY <2>1, <2>2, <2>3
  <2>. QED BY <2>4 DEF f, g, d, l
<1>9. ASSUME r.legs # <<>>, NEW k \in F, FloorTerms[k].currency = Valuation
      PROVE  balance[FloorTerms[k].party] + NetOfCur(r.legs, FloorTerms[k].party, Valuation)
               >= FloorTerms[k].floor
  <2>. DEFINE p == FloorTerms[k].party
              l == FloorTerms[k].floor
  <2>1. p \in Firm /\ l \in Nat
    BY LimitTerms
  <2>2. Payers(net) # {}
    <3>1. \E arc \in DOMAIN x : x[arc] > 0
      BY <1>2, <1>5, <1>9, LegsOfIs
    <3>. QED BY <1>4, <3>1
  <2>3. balance[p] + Received(x, p) - Sent(x, p) >= l
    BY <1>2, <1>9, <2>2 DEF KeepsFloors
  <2>4. balance[p] \in Nat
    BY <2>1
  <2>. HIDE DEF p, l
  <2>5. NetOfCur(r.legs, p, Valuation)
          = SeqTotal(Brings(p, Valuation), r.legs) - SeqTotal(Takes(p, Valuation), r.legs)
    <3>1. ASSUME NEW T \in Seq(Transfer), NEW d
          PROVE  NetOfCur(T, p, d) = SeqTotal(Brings(p, d), T) - SeqTotal(Takes(p, d), T)
      <4>1. /\ OutOf(T, p, d) = SeqTotal(Takes(p, d), T)
            /\ NetOfCur(T, p, d) = SeqTotal(Brings(p, d), T) - SeqTotal(Takes(p, d), T)
            /\ TotalOf(T, {i \in In(T, d) : T[i].sender = p /\ T[i].receiver = p})
                 = SeqTotal(Passes(p, p, d), T)
            /\ GrossOf(T, d) = SeqTotal(Counts(d), T)
        BY LegSums
      <4>. QED BY <4>1
    <3>. QED BY <1>2, <3>1
  <2>6. /\ SeqTotal(Brings(p, Valuation), r.legs) = Received(x, p)
        /\ SeqTotal(Takes(p, Valuation), r.legs) = Sent(x, p)
        /\ Received(x, p) \in Nat /\ Sent(x, p) \in Nat
    BY <1>6
  <2>7. balance[p] + NetOfCur(r.legs, p, Valuation) >= l
    BY <2>3, <2>4, <2>5, <2>6
  <2>. QED BY <2>7 DEF p, l
<1>. QED BY <1>2, <1>7, <1>8, <1>9 DEF net

LEMMA FxBatchShape ==
  ASSUME NEW p, p.by = "fx", p.balance \in [Firm -> Nat]
  PROVE  LET B == BatchFor(p) IN
         /\ B.residualLegs = p.legs /\ B.parties = Involved(p.obligations)
         /\ B.creditLimits = Active(CreditLimit) /\ B.fxRates = Active(FXRate)
         /\ \A k \in B.liquidityFloors :
              /\ k \in Active(LiquidityFloor) /\ FloorTerms[k].currency = Valuation
              /\ B.balanceFacts[FloorTerms[k].party][FloorTerms[k].currency]
                   = p.balance[FloorTerms[k].party]
<1>. DEFINE B == BatchFor(p)
<1>1. /\ B.residualLegs = p.legs /\ B.parties = Involved(p.obligations)
      /\ B.creditLimits = Active(CreditLimit) /\ B.fxRates = Active(FXRate)
      /\ B.liquidityFloors = {k \in Active(LiquidityFloor) : FloorTerms[k].currency = Valuation}
      /\ B.balanceFacts = [f \in Firm |-> [c \in Currency |->
                             IF c = Valuation THEN p.balance[f] ELSE 0]]
  BY DEF BatchFor
<1>2. \A k \in Active(LiquidityFloor) : FloorTerms[k].party \in Firm
  BY LimitTerms DEF Active
<1>. HIDE DEF B
<1>3. Valuation \in Currency
  BY FXTerms
<1>4. ASSUME NEW k \in B.liquidityFloors
      PROVE  /\ k \in Active(LiquidityFloor) /\ FloorTerms[k].currency = Valuation
             /\ B.balanceFacts[FloorTerms[k].party][FloorTerms[k].currency]
                  = p.balance[FloorTerms[k].party]
  <2>1. k \in Active(LiquidityFloor) /\ FloorTerms[k].currency = Valuation
    BY <1>1
  <2>. QED BY <1>1, <1>2, <1>3, <2>1
<1>. QED BY <1>1, <1>4 DEF B

\* A cross-currency plan keeps the limits and floors it was given, and a firm's value
\* drifts by at most half a smallest unit for each of its obligations, for every book,
\* all rates, and all balances.
THEOREM FxPlansRound == PSpec => []FxPlanWithinRounding
<1>1. PlanInv => FxPlanWithinRounding
  <2>. SUFFICES ASSUME PlanInv, Found("fx")  PROVE FxPlanWithinRounding
    BY DEF FxPlanWithinRounding
  <2>. DEFINE S == Book
              R == Active(FXRate)
              K == Active(CreditLimit)
              F == Active(LiquidityFloor)
              B == BatchFor(planned)
              mine(f) == {o \in Book : f \in {OblTerms[o].payer, OblTerms[o].payee}}
              drift(f) == ValueNet(Facts(Book), R, f) - ValueNet(planned.legs, R, f)
  <2>1. PICK r \in SolveFx(S, R, K, F, planned.balance, NoWeights) :
          planned.obligations = r.obligations /\ planned.legs = r.legs
    BY DEF PlanInv, PlannedFrom, Among
  <2>2. /\ S \in SUBSET Obl /\ R \in SUBSET FXRate /\ K \in SUBSET CreditLimit
        /\ F \in SUBSET LiquidityFloor
    BY DEF Book, Active
  <2>3. planned.balance \in [Firm -> Nat] /\ planned.by = "fx"
    BY DEF PlanInv, Found
  <2>4. /\ B.residualLegs = planned.legs /\ B.parties = Involved(planned.obligations)
        /\ B.creditLimits = K /\ B.fxRates = R
        /\ \A k \in B.liquidityFloors :
             /\ k \in F /\ FloorTerms[k].currency = Valuation
             /\ B.balanceFacts[FloorTerms[k].party][FloorTerms[k].currency]
                  = planned.balance[FloorTerms[k].party]
    BY <2>3, FxBatchShape
  <2>. HIDE DEF S, R, K, F, B
  <2>5. /\ r.obligations = S /\ r.legs \in Seq(Transfer)
        /\ \A f \in Involved(S) : ValueNet(r.legs, R, f) = Unit * ValuePositions(S, R)[f]
        /\ \A k \in K :
             SeqTotal(Passes(CreditTerms[k].from, CreditTerms[k].to, CreditTerms[k].currency),
                      r.legs) <= CreditTerms[k].limit
        /\ r.legs # <<>> => \A k \in F : FloorTerms[k].currency = Valuation =>
             planned.balance[FloorTerms[k].party]
               + NetOfCur(r.legs, FloorTerms[k].party, Valuation) >= FloorTerms[k].floor
    BY <2>1, <2>2, <2>3, FxPlan
  <2>6. WithinCreditLimits(B)
    <3>. SUFFICES ASSUME NEW k \in B.creditLimits
                  PROVE  TotalOf(r.legs, {i \in In(r.legs, CreditTerms[k].currency) :
                                            /\ r.legs[i].sender = CreditTerms[k].from
                                            /\ r.legs[i].receiver = CreditTerms[k].to})
                           <= CreditTerms[k].limit
      BY <2>1, <2>4 DEF WithinCreditLimits
    <3>. DEFINE f == CreditTerms[k].from
                g == CreditTerms[k].to
                d == CreditTerms[k].currency
    <3>1. SeqTotal(Passes(f, g, d), r.legs) <= CreditTerms[k].limit
      BY <2>4, <2>5
    <3>. HIDE DEF f, g, d
    <3>2. TotalOf(r.legs, {i \in In(r.legs, d) : r.legs[i].sender = f /\ r.legs[i].receiver = g})
            = SeqTotal(Passes(f, g, d), r.legs)
      BY <2>5, LegSums
    <3>. QED BY <3>1, <3>2 DEF f, g, d
  <2>7. planned.legs # <<>> => AboveFloors(B)
    <3>. SUFFICES ASSUME planned.legs # <<>>, NEW k \in B.liquidityFloors
                  PROVE  B.balanceFacts[FloorTerms[k].party][FloorTerms[k].currency]
                           + NetOfCur(B.residualLegs, FloorTerms[k].party, FloorTerms[k].currency)
                           >= FloorTerms[k].floor
      BY DEF AboveFloors
    <3>1. planned.balance[FloorTerms[k].party]
               + NetOfCur(r.legs, FloorTerms[k].party, Valuation) >= FloorTerms[k].floor
      BY <2>1, <2>4, <2>5
    <3>. QED BY <2>1, <2>4, <3>1
  <2>8. ASSUME NEW f \in B.parties
        PROVE  /\ 2 * drift(f) <= Unit * Cardinality(mine(f))
               /\ -2 * drift(f) <= Unit * Cardinality(mine(f))
    <3>. DEFINE M == {o \in S : f \in {OblTerms[o].payer, OblTerms[o].payee}}
                e == ValueNet(Facts(S), R, f) - Unit * ValuePositions(S, R)[f]
    <3>1. f \in Involved(S)
      BY <2>1, <2>4, <2>5
    <3>2. 2 * e <= Unit * Cardinality(M) /\ -2 * e <= Unit * Cardinality(M)
      <4>. HIDE DEF M, e
      <4>1. M = {o \in S : f \in {OblTerms[o].payer, OblTerms[o].payee}}
        BY DEF M
      <4>2. e = ValueNet(Facts(S), R, f) - Unit * ValuePositions(S, R)[f]
        BY DEF e
      <4>. QED BY <2>2, <3>1, <4>1, <4>2, DriftBound
    <3>3. drift(f) = e /\ mine(f) = M
      BY <2>1, <2>5, <3>1 DEF S
    <3>. QED BY <3>2, <3>3
  <2>. QED BY <2>4, <2>6, <2>7, <2>8 DEF FxPlanWithinRounding, B
<1>. QED BY <1>1, PlanInvHolds, PTL

-----------------------------------------------------------------------------
(* Greedy netting.                                                         *)

LEMMA SeqTotalSame ==
  ASSUME NEW q, NEW r, Len(q) = Len(r), Len(q) \in Nat, NEW v, NEW w,
         \A n \in 1 .. Len(q) : v[q[n]] = w[r[n]]
  PROVE  SeqTotal(v, q) = SeqTotal(w, r)
<1>. DEFINE D == 1 .. Len(q)
            f == [n \in D |-> v[q[n]]]
            g == [n \in D |-> w[r[n]]]
<1>1. IsFiniteSet(D) /\ \A n \in D : f[n] = g[n]
  BY FS_Interval
<1>. HIDE DEF D, f, g
<1>2. SumFunctionOnSet(f, D) = SumFunctionOnSet(g, D)
  BY <1>1, SumSame
<1>. QED BY <1>2 DEF D, f, g, SeqTotal

LEMMA SeqTotalNothing ==
  ASSUME NEW q, Len(q) \in Nat, NEW v, \A n \in 1 .. Len(q) : v[q[n]] = 0
  PROVE  SeqTotal(v, q) = 0
<1>. DEFINE D == 1 .. Len(q)
            f == [n \in D |-> v[q[n]]]
<1>1. IsFiniteSet(D) /\ \A n \in D : f[n] = 0
  BY FS_Interval
<1>. HIDE DEF D, f
<1>2. SumFunctionOnSet(f, D) = 0
  BY <1>1, SumZero
<1>. QED BY <1>2 DEF D, f, SeqTotal

\* The legs of greedy netting are those of the matching, in the currency of the book.
LEMMA GreedyLegs ==
  ASSUME NEW S \in SUBSET Obl, NEW c, Currencies(S) = {c},
         NEW net, net = NetPositions(S), NEW q, q = MinimalSettlement(S, c)
  PROVE  /\ q \in Seq(Transfer) /\ Len(q) \in Nat /\ Len(q) = Len(Match(net))
         /\ DOMAIN q = 1 .. Len(q) /\ Match(net) \in Seq(MatchLeg(net))
         /\ \A n \in 1 .. Len(q) :
              /\ q[n] \in Transfer /\ Match(net)[n] \in MatchLeg(net)
              /\ q[n].sender = Match(net)[n].sender /\ q[n].receiver = Match(net)[n].receiver
              /\ q[n].amount = Match(net)[n].amount /\ q[n].currency = c
<1>. DEFINE legs == Match(net)
            L == MatchLeg(net)
<1>1. q \in Seq(Transfer) /\ legs \in Seq(L)
  BY GreedyTyped
<1>2. q = [i \in DOMAIN legs |-> [sender |-> legs[i].sender, receiver |-> legs[i].receiver,
                                  amount |-> legs[i].amount, currency |-> c]]
  BY DEF MinimalSettlement
<1>. HIDE DEF legs, L
<1>3. DOMAIN legs = 1 .. Len(legs) /\ Len(legs) \in Nat /\ \A n \in 1 .. Len(legs) : legs[n] \in L
  BY <1>1
<1>4. DOMAIN q = 1 .. Len(q) /\ Len(q) \in Nat /\ \A n \in 1 .. Len(q) : q[n] \in Transfer
  BY <1>1
<1>5. Len(q) = Len(legs)
  <2>1. DOMAIN q = DOMAIN legs
    BY <1>2
  <2>. DEFINE a == Len(q)
              b == Len(legs)
  <2>2. a \in Nat /\ b \in Nat /\ 1 .. a = 1 .. b
    BY <1>3, <1>4, <2>1
  <2>. HIDE DEF a, b
  <2>3. a = b
    <3>1. ASSUME NEW m \in Nat, NEW n \in Nat, m < n  PROVE n \in 1 .. n /\ n \notin 1 .. m
      BY <3>1
    <3>2. ~ a < b /\ ~ b < a
      BY <2>2, <3>1
    <3>. QED BY <2>2, <3>2
  <2>. QED BY <2>3 DEF a, b
<1>6. \A n \in 1 .. Len(q) :
        /\ q[n].sender = legs[n].sender /\ q[n].receiver = legs[n].receiver
        /\ q[n].amount = legs[n].amount /\ q[n].currency = c
  BY <1>2, <1>3, <1>5
<1>. QED BY <1>1, <1>3, <1>4, <1>5, <1>6 DEF legs, L

\* Greedy netting takes from every firm what it owes, and brings it what it is due.
LEMMA GreedyFlows ==
  ASSUME NEW S \in SUBSET Obl, NEW c, Currencies(S) = {c},
         NEW q, q = MinimalSettlement(S, c), NEW f \in Firm, NEW d \in Currency,
         NEW n, n = NetOfCur(Facts(S), f, c)
  PROVE  /\ n \in Int
         /\ SeqTotal(Takes(f, d), q) = IF d = c /\ n < 0 THEN -n ELSE 0
         /\ SeqTotal(Brings(f, d), q) = IF d = c /\ n > 0 THEN n ELSE 0
<1>. DEFINE net == NetPositions(S)
            legs == Match(net)
<1>1. /\ Positions(net) /\ DOMAIN net = Involved(S) /\ c \in Currency
      /\ SumFunctionOnSet(net, DOMAIN net) = 0
      /\ f \in Involved(S) => net[f] = n
  BY OneCurrencyBook
<1>2. /\ Len(q) \in Nat /\ Len(q) = Len(legs)
      /\ \A k \in 1 .. Len(q) :
           /\ q[k] \in Transfer /\ legs[k] \in MatchLeg(net)
           /\ q[k].sender = legs[k].sender /\ q[k].receiver = legs[k].receiver
           /\ q[k].amount = legs[k].amount /\ q[k].currency = c
  BY GreedyLegs
<1>. HIDE DEF net, legs
<1>3. \A t \in Transfer :
        /\ Takes(f, d)[t] = IF t.currency = d /\ t.sender = f THEN t.amount ELSE 0
        /\ Brings(f, d)[t] = IF t.currency = d /\ t.receiver = f THEN t.amount ELSE 0
  BY DEF Takes, Brings
<1>4. f \notin Involved(S) => n = 0
  BY <1>1, NothingDue
<1>5. n \in Int
  BY <1>1, <1>4 DEF Positions
<1>6. CASE d # c
  <2>1. \A k \in 1 .. Len(q) : Takes(f, d)[q[k]] = 0 /\ Brings(f, d)[q[k]] = 0
    BY <1>2, <1>3, <1>6
  <2>2. SeqTotal(Takes(f, d), q) = 0 /\ SeqTotal(Brings(f, d), q) = 0
    BY <1>2, <2>1, SeqTotalNothing
  <2>. QED BY <1>5, <1>6, <2>2
<1>7. CASE d = c /\ f \notin Involved(S)
  <2>1. \A k \in 1 .. Len(q) : q[k].sender # f /\ q[k].receiver # f
    BY <1>1, <1>2, <1>7 DEF MatchLeg, Payers, Receivers
  <2>2. \A k \in 1 .. Len(q) : Takes(f, d)[q[k]] = 0 /\ Brings(f, d)[q[k]] = 0
    BY <1>2, <1>3, <2>1
  <2>3. SeqTotal(Takes(f, d), q) = 0 /\ SeqTotal(Brings(f, d), q) = 0
    BY <1>2, <2>2, SeqTotalNothing
  <2>. QED BY <1>4, <1>7, <2>3
<1>8. CASE d = c /\ f \in Involved(S)
  <2>1. \A l \in MatchLeg(net) :
          /\ Paid(net)[f][l] = IF l.sender = f THEN l.amount ELSE 0
          /\ Got(net)[f][l] = IF l.receiver = f THEN l.amount ELSE 0
    BY <1>1, <1>8 DEF Paid, Got
  <2>2. \A k \in 1 .. Len(q) : /\ Takes(f, d)[q[k]] = Paid(net)[f][legs[k]]
                               /\ Brings(f, d)[q[k]] = Got(net)[f][legs[k]]
    BY <1>2, <1>3, <1>8, <2>1
  <2>3. /\ SeqTotal(Takes(f, d), q) = SeqTotal(Paid(net)[f], legs)
        /\ SeqTotal(Brings(f, d), q) = SeqTotal(Got(net)[f], legs)
    <3>. DEFINE t == Takes(f, d)
                b == Brings(f, d)
                p == Paid(net)[f]
                g == Got(net)[f]
    <3>0. Len(q) = Len(legs) /\ Len(q) \in Nat
      BY <1>2
    <3>1. \A k \in 1 .. Len(q) : t[q[k]] = p[legs[k]]
      BY <2>2
    <3>2. \A k \in 1 .. Len(q) : b[q[k]] = g[legs[k]]
      BY <2>2
    <3>. HIDE DEF t, b, p, g
    <3>3. SeqTotal(t, q) = SeqTotal(p, legs)
      BY ONLY <3>0, <3>1, SeqTotalSame
    <3>4. SeqTotal(b, q) = SeqTotal(g, legs)
      BY ONLY <3>0, <3>2, SeqTotalSame
    <3>. QED BY <3>3, <3>4 DEF t, b, p, g
  <2>4. /\ SeqTotal(Paid(net)[f], legs) = Owes(net)[f]
        /\ SeqTotal(Got(net)[f], legs) = DueTo(net)[f]
    BY <1>1, <1>8, MatchSettles DEF legs
  <2>5. /\ Owes(net)[f] = IF n < 0 THEN -n ELSE 0
        /\ DueTo(net)[f] = IF n > 0 THEN n ELSE 0
    BY <1>1, <1>8 DEF Owes, DueTo
  <2>. QED BY <1>5, <1>8, <2>3, <2>4, <2>5
<1>. QED BY <1>6, <1>7, <1>8

\* A book in one currency c is of no interest in any other.
LEMMA OtherCurrencies ==
  ASSUME NEW S \in SUBSET Obl, NEW c, Currencies(S) = {c}, NEW f, NEW d, d # c
  PROVE  NetOfCur(Facts(S), f, d) = 0
<1>. DEFINE T == [e \in Currencies(S) |-> InCurrency(S, e)]
<1>1. /\ \A e \in Currencies(S) : T[e] \subseteq InCurrency(S, e)
      /\ S = UNION {T[e] : e \in Currencies(S)}
  <2>1. S = UNION {InCurrency(S, e) : e \in Currencies(S)}
    BY DEF InCurrency, Currencies
  <2>. QED BY <2>1
<1>2. d \notin Currencies(S)
  OBVIOUS
<1>. HIDE DEF T
<1>. QED BY <1>1, <1>2, NetOfUnion

LEMMA GreedyConserves ==
  ASSUME NEW S \in SUBSET Obl, NEW c, Currencies(S) = {c},
         NEW q, q = MinimalSettlement(S, c), NEW f \in Firm, NEW d \in Currency
  PROVE  NetOfCur(Facts(S), f, d) = NetOfCur(q, f, d)
<1>. DEFINE n == NetOfCur(Facts(S), f, c)
<1>1. q \in Seq(Transfer)
  BY GreedyTyped
<1>2. NetOfCur(q, f, d) = SeqTotal(Brings(f, d), q) - SeqTotal(Takes(f, d), q)
  <2>1. /\ OutOf(q, f, d) = SeqTotal(Takes(f, d), q)
        /\ NetOfCur(q, f, d) = SeqTotal(Brings(f, d), q) - SeqTotal(Takes(f, d), q)
        /\ TotalOf(q, {i \in In(q, d) : q[i].sender = f /\ q[i].receiver = f})
             = SeqTotal(Passes(f, f, d), q)
        /\ GrossOf(q, d) = SeqTotal(Counts(d), q)
    BY <1>1, LegSums
  <2>. QED BY <2>1
<1>3. n = NetOfCur(Facts(S), f, c)
  OBVIOUS
<1>. HIDE DEF n
<1>4. /\ n \in Int
      /\ SeqTotal(Takes(f, d), q) = IF d = c /\ n < 0 THEN -n ELSE 0
      /\ SeqTotal(Brings(f, d), q) = IF d = c /\ n > 0 THEN n ELSE 0
  BY <1>3, GreedyFlows
<1>5. CASE d = c
  BY <1>2, <1>3, <1>4, <1>5
<1>6. CASE d # c
  <2>1. NetOfCur(Facts(S), f, d) = 0
    BY <1>6, OtherCurrencies
  <2>. QED BY <1>2, <1>4, <1>6, <2>1
<1>. QED BY <1>5, <1>6

\* What greedy netting moves is what the payers owe, net.
LEMMA GreedyGross ==
  ASSUME NEW S \in SUBSET Obl, NEW c, Currencies(S) = {c},
         NEW q, q = MinimalSettlement(S, c), NEW l,
         \A f \in Firm : l[f] = IF NetOfCur(Facts(S), f, c) < 0
                                THEN -NetOfCur(Facts(S), f, c) ELSE 0
  PROVE  GrossOf(q, c) = SumFunctionOnSet(l, Firm)
<1>1. q \in Seq(Transfer) /\ q \in [DOMAIN q -> Transfer] /\ IsFiniteSet(DOMAIN q)
  <2>1. q \in Seq(Transfer)
    BY GreedyTyped
  <2>2. IsFiniteSet(1 .. Len(q))
    BY <2>1, FS_Interval
  <2>. QED BY <2>1, <2>2
<1>. DEFINE out == [f \in Firm |-> OutOf(q, f, c)]
<1>2. SumFunctionOnSet(out, Firm) = GrossOf(q, c)
  BY <1>1, GrossFlows
<1>3. ASSUME NEW f \in Firm  PROVE out[f] = l[f]
  <2>. DEFINE n == NetOfCur(Facts(S), f, c)
  <2>1. out[f] = SeqTotal(Takes(f, c), q)
    <3>1. /\ OutOf(q, f, c) = SeqTotal(Takes(f, c), q)
          /\ NetOfCur(q, f, c) = SeqTotal(Brings(f, c), q) - SeqTotal(Takes(f, c), q)
          /\ TotalOf(q, {i \in In(q, c) : q[i].sender = f /\ q[i].receiver = f})
               = SeqTotal(Passes(f, f, c), q)
          /\ GrossOf(q, c) = SeqTotal(Counts(c), q)
      BY <1>1, LegSums
    <3>. QED BY <3>1
  <2>2. n = NetOfCur(Facts(S), f, c) /\ l[f] = (IF n < 0 THEN -n ELSE 0) /\ c \in Currency
    BY OneCurrencyBook
  <2>. HIDE DEF n, out
  <2>3. /\ n \in Int
        /\ SeqTotal(Takes(f, c), q) = IF c = c /\ n < 0 THEN -n ELSE 0
        /\ SeqTotal(Brings(f, c), q) = IF c = c /\ n > 0 THEN n ELSE 0
    BY <2>2, GreedyFlows
  <2>. QED BY <2>1, <2>2, <2>3
<1>4. SumFunctionOnSet(out, Firm) = SumFunctionOnSet(l, Firm)
  <2>. HIDE DEF out
  <2>. QED BY <1>3, FiniteLedger, SumSame
<1>. QED BY <1>2, <1>4

\* Legs in one currency come to the gross in it.
LEMMA GrossInOne ==
  ASSUME NEW q, NEW c, \A i \in DOMAIN q : q[i].currency = c
  PROVE  Gross(q) = GrossOf(q, c)
<1>1. In(q, c) = DOMAIN q
  BY DEF In
<1>. QED BY <1>1 DEF Gross, GrossOf

\* The strict solver's legs for a book in one currency are in that currency.
LEMMA SolveCurrency ==
  ASSUME NEW S \in SUBSET Obl, NEW r, NEW T, NEW x, PlanOf(S, r, T, x), NEW i \in DOMAIN r.legs
  PROVE  r.legs[i].currency \in Currencies(S)
<1>0. \A f : \A d \in Currency :
        SeqTotal(Brings(f, d), r.legs) = IF d \in Currencies(S) THEN Received(x[d], f) ELSE 0
  BY DEF PlanOf
<1>. DEFINE f == r.legs[i].receiver
            d == r.legs[i].currency
<1>1. r.legs \in Seq(Transfer)
  BY DEF PlanOf
<1>2. d \in Currency
  <2>1. r.legs[i] \in Transfer
    BY <1>1
  <2>2. \A t \in Transfer : t.currency \in Currency
    BY DEF Transfer
  <2>. QED BY <2>1, <2>2
<1>3. SeqTotal(Brings(f, d), r.legs) > 0
  BY <1>1, LegBrings
<1>. HIDE DEF f, d
<1>4. SeqTotal(Brings(f, d), r.legs) = IF d \in Currencies(S) THEN Received(x[d], f) ELSE 0
  BY <1>0, <1>2
<1>5. d \in Currencies(S)
  BY <1>3, <1>4
<1>. QED BY <1>5 DEF d

\* Greedy netting brings every firm what the book was to bring it, in fewer transfers
\* than it has firms, and moves as much as the linear program, for every book in one
\* currency.
THEOREM GreedyIsMinimal == PSpec => []GreedyMatchesSolve
<1>1. PlanInv => GreedyMatchesSolve
  <2>. SUFFICES ASSUME PlanInv, Found("greedy")  PROVE GreedyMatchesSolve
    BY DEF GreedyMatchesSolve
  <2>. DEFINE S == Book
              B == BatchFor(planned)
  <2>1. PICK c : /\ Currencies(S) = {c}
                 /\ planned.obligations = S /\ planned.legs = MinimalSettlement(S, c)
    BY DEF PlanInv, PlannedFrom
  <2>. DEFINE q == MinimalSettlement(S, c)
              net == NetPositions(S)
  <2>2. S \in SUBSET Obl
    BY DEF Book
  <2>3. /\ B.obligations = S /\ B.residualLegs = q /\ B.parties = Involved(S) /\ B.fxRates = {}
    BY <2>1, BatchShape DEF Found
  <2>. HIDE DEF S, B
  <2>4. /\ Positions(net) /\ DOMAIN net = Involved(S) /\ Involved(S) \subseteq Firm
        /\ SumFunctionOnSet(net, DOMAIN net) = 0 /\ c \in Currency
    BY <2>1, <2>2, OneCurrencyBook
  <2>5. /\ Len(q) \in Nat /\ Len(q) = Len(Match(net)) /\ DOMAIN q = 1 .. Len(q)
        /\ \A n \in 1 .. Len(q) : q[n].currency = c
        /\ Match(net) \in Seq(MatchLeg(net)) /\ q \in Seq(Transfer)
    BY <2>1, <2>2, GreedyLegs
  <2>6. Conserves(B)
    <3>1. ASSUME NEW d \in Currency, NEW f \in Firm
          PROVE  NetOfCur(Facts(S), f, d) = NetOfCur(q, f, d)
      <4>1. q = MinimalSettlement(S, c)
        OBVIOUS
      <4>. HIDE DEF q
      <4>. QED BY <2>1, <2>2, <4>1, GreedyConserves
    <3>. HIDE DEF q, net
    <3>. QED BY <2>3, <2>4, <3>1, ConservesWithoutRates
  <2>7. q # <<>> => Len(q) < Cardinality(Involved(S))
    <3>. HIDE DEF net, q
    <3>. SUFFICES ASSUME q # <<>>  PROVE Len(q) < Cardinality(Involved(S))
      OBVIOUS
    <3>1. Len(q) # 0
      BY <2>5
    <3>2. Match(net) # <<>>
      BY <2>5, <3>1
    <3>. QED BY <2>4, <2>5, <3>2, MatchIsShort
  <2>8. ASSUME NEW r \in Solve(S, {}, NoWeights)
        PROVE  Gross(q) = Gross(r.legs)
    <3>. DEFINE l == [f \in Firm |-> IF NetOfCur(Facts(S), f, c) < 0
                                     THEN -NetOfCur(Facts(S), f, c) ELSE 0]
    <3>1. \A f \in Firm : l[f] = IF NetOfCur(Facts(S), f, c) < 0
                                 THEN -NetOfCur(Facts(S), f, c) ELSE 0
      OBVIOUS
    <3>2. q = MinimalSettlement(S, c)
      OBVIOUS
    <3>. HIDE DEF l, q, net
    <3>3. PICK T, x : /\ PlanOf(S, r, T, x)
                      /\ \A d \in Currencies(S) : /\ T[d] = InCurrency(S, d)
                                                  /\ x[d] \in DirectIn(S, d)
      <4>. DEFINE K == {}
      <4>1. r \in Solve(S, K, NoWeights)
        BY <2>8
      <4>. HIDE DEF K
      <4>2. \E T, x : /\ PlanOf(S, r, T, x)
                      /\ \A d \in Currencies(S) : /\ T[d] = InCurrency(S, d)
                                                  /\ x[d] \in DirectIn(S, d)
                                                  /\ WithinCaps(x[d], K, d)
        BY <2>2, <4>1, SolveFlows
      <4>. QED BY <4>2
    <3>4. GrossOf(r.legs, c) = SumFunctionOnSet(l, Firm)
      BY <2>2, <2>4, <3>1, <3>3, SolveGross
    <3>5. GrossOf(q, c) = SumFunctionOnSet(l, Firm)
      BY <2>1, <2>2, <3>1, <3>2, GreedyGross
    <3>6. \A i \in DOMAIN r.legs : r.legs[i].currency = c
      BY <2>1, <2>2, <3>3, SolveCurrency
    <3>7. Gross(r.legs) = GrossOf(r.legs, c) /\ Gross(q) = GrossOf(q, c)
      BY <2>5, <3>6, GrossInOne
    <3>. QED BY <3>4, <3>5, <3>7
  <2>. HIDE DEF q, net
  <2>9. planned.legs = q
    BY <2>1 DEF q
  <2>. QED BY <2>6, <2>7, <2>8, <2>9 DEF GreedyMatchesSolve, B, S
<1>. QED BY <1>1, PlanInvHolds, PTL

-----------------------------------------------------------------------------
(* Deferring nothing.                                                      *)

\* What f owes net of what T is to bring it, in c; and what any flow that settles
\* T has to move.
Owing(T, c) ==
  [f \in Firm |-> IF NetOfCur(Facts(T), f, c) < 0 THEN -NetOfCur(Facts(T), f, c) ELSE 0]

LeastFlow(T, c) == SumFunctionOnSet(Owing(T, c), Firm)

Volume(x) == SumFunctionOnSet(x, DOMAIN x)

LEMMA VolumeNat ==
  ASSUME NEW x, FlowOK(x)
  PROVE  Volume(x) \in Nat
  BY SumNat DEF FlowOK, Volume

\* Without a policy a flow costs what it moves.
LEMMA CostIsVolume ==
  ASSUME NEW x, FlowOK(x)
  PROVE  Cost(x, NoWeights) = Volume(x)
<1>. DEFINE D == DOMAIN x
            cost == [arc \in D |-> (1 + NoWeights[arc]) * x[arc]]
<1>1. IsFiniteSet(D) /\ \A arc \in D : x[arc] \in Nat /\ arc \in Firm \X Firm
  BY DEF FlowOK
<1>2. \A arc \in D : cost[arc] = x[arc]
  BY <1>1 DEF NoWeights
<1>3. Cost(x, NoWeights) = SumFunctionOnSet(cost, D)
  BY DEF Cost
<1>. HIDE DEF cost, D
<1>4. SumFunctionOnSet(cost, D) = SumFunctionOnSet(x, D)
  BY <1>1, <1>2, SumSame
<1>. QED BY <1>3, <1>4 DEF Volume, D

LEMMA FirmFlows ==
  ASSUME NEW x, FlowOK(x), NEW s, \A f \in Firm : s[f] = Sent(x, f)
  PROVE  /\ Volume(x) = SumFunctionOnSet(s, Firm)
         /\ \A f \in Firm : s[f] \in Nat /\ Received(x, f) \in Nat
<1>1. ASSUME NEW f  PROVE Sent(x, f) \in Nat /\ Received(x, f) \in Nat
  <2>1. ASSUME NEW W \in SUBSET DOMAIN x  PROVE SumFunctionOnSet(x, W) \in Nat
    <3>1. IsFiniteSet(W) /\ \A arc \in W : x[arc] \in Nat
      BY FS_Subset DEF FlowOK
    <3>. QED BY <3>1, SumNat
  <2>. QED BY <2>1 DEF Sent, Received
<1>. DEFINE r == [f \in Firm |-> Received(x, f)]
<1>2. \A f \in Firm : r[f] = Received(x, f)
  OBVIOUS
<1>3. \A arc \in DOMAIN x : arc[1] \in Firm /\ arc[2] \in Firm
  BY DEF FlowOK
<1>. HIDE DEF r
<1>4. SumFunctionOnSet(s, Firm) = SumFunctionOnSet(x, DOMAIN x)
  BY <1>2, <1>3, FiniteLedger, AllSentIsReceived
<1>. QED BY <1>1, <1>4 DEF Volume

LEMMA OwingTyped ==
  ASSUME NEW T \in SUBSET Obl, NEW c
  PROVE  /\ LeastFlow(T, c) \in Nat
         /\ \A f \in Firm : /\ NetOfCur(Facts(T), f, c) \in Int /\ Owing(T, c)[f] \in Nat
                            /\ Owing(T, c)[f] = IF NetOfCur(Facts(T), f, c) < 0
                                                THEN -NetOfCur(Facts(T), f, c) ELSE 0
<1>1. \A f \in Firm : NetOfCur(Facts(T), f, c) \in Int
  BY FactsShape, NetsCancel
<1>2. \A f \in Firm : /\ Owing(T, c)[f] \in Nat
                      /\ Owing(T, c)[f] = IF NetOfCur(Facts(T), f, c) < 0
                                          THEN -NetOfCur(Facts(T), f, c) ELSE 0
  BY <1>1 DEF Owing
<1>3. LeastFlow(T, c) \in Nat
  BY <1>2, FiniteLedger, SumNat DEF LeastFlow
<1>. QED BY <1>1, <1>2, <1>3

\* Whatever settles T moves what the firms owe net, or more.
LEMMA FlowNeeds ==
  ASSUME NEW T \in SUBSET Obl, NEW c \in Currency, NEW x, FlowOK(x), Balanced(x, T, c)
  PROVE  LeastFlow(T, c) <= Volume(x)
<1>. DEFINE s == [f \in Firm |-> Sent(x, f)]
<1>1. \A f \in Firm : s[f] = Sent(x, f)
  OBVIOUS
<1>. HIDE DEF s
<1>2. /\ Volume(x) = SumFunctionOnSet(s, Firm)
      /\ \A f \in Firm : s[f] \in Nat /\ Received(x, f) \in Nat
  BY <1>1, FirmFlows
<1>3. ASSUME NEW f \in Firm  PROVE Owing(T, c)[f] \in Int /\ s[f] \in Int /\ Owing(T, c)[f] <= s[f]
  <2>1. Received(x, f) - s[f] = NetOfCur(Facts(T), f, c)
    BY <1>1 DEF Balanced
  <2>. QED BY <1>2, <2>1, OwingTyped
<1>4. SumFunctionOnSet(Owing(T, c), Firm) <= SumFunctionOnSet(s, Firm)
  BY <1>3, FiniteLedger, SumAtMost
<1>. QED BY <1>2, <1>4 DEF LeastFlow

\* What goes straight from payers to receivers moves no more.
LEMMA DirectNeeds ==
  ASSUME NEW S \in SUBSET Obl, NEW c \in Currencies(S), NEW x \in DirectIn(S, c)
  PROVE  Volume(x) = LeastFlow(InCurrency(S, c), c)
<1>. DEFINE T == InCurrency(S, c)
            net == NetPositions(T)
            s == [f \in Firm |-> Sent(x, f)]
<1>1. /\ Positions(net) /\ DOMAIN net = Involved(T) /\ DOMAIN net \subseteq Firm
      /\ \A p \in Firm : p \in DOMAIN net => net[p] = NetOfCur(Facts(T), p, c)
  BY PositionsInOne
<1>2. T \in SUBSET Obl /\ c \in Currency
  BY InOneCurrency
<1>3. FlowOK(x) /\ \A f : Sent(x, f) = IF f \in Payers(net) THEN -net[f] ELSE 0
  <2>1. x \in DirectFlows(net)
    BY DEF DirectIn
  <2>. HIDE DEF net
  <2>. QED BY <1>1, <2>1, DirectMoves
<1>4. \A f \in Firm : s[f] = Sent(x, f)
  OBVIOUS
<1>. HIDE DEF T, net, s
<1>5. ASSUME NEW f \in Firm  PROVE s[f] = Owing(T, c)[f]
  <2>1. f \notin DOMAIN net => NetOfCur(Facts(T), f, c) = 0
    BY <1>1, <1>2, NothingDue
  <2>2. Owing(T, c)[f] = IF NetOfCur(Facts(T), f, c) < 0
                         THEN -NetOfCur(Facts(T), f, c) ELSE 0
    BY <1>2, OwingTyped
  <2>3. s[f] = IF f \in Payers(net) THEN -net[f] ELSE 0
    BY <1>3, <1>4
  <2>. QED BY <1>1, <2>1, <2>2, <2>3 DEF Payers
<1>6. SumFunctionOnSet(s, Firm) = SumFunctionOnSet(Owing(T, c), Firm)
  BY <1>5, FiniteLedger, SumSame
<1>7. Volume(x) = SumFunctionOnSet(s, Firm)
  BY <1>3, <1>4, FirmFlows
<1>. QED BY <1>6, <1>7 DEF LeastFlow, T

\* The facts of a part of a book.
LEMMA NetInParts ==
  ASSUME NEW S \in SUBSET Obl, NEW T \in SUBSET S, NEW c, NEW f
  PROVE  /\ NetOfCur(Facts(S), f, c) = NetOfCur(Facts(T), f, c) + NetOfCur(Facts(S \ T), f, c)
         /\ NetOfCur(Facts(T), f, c) \in Int /\ NetOfCur(Facts(S \ T), f, c) \in Int
         /\ OutOf(Facts(S \ T), f, c) \in Nat
         /\ -NetOfCur(Facts(S \ T), f, c) <= OutOf(Facts(S \ T), f, c)
<1>. DEFINE D == S \ T
            g == [o \in S |-> InFlow(Facts(S), f, c)[o] - OutFlow(Facts(S), f, c)[o]]
            net(U) == NetOfCur(Facts(U), f, c)
<1>1. T \in SUBSET Obl /\ D \in SUBSET Obl /\ IsFiniteSet(S) /\ IsFiniteSet(T) /\ IsFiniteSet(D)
        /\ T \cap D = {} /\ S = T \union D
  <2>1. IsFiniteSet(S)
    BY FactsShape
  <2>. QED BY <2>1, FS_Subset
<1>2. \A o \in S : /\ g[o] = InFlow(Facts(S), f, c)[o] - OutFlow(Facts(S), f, c)[o]
                   /\ g[o] \in Int
  <2>1. Facts(S) \in [S -> Transfer]
    BY FactsShape
  <2>2. \A o \in S : InFlow(Facts(S), f, c)[o] \in Nat /\ OutFlow(Facts(S), f, c)[o] \in Nat
    BY <2>1, FlowNat
  <2>. QED BY <2>2
<1>3. ASSUME NEW U \in SUBSET S
      PROVE  /\ net(U) = SumFunctionOnSet(g, U) /\ net(U) \in Int
             /\ OutOf(Facts(U), f, c) \in Nat /\ -net(U) <= OutOf(Facts(U), f, c)
  <2>. DEFINE in == InFlow(Facts(U), f, c)
              out == OutFlow(Facts(U), f, c)
  <2>1. /\ Facts(U) \in [U -> Transfer] /\ IsFiniteSet(U)
        /\ \A o \in U : Facts(U)[o] = Facts(S)[o]
        /\ DOMAIN Facts(U) = U /\ DOMAIN Facts(S) = S
    <3>1. U \in SUBSET Obl
      OBVIOUS
    <3>. QED BY <3>1, FactsShape DEF Facts
  <2>2. /\ OutOf(Facts(U), f, c) = SumFunctionOnSet(out, U)
        /\ net(U) = SumFunctionOnSet(in, U) - OutOf(Facts(U), f, c)
        /\ OutOf(Facts(U), f, c) \in Nat /\ SumFunctionOnSet(in, U) \in Nat
    BY <2>1, NetIsFlow
  <2>3. ASSUME NEW o \in U  PROVE in[o] \in Int /\ out[o] \in Int /\ g[o] = in[o] - out[o]
    <3>1. in[o] \in Nat /\ out[o] \in Nat
      BY <2>1, FlowNat
    <3>2. in[o] = InFlow(Facts(S), f, c)[o] /\ out[o] = OutFlow(Facts(S), f, c)[o]
      BY <2>1 DEF InFlow, OutFlow
    <3>. QED BY <1>2, <3>1, <3>2
  <2>. HIDE DEF in, out, g
  <2>4. SumFunctionOnSet(g, U) = SumFunctionOnSet(in, U) - SumFunctionOnSet(out, U)
    BY <2>1, <2>3, SumMinus
  <2>. QED BY <2>2, <2>4
<1>. HIDE DEF g, net, D
<1>4. SumFunctionOnSet(g, S) = SumFunctionOnSet(g, T) + SumFunctionOnSet(g, D)
  <2>1. SumFunctionOnSet(g, T \union D) = SumFunctionOnSet(g, T) + SumFunctionOnSet(g, D)
    <3>1. \A o \in T \union D : g[o] \in Int
      BY <1>1, <1>2
    <3>. QED BY <1>1, <3>1, SumUnion
  <2>. QED BY <1>1, <2>1
<1>5. /\ net(S) = SumFunctionOnSet(g, S) /\ net(T) = SumFunctionOnSet(g, T)
      /\ net(D) = SumFunctionOnSet(g, D) /\ net(T) \in Int /\ net(D) \in Int
      /\ OutOf(Facts(D), f, c) \in Nat /\ -net(D) <= OutOf(Facts(D), f, c)
  <2>1. S \in SUBSET S /\ T \in SUBSET S /\ D \in SUBSET S
    BY DEF D
  <2>. QED BY <1>3, <2>1
<1>. QED BY <1>4, <1>5 DEF net, D

\* Settling less saves no more flow than the value it leaves open.
LEMMA DeferralSaves ==
  ASSUME NEW S \in SUBSET Obl, NEW c \in Currencies(S), NEW T \in SUBSET InCurrency(S, c)
  PROVE  LET book == InCurrency(S, c) IN
         /\ LeastFlow(book, c) + ValueOf(T) <= LeastFlow(T, c) + ValueOf(book)
         /\ ValueOf(T) \in Nat /\ ValueOf(book) \in Nat
         /\ T # book => ValueOf(T) < ValueOf(book)
<1>. DEFINE B == InCurrency(S, c)
            D == B \ T
            v == [o \in B |-> OblTerms[o].amount]
            out == [f \in Firm |-> OutOf(Facts(D), f, c)]
            both == [f \in Firm |-> Owing(T, c)[f] + out[f]]
<1>1. /\ B \in SUBSET Obl /\ c \in Currency /\ (\A o \in B : OblTerms[o].currency = c)
      /\ T \in SUBSET Obl /\ D \in SUBSET Obl
  BY InOneCurrency
<1>. HIDE DEF B
<1>2. /\ IsFiniteSet(B) /\ IsFiniteSet(T) /\ IsFiniteSet(D)
      /\ T \in SUBSET B /\ D \in SUBSET B /\ T \cap D = {} /\ B = T \union D
  <2>1. IsFiniteSet(B)
    BY <1>1, FactsShape
  <2>. QED BY <2>1, FS_Subset DEF B
<1>3. \A o \in B : v[o] \in Nat \ {0}
  BY <1>1, BookCurrencies
<1>4. ASSUME NEW U \in SUBSET B
      PROVE  ValueOf(U) = SumFunctionOnSet(v, U) /\ ValueOf(U) \in Nat
  <2>. DEFINE u == [o \in U |-> OblTerms[o].amount]
  <2>1. IsFiniteSet(U) /\ \A o \in U : u[o] = v[o] /\ u[o] \in Nat
    BY <1>2, <1>3, FS_Subset
  <2>2. ValueOf(U) = SumFunctionOnSet(u, U)
    BY DEF ValueOf
  <2>. HIDE DEF u, v
  <2>3. SumFunctionOnSet(u, U) = SumFunctionOnSet(v, U)
    BY <2>1, SumSame
  <2>4. SumFunctionOnSet(u, U) \in Nat
    BY <2>1, SumNat
  <2>. QED BY <2>2, <2>3, <2>4
<1>5. ValueOf(B) = ValueOf(T) + ValueOf(D) /\ ValueOf(B) \in Nat /\ ValueOf(T) \in Nat
        /\ ValueOf(D) \in Nat
  <2>1. SumFunctionOnSet(v, T \union D) = SumFunctionOnSet(v, T) + SumFunctionOnSet(v, D)
    <3>1. \A o \in T \union D : v[o] \in Int
      BY <1>2, <1>3
    <3>. HIDE DEF v, D
    <3>. QED BY <1>2, <3>1, SumUnion
  <2>2. B \in SUBSET B
    OBVIOUS
  <2>. HIDE DEF v, D
  <2>. QED BY <1>2, <1>4, <2>1, <2>2
<1>6. T # B => ValueOf(D) > 0
  <2>. SUFFICES ASSUME T # B  PROVE ValueOf(D) > 0
    OBVIOUS
  <2>1. PICK o \in D : TRUE
    BY <1>2
  <2>. HIDE DEF v, D
  <2>2. \A y \in D : v[y] \in Int
    BY <1>2, <1>3
  <2>3. SumFunctionOnSet(v, D) = v[o] + SumFunctionOnSet(v, D \ {o})
    BY <1>2, <2>2, SumRemove
  <2>4. SumFunctionOnSet(v, D \ {o}) \in Nat
    <3>1. IsFiniteSet(D \ {o}) /\ \A y \in D \ {o} : v[y] \in Nat
      BY <1>2, <1>3, FS_RemoveElement
    <3>. QED BY <3>1, SumNat
  <2>5. v[o] \in Nat \ {0}
    BY <1>2, <1>3
  <2>6. ValueOf(D) = SumFunctionOnSet(v, D)
    BY <1>2, <1>4
  <2>. QED BY <2>3, <2>4, <2>5, <2>6
<1>7. SumFunctionOnSet(out, Firm) = ValueOf(D)
  <2>1. Facts(D) \in [D -> Transfer] /\ (\A o \in D : Facts(D)[o].amount = OblTerms[o].amount
                                                    /\ Facts(D)[o].currency = c)
    BY <1>1, <1>2, FactsShape
  <2>2. SumFunctionOnSet([f \in Firm |-> OutOf(Facts(D), f, c)], Firm) = GrossOf(Facts(D), c)
    <3>. HIDE DEF D
    <3>. QED BY <1>2, <2>1, GrossFlows
  <2>3. GrossOf(Facts(D), c) = ValueOf(D)
    <3>1. In(Facts(D), c) = D
      BY <2>1 DEF In
    <3>2. GrossOf(Facts(D), c) = SumFunctionOnSet([o \in D |-> Facts(D)[o].amount], D)
      BY <3>1 DEF GrossOf, TotalOf
    <3>3. [o \in D |-> Facts(D)[o].amount] = [o \in D |-> OblTerms[o].amount]
      BY <2>1
    <3>. QED BY <3>2, <3>3 DEF ValueOf
  <2>. QED BY <2>2, <2>3
<1>8. ASSUME NEW f \in Firm
      PROVE  /\ Owing(B, c)[f] \in Int /\ both[f] \in Int /\ Owing(B, c)[f] <= both[f]
             /\ out[f] \in Int /\ Owing(T, c)[f] \in Int
             /\ Owing(T, c)[f] = both[f] - out[f]
  <2>1. /\ NetOfCur(Facts(B), f, c) = NetOfCur(Facts(T), f, c) + NetOfCur(Facts(D), f, c)
        /\ NetOfCur(Facts(T), f, c) \in Int /\ NetOfCur(Facts(D), f, c) \in Int
        /\ out[f] \in Nat /\ -NetOfCur(Facts(D), f, c) <= out[f]
    <3>1. B \in SUBSET Obl /\ T \in SUBSET B
      BY <1>1, <1>2
    <3>2. /\ NetOfCur(Facts(B), f, c) = NetOfCur(Facts(T), f, c) + NetOfCur(Facts(B \ T), f, c)
          /\ NetOfCur(Facts(T), f, c) \in Int /\ NetOfCur(Facts(B \ T), f, c) \in Int
          /\ OutOf(Facts(B \ T), f, c) \in Nat
          /\ -NetOfCur(Facts(B \ T), f, c) <= OutOf(Facts(B \ T), f, c)
      BY <3>1, NetInParts
    <3>3. out[f] = OutOf(Facts(B \ T), f, c)
      OBVIOUS
    <3>. HIDE DEF out
    <3>. QED BY <3>2, <3>3
  <2>2. /\ Owing(B, c)[f] = IF NetOfCur(Facts(B), f, c) < 0
                            THEN -NetOfCur(Facts(B), f, c) ELSE 0
        /\ Owing(T, c)[f] = IF NetOfCur(Facts(T), f, c) < 0
                            THEN -NetOfCur(Facts(T), f, c) ELSE 0
    BY <1>1, OwingTyped
  <2>3. both[f] = Owing(T, c)[f] + out[f]
    OBVIOUS
  <2>. HIDE DEF both, out, D
  <2>. QED BY <2>1, <2>2, <2>3
<1>9. LeastFlow(B, c) <= SumFunctionOnSet(both, Firm)
  <2>. HIDE DEF both, out
  <2>1. \A f \in Firm : Owing(B, c)[f] \in Int /\ both[f] \in Int /\ Owing(B, c)[f] <= both[f]
    BY <1>8
  <2>. QED BY <2>1, FiniteLedger, SumAtMost DEF LeastFlow
<1>10. LeastFlow(T, c) = SumFunctionOnSet(both, Firm) - SumFunctionOnSet(out, Firm)
  <2>. HIDE DEF both, out
  <2>1. \A f \in Firm : both[f] \in Int /\ out[f] \in Int /\ Owing(T, c)[f] = both[f] - out[f]
    BY <1>8
  <2>. QED BY <2>1, FiniteLedger, SumMinus DEF LeastFlow
<1>11. SumFunctionOnSet(both, Firm) \in Int
  <2>1. \A f \in Firm : both[f] \in Int
    BY <1>8
  <2>2. Firm \in SUBSET Firm
    OBVIOUS
  <2>. HIDE DEF both
  <2>. QED BY <2>1, <2>2, FiniteLedger, SumInt
<1>. HIDE DEF both, out, D
<1>12. LeastFlow(B, c) \in Nat /\ LeastFlow(T, c) \in Nat
  BY <1>1, OwingTyped
<1>. QED BY <1>5, <1>6, <1>7, <1>9, <1>10, <1>11, <1>12 DEF B

\* Of two members of a set that is listed once, one comes first.
PairsOf(order) == {<<order[ij[1]], order[ij[2]]>> :
                     ij \in {ij \in (DOMAIN order) \X (DOMAIN order) : ij[1] < ij[2]}}

LEMMA PairOnce ==
  ASSUME NEW R, IsFiniteSet(R), NEW order, order = SetToSeq(R),
         NEW pairs, pairs = PairsOf(order),
         NEW p \in R, NEW q \in R, p # q
  PROVE  <<p, q>> \in pairs <=> <<q, p>> \notin pairs
<1>. DEFINE k == Cardinality(R)
<1>1. /\ k \in Nat /\ DOMAIN order = 1 .. k
      /\ \A m, n \in 1 .. k : m # n => order[m] # order[n]
      /\ \A y \in R : \E n \in 1 .. k : order[n] = y
  BY SetToSeqLists
<1>. HIDE DEF k
<1>2. PICK m \in 1 .. k : order[m] = p
  BY <1>1
<1>3. PICK n \in 1 .. k : order[n] = q
  BY <1>1
<1>4. m # n /\ m \in Nat /\ n \in Nat
  BY <1>1, <1>2, <1>3
<1>5. ASSUME NEW i \in 1 .. k, NEW j \in 1 .. k
      PROVE  <<order[i], order[j]>> \in pairs <=> i < j
  <2>1. ASSUME i < j  PROVE <<order[i], order[j]>> \in pairs
    <3>. DEFINE z == <<i, j>>
    <3>1. z \in {ij \in (DOMAIN order) \X (DOMAIN order) : ij[1] < ij[2]}
      BY <1>1, <2>1
    <3>. QED BY <3>1 DEF PairsOf
  <2>2. ASSUME <<order[i], order[j]>> \in pairs  PROVE i < j
    <3>1. PICK z \in {ij \in (DOMAIN order) \X (DOMAIN order) : ij[1] < ij[2]} :
            <<order[i], order[j]>> = <<order[z[1]], order[z[2]]>>
      BY <2>2 DEF PairsOf
    <3>2. order[i] = order[z[1]] /\ order[j] = order[z[2]]
          /\ z[1] \in 1 .. k /\ z[2] \in 1 .. k /\ z[1] < z[2]
      BY <1>1, <3>1
    <3>3. i = z[1] /\ j = z[2]
      BY <1>1, <3>2
    <3>. QED BY <3>2, <3>3
  <2>. QED BY <2>1, <2>2
<1>6. (<<order[m], order[n]>> \in pairs <=> m < n)
      /\ (<<order[n], order[m]>> \in pairs <=> n < m)
  BY <1>5
<1>7. (<<p, q>> \in pairs <=> m < n) /\ (<<q, p>> \in pairs <=> n < m)
  BY <1>2, <1>3, <1>6
<1>. QED BY <1>4, <1>7

LEMMA TermAtMost ==
  ASSUME NEW S, IsFiniteSet(S), NEW f, \A y \in S : f[y] \in Nat, NEW x \in S
  PROVE  f[x] <= SumFunctionOnSet(f, S) /\ SumFunctionOnSet(f, S) \in Nat
<1>1. \A y \in S : f[y] \in Int
  OBVIOUS
<1>2. SumFunctionOnSet(f, S) = f[x] + SumFunctionOnSet(f, S \ {x})
  BY <1>1, SumRemove
<1>3. SumFunctionOnSet(f, S \ {x}) \in Nat
  <2>1. IsFiniteSet(S \ {x}) /\ \A y \in S \ {x} : f[y] \in Nat
    BY FS_RemoveElement
  <2>. QED BY <2>1, SumNat
<1>. QED BY <1>2, <1>3

\* x, with nothing on the other arcs.
Widened(x, F) == [arc \in ArcsOf(F) |-> IF arc \in DOMAIN x THEN x[arc] ELSE 0]

LEMMA WidenedIs ==
  ASSUME NEW F, IsFiniteSet(F), F \subseteq Firm, NEW x, FlowOK(x), DOMAIN x \subseteq ArcsOf(F),
         NEW y, y = Widened(x, F)
  PROVE  /\ FlowOK(y) /\ DOMAIN y = ArcsOf(F) /\ Volume(y) = Volume(x)
         /\ \A f : Sent(y, f) = Sent(x, f) /\ Received(y, f) = Received(x, f)
<1>. DEFINE A == ArcsOf(F)
<1>1. IsFiniteSet(A) /\ A \subseteq Firm \X Firm
  <2>1. IsFiniteSet(F \X F)
    BY FS_Product
  <2>2. A \in SUBSET (F \X F)
    BY DEF ArcsOf
  <2>. HIDE DEF A
  <2>3. IsFiniteSet(A)
    BY <2>1, <2>2, FS_Subset
  <2>. QED BY <2>2, <2>3
<1>2. DOMAIN y = A /\ \A arc \in A : y[arc] = IF arc \in DOMAIN x THEN x[arc] ELSE 0
  BY DEF Widened
<1>3. \A arc \in DOMAIN x : x[arc] \in Nat
  BY DEF FlowOK
<1>4. FlowOK(y)
  BY <1>1, <1>2, <1>3 DEF FlowOK
<1>5. ASSUME NEW W \in SUBSET A
      PROVE  SumFunctionOnSet(y, W) = SumFunctionOnSet(x, W \cap DOMAIN x)
  <2>. DEFINE V == W \cap DOMAIN x
              h == [arc \in W |-> IF arc \in V THEN x[arc] ELSE 0]
  <2>1. IsFiniteSet(W) /\ V \in SUBSET W /\ \A arc \in V : x[arc] \in Int
    BY <1>1, <1>3, FS_Subset
  <2>2. \A arc \in W : y[arc] = h[arc]
    BY <1>2
  <2>3. SumFunctionOnSet(x, V) = SumFunctionOnSet(h, W)
    <3>. HIDE DEF V
    <3>. QED BY <2>1, SumPart
  <2>4. SumFunctionOnSet(y, W) = SumFunctionOnSet(h, W)
    <3>. HIDE DEF h, V
    <3>. QED BY <2>1, <2>2, SumSame
  <2>. QED BY <2>3, <2>4
<1>6. Volume(y) = Volume(x)
  <2>1. A \cap DOMAIN x = DOMAIN x /\ A \in SUBSET A
    OBVIOUS
  <2>. HIDE DEF A
  <2>. QED BY <1>2, <1>5, <2>1 DEF Volume
<1>7. ASSUME NEW f  PROVE Sent(y, f) = Sent(x, f) /\ Received(y, f) = Received(x, f)
  <2>. DEFINE out == {arc \in A : arc[1] = f}
              in == {arc \in A : arc[2] = f}
  <2>1. out \cap DOMAIN x = {arc \in DOMAIN x : arc[1] = f}
    OBVIOUS
  <2>2. in \cap DOMAIN x = {arc \in DOMAIN x : arc[2] = f}
    OBVIOUS
  <2>3. out \in SUBSET A /\ in \in SUBSET A
    OBVIOUS
  <2>4. Sent(y, f) = SumFunctionOnSet(y, out) /\ Received(y, f) = SumFunctionOnSet(y, in)
    BY <1>2 DEF Sent, Received
  <2>. HIDE DEF out, in, A
  <2>5. /\ SumFunctionOnSet(y, out) = SumFunctionOnSet(x, out \cap DOMAIN x)
        /\ SumFunctionOnSet(y, in) = SumFunctionOnSet(x, in \cap DOMAIN x)
    BY <1>5, <2>3
  <2>. QED BY <2>1, <2>2, <2>4, <2>5 DEF Sent, Received
<1>. QED BY <1>2, <1>4, <1>6, <1>7

\* d is what p sends each of R in y, less what it receives.
SendsEach(d, y, p, R) == \A q \in R : d[q] = y[<<p, q>>] - y[<<q, p>>]

\* What a firm sends the firms other than the hub, from what it sends in all.
LEMMA AroundHub ==
  ASSUME NEW F, IsFiniteSet(F), NEW y, FlowOK(y), DOMAIN y = ArcsOf(F),
         NEW hub \in F, NEW p \in F \ {hub}, NEW d,
         NEW R, R = F \ {hub, p}, SendsEach(d, y, p, R)
  PROVE  /\ SumFunctionOnSet(d, R)
              = Sent(y, p) - Received(y, p) + y[<<hub, p>>] - y[<<p, hub>>]
         /\ y[<<hub, p>>] \in Nat /\ y[<<p, hub>>] \in Nat
         /\ Sent(y, p) \in Nat /\ Received(y, p) \in Nat
<1>. DEFINE I == F \ {p}
            J == I \ {hub}
            out == [q \in I |-> y[<<p, q>>]]
            in == [q \in I |-> y[<<q, p>>]]
<1>1. \A arc \in ArcsOf(F) : y[arc] \in Nat
  BY DEF FlowOK
<1>2. IsFiniteSet(I) /\ IsFiniteSet(J) /\ hub \in I
  <2>1. IsFiniteSet(I)
    BY FS_RemoveElement
  <2>. HIDE DEF I
  <2>2. IsFiniteSet(J)
    BY <2>1, FS_RemoveElement
  <2>. QED BY <2>1, <2>2 DEF I
<1>3. R = J
  OBVIOUS
<1>4. Sent(y, p) = SumFunctionOnSet(out, I) /\ Received(y, p) = SumFunctionOnSet(in, I)
  <2>1. p \in F /\ IsFiniteSet(F) /\ DOMAIN y = ArcsOf(F)
    OBVIOUS
  <2>2. /\ Sent(y, p) = SumFunctionOnSet([q \in F \ {p} |-> y[<<p, q>>]], F \ {p})
        /\ Received(y, p) = SumFunctionOnSet([q \in F \ {p} |-> y[<<q, p>>]], F \ {p})
    BY ONLY <1>1, <2>1, ArcSums
  <2>. QED BY <2>2
<1>5. ASSUME NEW q \in I  PROVE out[q] \in Nat /\ in[q] \in Nat
  <2>1. <<p, q>> \in ArcsOf(F) /\ <<q, p>> \in ArcsOf(F)
    BY DEF ArcsOf
  <2>. QED BY <1>1, <2>1
<1>6. \A q \in J : d[q] = out[q] - in[q]
  BY <1>3 DEF SendsEach
<1>7. out[hub] = y[<<p, hub>>] /\ in[hub] = y[<<hub, p>>]
  BY <1>2
<1>. HIDE DEF I, J, out, in
<1>8. J \subseteq I /\ J = I \ {hub}
  BY DEF J
<1>9. SumFunctionOnSet(out, I) = out[hub] + SumFunctionOnSet(out, J)
        /\ SumFunctionOnSet(in, I) = in[hub] + SumFunctionOnSet(in, J)
  <2>1. \A q \in I : out[q] \in Int /\ in[q] \in Int
    BY <1>5
  <2>. QED BY <1>2, <1>8, <2>1, SumRemove
<1>10. SumFunctionOnSet(d, J) = SumFunctionOnSet(out, J) - SumFunctionOnSet(in, J)
  <2>1. \A q \in J : out[q] \in Int /\ in[q] \in Int /\ d[q] = out[q] - in[q]
    BY <1>5, <1>6, <1>8
  <2>. QED BY <1>2, <2>1, SumMinus
<1>11. /\ SumFunctionOnSet(out, J) \in Nat /\ SumFunctionOnSet(in, J) \in Nat
       /\ SumFunctionOnSet(out, I) \in Nat /\ SumFunctionOnSet(in, I) \in Nat
  <2>1. \A q \in J : out[q] \in Nat /\ in[q] \in Nat
    BY <1>5, <1>8
  <2>. QED BY <1>2, <1>5, <2>1, SumNat
<1>12. out[hub] \in Nat /\ in[hub] \in Nat
  BY <1>2, <1>5
<1>13. SumFunctionOnSet(d, R) = SumFunctionOnSet(d, J)
  BY <1>3
<1>14. y[<<hub, p>>] \in Nat /\ y[<<p, hub>>] \in Nat
  BY <1>7, <1>12
<1>15. Sent(y, p) \in Nat /\ Received(y, p) \in Nat
  BY <1>4, <1>11
<1>16. SumFunctionOnSet(out, J) = Sent(y, p) - y[<<p, hub>>]
        /\ SumFunctionOnSet(in, J) = Received(y, p) - y[<<hub, p>>]
  BY <1>4, <1>7, <1>9, <1>11, <1>14, <1>15
<1>. QED BY <1>10, <1>13, <1>14, <1>15, <1>16

\* A flow straight from the payers to the receivers is also one between any firms.
LEMMA DirectIsFlow ==
  ASSUME NEW net, Positions(net), DOMAIN net \subseteq Firm, DOMAIN net # {},
         NEW x \in DirectFlows(net), NEW y, y = Widened(x, DOMAIN net)
  PROVE  /\ y \in Flows(net) /\ FlowOK(y) /\ Volume(y) = Volume(x)
         /\ \A f : Sent(y, f) = Sent(x, f)
<1>. DEFINE F == DOMAIN net
            hub == CHOOSE p \in F : TRUE
            rest == F \ {hub}
            order == SetToSeq(rest)
            pairs == {<<order[ij[1]], order[ij[2]]>> :
                        ij \in {ij \in (DOMAIN order) \X (DOMAIN order) : ij[1] < ij[2]}}
            most == SumFunctionOnSet(net, Receivers(net))
            signed(g, p, q) == IF <<p, q>> \in pairs THEN g[<<p, q>>] ELSE -g[<<q, p>>]
            sends(g, p) == SumFunctionOnSet([q \in rest |-> signed(g, p, q)], rest \ {p})
            between(g, p, q) ==
              IF p = hub THEN net[q] + sends(g, q)
              ELSE IF q = hub THEN -net[p] - sends(g, p) ELSE signed(g, p, q)
            A == ArcsOf(F)
<1>1. IsFiniteSet(F) /\ F \subseteq Firm /\ \A p \in F : net[p] \in Int
  BY DEF Positions
<1>2. hub \in F
  OBVIOUS
<1>3. /\ FlowOK(x) /\ DOMAIN x = Payers(net) \X Receivers(net)
      /\ \A f : Received(x, f) = IF f \in Receivers(net) THEN net[f] ELSE 0
  BY DirectMoves
<1>4. Moves(x, net)
  BY DirectFlowMoves
<1>5. DOMAIN x \subseteq A
  <2>1. \A p \in Payers(net), q \in Receivers(net) : p # q /\ p \in F /\ q \in F
    BY <1>1 DEF Payers, Receivers
  <2>. QED BY <1>3, <2>1 DEF ArcsOf
<1>6. /\ FlowOK(y) /\ DOMAIN y = A /\ Volume(y) = Volume(x)
      /\ \A f : Sent(y, f) = Sent(x, f) /\ Received(y, f) = Received(x, f)
  <2>. HIDE DEF hub
  <2>. QED BY <1>1, <1>3, <1>5, WidenedIs
<1>7. \A arc \in A : y[arc] = IF arc \in DOMAIN x THEN x[arc] ELSE 0
  BY DEF Widened
\* Nobody sends to whom he receives from, nor more than all receivers are due.
<1>8. most \in Nat /\ \A arc \in DOMAIN x : x[arc] \in 0 .. most
  <2>1. IsFiniteSet(Receivers(net)) /\ \A q \in Receivers(net) : net[q] \in Nat
    <3>1. Receivers(net) \in SUBSET F /\ \A q \in Receivers(net) : net[q] \in Int /\ net[q] > 0
      BY <1>1 DEF Receivers
    <3>. HIDE DEF F
    <3>. QED BY <1>1, <3>1, FS_Subset
  <2>2. most \in Nat
    BY <2>1, SumNat
  <2>3. ASSUME NEW arc \in DOMAIN x  PROVE x[arc] \in 0 .. most
    <3>. DEFINE q == arc[2]
                into == {a \in DOMAIN x : a[2] = q}
    <3>1. q \in Receivers(net)
      BY <1>3
    <3>2. x[arc] <= Received(x, q) /\ x[arc] \in Nat /\ Received(x, q) \in Nat
      <4>1. IsFiniteSet(into) /\ arc \in into /\ \A a \in into : x[a] \in Nat
        <5>1. IsFiniteSet(DOMAIN x) /\ into \in SUBSET DOMAIN x /\ \A a \in DOMAIN x : x[a] \in Nat
          BY <1>3 DEF FlowOK
        <5>. QED BY <5>1, FS_Subset
      <4>2. Received(x, q) = SumFunctionOnSet(x, into)
        BY DEF Received
      <4>. HIDE DEF into
      <4>. QED BY <4>1, <4>2, TermAtMost
    <3>3. net[q] <= most
      <4>. HIDE DEF q
      <4>. QED BY <2>1, <3>1, TermAtMost
    <3>4. Received(x, q) = net[q]
      BY <1>3, <3>1
    <3>. QED BY <2>2, <3>2, <3>3, <3>4
  <2>. QED BY <2>2, <2>3
<1>9. ASSUME NEW p \in F, NEW q \in F, p # q
      PROVE  /\ y[<<p, q>>] \in 0 .. most /\ y[<<q, p>>] \in 0 .. most
             /\ y[<<p, q>>] = 0 \/ y[<<q, p>>] = 0
  <2>1. <<p, q>> \in A /\ <<q, p>> \in A
    BY <1>9 DEF ArcsOf
  <2>2. ~(<<p, q>> \in DOMAIN x /\ <<q, p>> \in DOMAIN x)
    BY <1>1, <1>3 DEF Payers, Receivers
  <2>. HIDE DEF A, most
  <2>. QED BY <1>7, <1>8, <2>1, <2>2
<1>10. ASSUME NEW p \in rest, NEW q \in rest, p # q
       PROVE  <<p, q>> \in pairs <=> <<q, p>> \notin pairs
  <2>1. IsFiniteSet(rest) /\ order = SetToSeq(rest)
    <3>. HIDE DEF F, hub
    <3>. QED BY <1>1, FS_RemoveElement
  <2>2. pairs = PairsOf(order)
    BY DEF PairsOf
  <2>. HIDE DEF rest, order, pairs, hub, F
  <2>. QED BY <1>10, <2>1, <2>2, PairOnce
<1>11. \A a \in pairs : \E p, q \in rest : p # q /\ a = <<p, q>>
  <2>1. /\ Cardinality(rest) \in Nat /\ DOMAIN order = 1 .. Cardinality(rest)
        /\ \A n \in DOMAIN order : order[n] \in rest
        /\ \A m, n \in DOMAIN order : m # n => order[m] # order[n]
    <3>1. IsFiniteSet(rest)
      <4>. HIDE DEF F, hub
      <4>. QED BY <1>1, FS_RemoveElement
    <3>. HIDE DEF rest
    <3>. QED BY <3>1, SetToSeqLists
  <2>. HIDE DEF order, rest
  <2>. SUFFICES ASSUME NEW ij \in (DOMAIN order) \X (DOMAIN order), ij[1] < ij[2]
                PROVE  /\ order[ij[1]] \in rest /\ order[ij[2]] \in rest
                       /\ order[ij[1]] # order[ij[2]]
    OBVIOUS
  <2>2. ij[1] # ij[2] /\ ij[1] \in DOMAIN order /\ ij[2] \in DOMAIN order
    BY <2>1
  <2>. QED BY <2>1, <2>2
<1>. HIDE DEF pairs, order, most, hub
<1>. DEFINE g == [a \in pairs |-> y[a] - y[<<a[2], a[1]>>]]
<1>12. g \in [pairs -> -most .. most]
  <2>. SUFFICES ASSUME NEW a \in pairs  PROVE y[a] - y[<<a[2], a[1]>>] \in -most .. most
    OBVIOUS
  <2>1. PICK p \in rest, q \in rest : p # q /\ a = <<p, q>>
    BY <1>11
  <2>2. p \in F /\ q \in F
    OBVIOUS
  <2>3. y[<<p, q>>] \in 0 .. most /\ y[<<q, p>>] \in 0 .. most
    BY <1>9, <2>1, <2>2
  <2>. HIDE DEF F, rest
  <2>. QED BY <1>8, <2>1, <2>3
<1>13. ASSUME NEW p \in rest, NEW q \in rest, p # q
       PROVE  signed(g, p, q) = y[<<p, q>>] - y[<<q, p>>]
  <2>1. y[<<p, q>>] \in Int /\ y[<<q, p>>] \in Int
    <3>1. p \in F /\ q \in F
      OBVIOUS
    <3>. HIDE DEF F, rest
    <3>. QED BY <1>8, <1>9, <1>13, <3>1
  <2>2. CASE <<p, q>> \in pairs
    BY <2>2
  <2>3. CASE <<p, q>> \notin pairs
    <3>1. <<q, p>> \in pairs
      BY <1>10, <1>13, <2>3
    <3>2. g[<<q, p>>] = y[<<q, p>>] - y[<<p, q>>]
      BY <3>1
    <3>3. signed(g, p, q) = -(y[<<q, p>>] - y[<<p, q>>])
      BY <2>3, <3>2
    <3>. HIDE DEF signed, g
    <3>. QED BY <2>1, <3>3
  <2>. QED BY <2>2, <2>3
<1>. HIDE DEF g, signed
<1>14. ASSUME NEW p \in rest
       PROVE  net[p] + sends(g, p) = y[<<hub, p>>] - y[<<p, hub>>]
              /\ y[<<hub, p>>] \in Nat /\ y[<<p, hub>>] \in Nat
              /\ -net[p] - sends(g, p) = y[<<p, hub>>] - y[<<hub, p>>]
  <2>. DEFINE d == [q \in rest |-> signed(g, p, q)]
  <2>1. p \in F \ {hub} /\ rest \ {p} = F \ {hub, p}
    OBVIOUS
  <2>2. SendsEach(d, y, p, rest \ {p})
    BY <1>13 DEF SendsEach
  <2>3. sends(g, p) = SumFunctionOnSet(d, rest \ {p})
    OBVIOUS
  <2>4. net[p] \in Int /\ Received(y, p) - Sent(y, p) = net[p]
    BY <1>1, <1>4, <1>6, <2>1 DEF Moves
  <2>. HIDE DEF d, F, sends, rest
  <2>5. /\ SumFunctionOnSet(d, rest \ {p})
              = Sent(y, p) - Received(y, p) + y[<<hub, p>>] - y[<<p, hub>>]
        /\ y[<<hub, p>>] \in Nat /\ y[<<p, hub>>] \in Nat
        /\ Sent(y, p) \in Nat /\ Received(y, p) \in Nat
    <3>1. FlowOK(y) /\ DOMAIN y = ArcsOf(F)
      BY <1>6
    <3>2. p \in F \ {hub}
      BY <2>1
    <3>. HIDE DEF A
    <3>. QED BY ONLY <1>1, <1>2, <2>1, <2>2, <3>1, <3>2, AroundHub
  <2>. QED BY <2>3, <2>4, <2>5
<1>. HIDE DEF sends
<1>15. ASSUME NEW p \in F, NEW q \in F, p # q
       PROVE  between(g, p, q) = y[<<p, q>>] - y[<<q, p>>]
  <2>1. CASE p = hub
    <3>1. q \in rest
      BY <1>15, <2>1
    <3>2. net[q] + sends(g, q) = y[<<hub, q>>] - y[<<q, hub>>]
      BY <1>14, <3>1
    <3>. QED BY <2>1, <3>2
  <2>2. CASE p # hub /\ q = hub
    <3>1. p \in rest
      BY <2>2
    <3>2. -net[p] - sends(g, p) = y[<<p, hub>>] - y[<<hub, p>>]
      BY <1>14, <3>1
    <3>. QED BY <2>2, <3>2
  <2>3. CASE p # hub /\ q # hub
    <3>1. p \in rest /\ q \in rest
      BY <2>3
    <3>. QED BY <1>13, <1>15, <2>3, <3>1
  <2>. QED BY <2>1, <2>2, <2>3
<1>16. y = [arc \in {pq \in F \X F : pq[1] # pq[2]} |->
              LET n == between(g, arc[1], arc[2]) IN IF n > 0 THEN n ELSE 0]
  <2>1. ASSUME NEW arc \in A
        PROVE  y[arc] = IF between(g, arc[1], arc[2]) > 0 THEN between(g, arc[1], arc[2]) ELSE 0
    <3>1. PICK p \in F, q \in F : arc = <<p, q>> /\ p # q /\ arc[1] = p /\ arc[2] = q
      BY DEF ArcsOf
    <3>. HIDE DEF A, F
    <3>2. /\ y[<<p, q>>] \in 0 .. most /\ y[<<q, p>>] \in 0 .. most
          /\ y[<<p, q>>] = 0 \/ y[<<q, p>>] = 0
      BY <1>9, <3>1
    <3>3. between(g, p, q) = y[<<p, q>>] - y[<<q, p>>]
      BY <1>15, <3>1
    <3>. HIDE DEF between
    <3>. QED BY <1>8, <3>1, <3>2, <3>3
  <2>2. y = [arc \in A |-> y[arc]]
    BY <1>6 DEF Widened
  <2>. HIDE DEF between
  <2>. QED BY <2>1, <2>2 DEF ArcsOf
<1>17. y \in Flows(net)
  BY <1>12, <1>16 DEF Flows, between, sends, signed, most, pairs, order, hub
<1>. QED BY <1>6, <1>17

\* What moves the net of a whole book, from the net of all of it.
LEMMA SettledAll ==
  ASSUME NEW S \in SUBSET Obl, NEW c \in Currencies(S)
  PROVE  NetSettled(InCurrency(S, c), InCurrency(S, c)) = NetPositions(InCurrency(S, c))
<1>. DEFINE B == InCurrency(S, c)
<1>1. /\ DOMAIN NetPositions(B) = Involved(B)
      /\ NetPositions(B) = [p \in Involved(B) |-> NetPositions(B)[p]]
  BY DEF NetPositions
<1>. HIDE DEF B
<1>2. NetSettled(B, B) = [p \in Involved(B) |-> NetPositions(B)[p]]
  BY DEF NetSettled
<1>. QED BY <1>1, <1>2 DEF B

\* A flow of the strict program that keeps the aggregate limits is one of the
\* maximal program, for the whole book.
LEMMA WholeFits ==
  ASSUME NEW S \in SUBSET Obl, NEW c \in Currencies(S), NEW K \in SUBSET CreditLimit,
         NEW A, NEW x \in DirectIn(S, c), WithinCaps(x, K, c), WithinAggregates(x, A, c)
  PROVE  \E y \in Flows(NetSettled(InCurrency(S, c), InCurrency(S, c))) :
           /\ FlowOK(y) /\ WithinCaps(y, K, c) /\ WithinAggregates(y, A, c)
           /\ Volume(y) = LeastFlow(InCurrency(S, c), c)
<1>. DEFINE B == InCurrency(S, c)
            net == NetPositions(B)
            y == Widened(x, DOMAIN net)
<1>1. Positions(net) /\ DOMAIN net # {} /\ DOMAIN net \subseteq Firm
  BY PositionsInOne
<1>2. x \in DirectFlows(net)
  BY DEF DirectIn
<1>3. NetSettled(B, B) = net
  BY SettledAll
<1>4. Volume(x) = LeastFlow(B, c)
  BY DirectNeeds
<1>. HIDE DEF net, B
<1>5. /\ y \in Flows(net) /\ FlowOK(y) /\ Volume(y) = Volume(x)
      /\ \A f : Sent(y, f) = Sent(x, f)
  BY <1>1, <1>2, DirectIsFlow
<1>6. WithinCaps(y, K, c)
  <2>. SUFFICES ASSUME NEW k \in K, CreditTerms[k].currency = c,
                       <<CreditTerms[k].from, CreditTerms[k].to>> \in DOMAIN y
                PROVE  y[<<CreditTerms[k].from, CreditTerms[k].to>>] <= CreditTerms[k].limit
    BY DEF WithinCaps
  <2>. DEFINE a == <<CreditTerms[k].from, CreditTerms[k].to>>
              l == CreditTerms[k].limit
  <2>1. l \in Nat
    BY LimitTerms
  <2>2. a \in DOMAIN x => x[a] <= l
    BY DEF WithinCaps
  <2>3. y[a] = IF a \in DOMAIN x THEN x[a] ELSE 0
    BY DEF Widened
  <2>. HIDE DEF a, l, y
  <2>4. y[a] <= l
    BY <2>1, <2>2, <2>3
  <2>. QED BY <2>4 DEF a, l
<1>7. WithinAggregates(y, A, c)
  <2>. HIDE DEF y
  <2>. QED BY <1>5 DEF WithinAggregates
<1>. QED BY <1>3, <1>4, <1>5, <1>6, <1>7 DEF B

\* One currency of a maximal plan without a policy, if the strict program has a flow
\* that the aggregate limits let through: nothing is deferred, as little is moved.
LEMMA NothingDeferred ==
  ASSUME NEW S \in SUBSET Obl, NEW c \in Currencies(S), NEW K \in SUBSET CreditLimit,
         NEW A, NEW x \in DirectIn(S, c), WithinCaps(x, K, c), WithinAggregates(x, A, c),
         NEW plan \in SolveOneCurrencyMaximal(S, c, K, A, NoWeights)
  PROVE  LET B == InCurrency(S, c) IN
         \E z \in Flows(NetSettled(B, B)) :
           /\ FlowOK(z) /\ Volume(z) = LeastFlow(B, c)
           /\ plan.obligations = B /\ plan.legs = LegsOf(z, c)
<1>. DEFINE w == NoWeights
            B == InCurrency(S, c)
            V == ValueOf(B)
            L == LeastFlow(B, c)
            allowed(T) == {z \in Flows(NetSettled(B, T)) :
                             WithinCaps(z, K, c) /\ WithinAggregates(z, A, c)}
            best(T) == Cheapest(allowed(T), w)
            options == UNION {{[settled |-> T, flow |-> z] : z \in best(T)} : T \in SUBSET B}
            worth(o) == (V + Dollar) * ValueOf(o.settled) - Dollar * Cost(o.flow, w)
            most == Max({worth(o) : o \in options})
            top == (V + Dollar) * V - Dollar * L
<1>1. V \in Nat /\ Dollar \in Nat \ {0} /\ c \in Currency /\ B \in SUBSET Obl
  <2>1. B \in SUBSET B
    OBVIOUS
  <2>. QED BY <2>1, DeferralSaves, InOneCurrency, DollarIsPositive DEF Amount
<1>2. L \in Nat
  BY <1>1, OwingTyped
\* Whatever settles T costs what the firms of T owe net, or more.
<1>3. ASSUME NEW T \in SUBSET B, NEW z \in allowed(T)
      PROVE  /\ FlowOK(z) /\ Cost(z, w) = Volume(z) /\ Volume(z) \in Nat
             /\ LeastFlow(T, c) \in Nat /\ LeastFlow(T, c) <= Volume(z)
  <2>1. z \in Flows(NetSettled(B, T)) /\ T \in SUBSET Obl
    BY <1>1
  <2>2. FlowOK(z) /\ Balanced(z, T, c)
    BY <2>1, FlowBalances
  <2>. HIDE DEF B, allowed
  <2>. QED BY <1>1, <2>1, <2>2, CostIsVolume, VolumeNat, FlowNeeds, OwingTyped
\* Settling all of it can be had for that.
<1>4. PICK y \in allowed(B) : Cost(y, w) = L
  <2>1. PICK y \in Flows(NetSettled(B, B)) :
          /\ FlowOK(y) /\ WithinCaps(y, K, c) /\ WithinAggregates(y, A, c)
          /\ Volume(y) = LeastFlow(B, c)
    BY WholeFits
  <2>2. y \in allowed(B)
    BY <2>1
  <2>3. Cost(y, w) = L
    BY <2>1, CostIsVolume
  <2>. QED BY <2>2, <2>3
<1>5. \A z \in allowed(B) : Cost(z, w) \in Nat /\ L <= Cost(z, w)
  <2>1. B \in SUBSET B
    OBVIOUS
  <2>. QED BY <1>3, <2>1
<1>6. \A z : z \in best(B) <=> z \in allowed(B) /\ Cost(z, w) = L
  <2>. DEFINE costs == {Cost(z, w) : z \in allowed(B)}
  <2>. HIDE DEF allowed, L
  <2>1. L \in costs /\ \A n \in costs : n \in Nat /\ L <= n
    BY <1>4, <1>5
  <2>2. Min(costs) = L
    <3>1. L \in Nat
      BY <1>2
    <3>. HIDE DEF costs
    <3>2. ASSUME NEW n \in costs, \A m \in costs : n <= m  PROVE n = L
      BY <2>1, <3>1, <3>2
    <3>3. \E n \in costs : \A m \in costs : n <= m
      BY <2>1
    <3>. QED BY <3>2, <3>3 DEF Min
  <2>. QED BY <2>2 DEF Cheapest
<1>7. ASSUME NEW o \in options
      PROVE  /\ worth(o) \in Int /\ worth(o) <= top
             /\ o.settled \subseteq B /\ o.flow \in best(o.settled)
             /\ worth(o) = top => o.settled = B
  <2>1. PICK T \in SUBSET B : o \in {[settled |-> T, flow |-> z] : z \in best(T)}
    OBVIOUS
  <2>2. PICK z \in best(T) : o = [settled |-> T, flow |-> z]
    BY <2>1
  <2>3. o.settled = T /\ o.flow = z /\ z \in allowed(T)
    BY <2>2 DEF Cheapest
  <2>4. Cost(z, w) \in Nat /\ LeastFlow(T, c) \in Nat /\ LeastFlow(T, c) <= Cost(z, w)
    BY <1>3, <2>3
  <2>5. /\ L + ValueOf(T) <= LeastFlow(T, c) + V
        /\ ValueOf(T) \in Nat /\ (T # B => ValueOf(T) < V)
    BY DeferralSaves
  <2>6. worth(o) = (V + Dollar) * ValueOf(T) - Dollar * Cost(z, w)
    BY <2>3
  <2>. DEFINE n == ValueOf(T)
              d == V - n
              k == Cost(z, w)
  <2>7. n \in Nat /\ k \in Nat /\ L - k <= d /\ n <= V /\ d \in Nat /\ n = V - d
        /\ (T # B => d >= 1)
    <3>1. T = B => n = V
      OBVIOUS
    <3>2. n \in Nat /\ k \in Nat /\ V \in Nat /\ L \in Nat
      BY <1>1, <1>2, <2>4, <2>5
    <3>. DEFINE l == LeastFlow(T, c)
    <3>3. l \in Nat /\ l <= k /\ L + n <= l + V /\ (T # B => n < V)
      BY <2>4, <2>5
    <3>. HIDE DEF V, L, n, k, l, worth, B
    <3>4. n <= V
      BY <3>1, <3>2, <3>3
    <3>5. d = V - n
      OBVIOUS
    <3>6. d \in Nat /\ n = V - d /\ (T # B => d >= 1)
      BY <3>2, <3>3, <3>4, <3>5
    <3>7. L - k <= d
      BY <3>2, <3>3, <3>5
    <3>. QED BY <3>2, <3>4, <3>6, <3>7
  <2>. HIDE DEF V, L, n, k, d, worth
  \* What a deferral of value d saves is worth less than d weighs.
  <2>8. top - worth(o) = (V + Dollar) * d - Dollar * (L - k)
    <3>1. worth(o) = (V + Dollar) * n - Dollar * k
      BY <2>6 DEF n, k
    <3>2. (V + Dollar) * n = (V + Dollar) * V - (V + Dollar) * d
      BY <1>1, <2>7
    <3>3. Dollar * (L - k) = Dollar * L - Dollar * k
      BY <1>1, <1>2, <2>7
    <3>. QED BY <1>1, <1>2, <2>7, <3>1, <3>2, <3>3
  <2>9. Dollar * (L - k) <= Dollar * d
    <3>1. d - (L - k) \in Nat
      BY <1>2, <2>7
    <3>2. Dollar * (d - (L - k)) \in Nat
      BY <1>1, <3>1
    <3>3. Dollar * (d - (L - k)) = Dollar * d - Dollar * (L - k)
      BY <1>1, <1>2, <2>7
    <3>4. Dollar * d \in Int /\ Dollar * (L - k) \in Int
      BY <1>1, <1>2, <2>7
    <3>. QED BY <3>2, <3>3, <3>4
  <2>10. (V + Dollar) * d = V * d + Dollar * d /\ V * d \in Nat /\ Dollar * d \in Nat
         /\ Dollar * (L - k) \in Int
    BY <1>1, <1>2, <2>7
  <2>11. T # B => V * d > 0
    <3>. SUFFICES ASSUME T # B  PROVE V * d > 0
      OBVIOUS
    <3>1. V >= 1 /\ d >= 1
      BY <1>1, <2>7, n \in Nat, n <= V DEF d
    <3>. QED BY <1>1, <2>7, <3>1
  <2>12. worth(o) \in Int /\ top \in Int
    <3>1. worth(o) = (V + Dollar) * n - Dollar * k
      BY <2>6 DEF n, k
    <3>. QED BY <1>1, <1>2, <2>7, <3>1
  <2>. HIDE DEF top
  <2>13. worth(o) <= top /\ (worth(o) = top => T = B)
    BY <2>8, <2>9, <2>10, <2>11, <2>12
  <2>. QED BY <2>2, <2>3, <2>12, <2>13
<1>8. \E o \in options : worth(o) = top
  <2>. DEFINE o == [settled |-> B, flow |-> y]
  <2>1. y \in best(B)
    BY <1>4, <1>6
  <2>2. o \in options
    <3>1. B \in SUBSET B
      OBVIOUS
    <3>. HIDE DEF B, best
    <3>. QED BY <2>1, <3>1
  <2>3. worth(o) = top
    BY <1>4
  <2>. QED BY <2>2, <2>3
<1>9. most = top
  <2>. DEFINE W == {worth(o) : o \in options}
  <2>. HIDE DEF options, worth, top
  <2>1. top \in W /\ \A n \in W : n \in Int /\ n <= top
    BY <1>7, <1>8
  <2>. HIDE DEF W
  <2>2. Max(W) = top
    BY <2>1 DEF Max
  <2>. QED BY <2>2 DEF W
<1>10. PICK o \in options : /\ worth(o) = most
                            /\ plan = [obligations |-> o.settled, legs |-> LegsOf(o.flow, c)]
  BY DEF SolveOneCurrencyMaximal
<1>11. o.settled = B /\ o.flow \in best(B)
  <2>. HIDE DEF options, worth, top, most, best, B
  <2>. QED BY <1>7, <1>9, <1>10
<1>12. o.flow \in allowed(B) /\ Cost(o.flow, w) = L
  BY <1>6, <1>11
<1>13. FlowOK(o.flow) /\ Volume(o.flow) = L
  <2>1. B \in SUBSET B
    OBVIOUS
  <2>. QED BY <1>3, <1>12, <2>1
<1>14. plan.obligations = B /\ plan.legs = LegsOf(o.flow, c)
  BY <1>10, <1>11
<1>15. o.flow \in Flows(NetSettled(B, B))
  BY <1>12
<1>. QED BY <1>13, <1>14, <1>15

\* All currencies of it.
LEMMA MaximalDefersNothing ==
  ASSUME NEW S \in SUBSET Obl, NEW K \in SUBSET CreditLimit, NEW A,
         NEW x, \A c \in Currencies(S) : /\ x[c] \in DirectIn(S, c) /\ WithinCaps(x[c], K, c)
                                         /\ WithinAggregates(x[c], A, c),
         NEW r \in SolveMaximal(S, K, A, NoWeights)
  PROVE  \E T, z : /\ PlanOf(S, r, T, z)
                   /\ \A c \in Currencies(S) :
                        /\ T[c] = InCurrency(S, c)
                        /\ Volume(z[c]) = LeastFlow(InCurrency(S, c), c)
<1>. DEFINE book(c) == InCurrency(S, c)
            plans == [c \in Currencies(S) |-> SolveOneCurrencyMaximal(S, c, K, A, NoWeights)]
            least(c) == {z \in Flows(NetSettled(book(c), book(c))) :
                           Volume(z) = LeastFlow(book(c), c)}
            X == [c \in Currencies(S) |-> {[settled |-> book(c), flow |-> z] : z \in least(c)}]
<1>1. FromFlows(plans, S, X)
  <2>. SUFFICES ASSUME NEW c \in Currencies(S), NEW q \in plans[c]
                PROVE  \E o \in X[c] :
                         /\ o.settled \subseteq InCurrency(S, c) /\ FlowOK(o.flow)
                         /\ q.obligations = o.settled /\ q.legs = LegsOf(o.flow, c)
    BY DEF FromFlows
  <2>1. q \in SolveOneCurrencyMaximal(S, c, K, A, NoWeights)
    OBVIOUS
  <2>2. PICK z \in Flows(NetSettled(book(c), book(c))) :
          /\ FlowOK(z) /\ Volume(z) = LeastFlow(book(c), c)
          /\ q.obligations = book(c) /\ q.legs = LegsOf(z, c)
    BY <2>1, NothingDeferred
  <2>. DEFINE o == [settled |-> book(c), flow |-> z]
  <2>3. o \in X[c] /\ o.settled = book(c) /\ o.flow = z
    BY <2>2
  <2>. HIDE DEF o, X
  <2>. QED BY <2>2, <2>3
<1>2. r \in Combined(plans)
  BY DEF SolveMaximal
<1>. HIDE DEF plans
<1>3. PICK T, z : /\ PlanOf(S, r, T, z)
                  /\ \A c \in Currencies(S) : \E o \in X[c] : T[c] = o.settled /\ z[c] = o.flow
  <2>. HIDE DEF X
  <2>. QED BY <1>1, <1>2, PlanExists
<1>4. \A c \in Currencies(S) : /\ T[c] = InCurrency(S, c)
                               /\ Volume(z[c]) = LeastFlow(InCurrency(S, c), c)
  BY <1>3
<1>. QED BY <1>3, <1>4

\* The gross of a plan is that of its currencies.
LEMMA GrossByCurrency ==
  ASSUME NEW legs \in Seq(Transfer),
         NEW h, \A d \in Currency : h[d] = SeqTotal(Counts(d), legs)
  PROVE  Gross(legs) = SumFunctionOnSet(h, Currency)
<1>. DEFINE L == Transfer
            C == Currency
            v == [t \in L |-> t.amount]
            key == [t \in L |-> t.currency]
            w == [d \in C |-> Counts(d)]
<1>1. \A t \in L : t.amount \in Int /\ t.currency \in C
  BY DEF Transfer, Amount
<1>2. v \in [L -> Int] /\ key \in [L -> C]
  BY <1>1
<1>3. PartsOf(v, w, key, C, L)
  BY DEF PartsOf, Counts
<1>4. SeqTotals(h, w, C, legs)
  BY DEF SeqTotals
<1>5. Weighs(v, legs, DOMAIN legs)
  <2>1. \A i \in DOMAIN legs : legs[i] \in Transfer
    OBVIOUS
  <2>. QED BY <2>1 DEF Weighs
<1>6. IsFiniteSet(C) /\ legs \in Seq(L)
  BY FiniteLedger
<1>. HIDE DEF L, C, v, key, w
<1>7. SumFunctionOnSet(h, C) = SeqTotal(v, legs)
  BY ONLY <1>2, <1>3, <1>4, <1>6, SeqByKey
<1>8. Gross(legs) = SeqTotal(v, legs)
  <2>. DEFINE D == DOMAIN legs
  <2>1. D \in SUBSET DOMAIN legs
    OBVIOUS
  <2>. HIDE DEF D
  <2>2. TotalOf(legs, D) = SeqTotal(v, legs)
    BY <1>5, <2>1, TotalOfLegs DEF D
  <2>. QED BY <2>2 DEF Gross, D
<1>. QED BY <1>7, <1>8 DEF C

\* solver.py 349-350: a maximal plan without a policy is the strict one, if the strict
\* solver has one that keeps the aggregate limits: it settles the whole book and moves
\* as little, for every book, limits and dollar.  The weight the code gives to value is
\* enough because what a deferral saves in flow is at most its value.
THEOREM MaximalReduces == PSpec => []MaximalReducesToSolve
<1>1. PlanInv => MaximalReducesToSolve
  <2>. DEFINE S == Book
              K == Active(CreditLimit)
              A == Active(AggregateLimit)
  <2>. SUFFICES ASSUME PlanInv, Found("maximal"), planned.weights = NoWeights,
                       NEW whole \in Solve(S, K, NoWeights),
                       WithinAggregateLimits([BatchFor(planned) EXCEPT !.residualLegs = whole.legs])
                PROVE  planned.obligations = S /\ Gross(planned.legs) = Gross(whole.legs)
    BY DEF MaximalReducesToSolve
  <2>. DEFINE B == [BatchFor(planned) EXCEPT !.residualLegs = whole.legs]
  <2>1. S \in SUBSET Obl /\ K \in SUBSET CreditLimit /\ A \in SUBSET AggregateLimit
    BY DEF Book, Active
  <2>2. B.residualLegs = whole.legs /\ B.aggregateLimits = A /\ WithinAggregateLimits(B)
    BY DEF BatchFor, Found
  <2>3. PICK r \in SolveMaximal(S, K, A, NoWeights) :
          planned.obligations = r.obligations /\ planned.legs = r.legs
    BY DEF PlanInv, PlannedFrom, Among
  <2>. HIDE DEF B, S, K, A
  <2>4. PICK U, x : /\ PlanOf(S, whole, U, x)
                    /\ \A c \in Currencies(S) : /\ U[c] = InCurrency(S, c)
                                                /\ x[c] \in DirectIn(S, c)
                                                /\ WithinCaps(x[c], K, c)
    BY <2>1, SolveFlows
  <2>5. ASSUME NEW c \in Currencies(S)  PROVE WithinAggregates(x[c], A, c)
    <3>. SUFFICES ASSUME NEW k \in A, AggregateTerms[k].currency = c
                  PROVE  Sent(x[c], AggregateTerms[k].party) <= AggregateTerms[k].limit
      BY DEF WithinAggregates
    <3>. DEFINE f == AggregateTerms[k].party
    <3>1. c \in Currency
      BY <2>1, BookCurrencies
    <3>2. OutOf(whole.legs, f, c) <= AggregateTerms[k].limit
      BY <2>2 DEF WithinAggregateLimits
    <3>. HIDE DEF f
    <3>3. whole.legs \in Seq(Transfer) /\ SeqTotal(Takes(f, c), whole.legs) = Sent(x[c], f)
      BY <2>4, <3>1 DEF PlanOf
    <3>4. OutOf(whole.legs, f, c) = SeqTotal(Takes(f, c), whole.legs)
      BY <3>3, LegSums
    <3>. QED BY <3>2, <3>3, <3>4 DEF f
  <2>6. PICK T, z : /\ PlanOf(S, r, T, z)
                    /\ \A c \in Currencies(S) :
                         /\ T[c] = InCurrency(S, c)
                         /\ Volume(z[c]) = LeastFlow(InCurrency(S, c), c)
    BY <2>1, <2>3, <2>4, <2>5, MaximalDefersNothing
  <2>7. r.obligations = S
    <3>1. r.obligations = UNION {T[c] : c \in Currencies(S)}
      BY <2>6 DEF PlanOf
    <3>2. UNION {T[c] : c \in Currencies(S)} = UNION {InCurrency(S, c) : c \in Currencies(S)}
      BY <2>6
    <3>3. UNION {InCurrency(S, c) : c \in Currencies(S)} = S
      BY DEF InCurrency, Currencies
    <3>. QED BY <3>1, <3>2, <3>3
  <2>8. Gross(r.legs) = Gross(whole.legs)
    <3>. DEFINE h == [d \in Currency |-> IF d \in Currencies(S)
                                         THEN LeastFlow(InCurrency(S, d), d) ELSE 0]
    <3>1. ASSUME NEW d \in Currency
          PROVE  /\ h[d] = SeqTotal(Counts(d), r.legs) /\ h[d] = SeqTotal(Counts(d), whole.legs)
      <4>1. /\ SeqTotal(Counts(d), r.legs) = IF d \in Currencies(S) THEN Volume(z[d]) ELSE 0
            /\ SeqTotal(Counts(d), whole.legs) = IF d \in Currencies(S) THEN Volume(x[d]) ELSE 0
        BY <2>4, <2>6 DEF PlanOf, Volume
      <4>2. d \in Currencies(S) => Volume(x[d]) = LeastFlow(InCurrency(S, d), d)
        BY <2>1, <2>4, DirectNeeds
      <4>. QED BY <2>6, <4>1, <4>2
    <3>2. r.legs \in Seq(Transfer) /\ whole.legs \in Seq(Transfer)
      BY <2>4, <2>6 DEF PlanOf
    <3>. HIDE DEF h
    <3>. QED BY <3>1, <3>2, GrossByCurrency
  <2>. QED BY <2>3, <2>7, <2>8
<1>. QED BY <1>1, PlanInvHolds, PTL

=============================================================================
