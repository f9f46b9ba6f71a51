----------------------- MODULE SettlementWorkflowProofs -----------------------
(***************************************************************************)
(* What the settling processes may be told and what they leave behind, for *)
(* any book, solver, number of processes and ways of losing an answer; and *)
(* that whatever they do, the ledger is NettingLedger, so that what is     *)
(* proved of it holds beside them.                                         *)
(***************************************************************************)
EXTENDS SettlementWorkflow, NettingLedgerProofs

USE DEF vars, wvars

-----------------------------------------------------------------------------
(* Types of what the processes share and keep.                             *)

BookOK ==
  /\ obl \in [Obl -> {"none", "live", "withdrawn", "netted"}]
  /\ batch \in [Batch -> BatchRec \union {None}]

RunOK == run \in [Client -> Run]

WTypeInv ==
  /\ BookOK /\ RunOK
  /\ approval \in [Client -> {"none", "recommended", "active", "executed"}]
  /\ late \subseteq [batch: Batch, funds: Seq(Hold)]
  /\ \A p \in Client : run[p].step = "settle" => run[p].batch \in Batch

LEMMA NoPlanIsPlan == NoPlan \in Plan
  BY WorkflowTerms DEF NoPlan, Plan

LEMMA InitWType == WInit => WTypeInv
<1> SUFFICES ASSUME WInit PROVE WTypeInv
  OBVIOUS
<1>1. RunOK
  BY NoPlanIsPlan DEF WInit, RunOK, Run, Step, Report
<1>2. \A p \in Client : run[p].step = "start"
  BY DEF WInit
<1> QED
  BY <1>1, <1>2 DEF WInit, Init, WTypeInv, BookOK

\* What a settlement does to the book (NettingBatch's SettleNetting).
LEMMA SettlementEffect ==
  ASSUME BookOK, NEW b \in Batch, batch[b] # None, NEW alloc, SettleNetting(b, alloc)
  PROVE  /\ batch[b] \in BatchRec /\ [batch[b] EXCEPT !.status = "settled"] \in BatchRec
         /\ batch' = [batch EXCEPT ![b] = [batch[b] EXCEPT !.status = "settled"]]
         /\ obl' = [o \in Obl |-> IF o \in batch[b].obligations THEN "netted" ELSE obl[o]]
         /\ UNCHANGED <<now, ref>>
<1>1. batch[b] \in BatchRec
  BY DEF BookOK
<1>2. [batch[b] EXCEPT !.status = "settled"] \in BatchRec
  BY <1>1 DEF BatchRec
<1> QED
  BY <1>1, <1>2 DEF SettleNetting

LEMMA SettlementKeepsBook ==
  ASSUME BookOK, NEW b \in Batch, batch[b] # None, NEW alloc, SettleNetting(b, alloc)
  PROVE  BookOK'
  BY SettlementEffect DEF BookOK

\* The batch that a process creates for its plan.
LEMMA PlanBatch ==
  ASSUME WTypeInv, NEW p \in Client, NEW b \in Batch,
         NEW facts, CreateBatch(b, run[p].plan.obligations, run[p].plan.legs, run[p].limits,
                                {}, {}, {}, facts)
  PROVE  \E r \in BatchRec :
           /\ batch[b] = None /\ batch' = [batch EXCEPT ![b] = r]
           /\ r.obligations = run[p].plan.obligations /\ r.residualLegs = run[p].plan.legs
           /\ r.status = "pending" /\ UNCHANGED <<now, obl, holding, ref>>
<1> DEFINE plan == run[p].plan
           rec == [obligations |-> plan.obligations, residualLegs |-> plan.legs,
                   parties |-> Involved(plan.obligations), creditLimits |-> run[p].limits,
                   aggregateLimits |-> {}, liquidityFloors |-> {}, fxRates |-> {},
                   balanceFacts |-> facts, status |-> "pending"]
<1>1. plan \in Plan /\ run[p].limits \subseteq CreditLimit /\ facts \in BalanceFacts
  BY DEF WTypeInv, RunOK, Run, CreateBatch
<1>2. Involved(plan.obligations) \subseteq Firm
  BY <1>1, ObligationTerms DEF Involved, OblRec, Plan
<1>3. rec \in BatchRec
  BY <1>1, <1>2 DEF BatchRec, BalanceFacts, Plan
<1>4. /\ batch[b] = None /\ batch' = [batch EXCEPT ![b] = rec]
      /\ UNCHANGED <<now, obl, holding, ref>>
  BY DEF CreateBatch
<1>5. /\ rec.obligations = plan.obligations /\ rec.residualLegs = plan.legs
      /\ rec.status = "pending"
  OBVIOUS
<1> HIDE DEF rec
<1> QED
  BY <1>3, <1>4, <1>5

LEMMA SolvedPlan ==
  ASSUME NEW S \in SUBSET Obl, NEW K \in SUBSET CreditLimit
  PROVE  PlanFor[S, K] \in Plan /\ PlanFor[S, K].obligations \subseteq S
<1>1. <<S, K>> \in (SUBSET Obl) \X (SUBSET CreditLimit)
  OBVIOUS
<1>2. <<S, K>>[1] = S
  OBVIOUS
<1> QED
  BY <1>1, <1>2, WorkflowTerms DEF PlanFor

\* A process that changes its own state to x.
LEMMA RunBecomes ==
  ASSUME RunOK, NEW p \in Client, NEW x \in Run, run' = [run EXCEPT ![p] = x]
  PROVE  RunOK' /\ run'[p] = x /\ \A q \in Client \ {p} : run'[q] = run[q]
  BY DEF RunOK

LEMMA EndsShape ==
  ASSUME RunOK, NEW p \in Client, NEW r \in Report, Ends(p, r)
  PROVE  /\ RunOK' /\ \A q \in Client \ {p} : run'[q] = run[q]
         /\ run'[p].step = "done" /\ run'[p].report = r
         /\ run'[p].plan = run[p].plan /\ run'[p].agreed = run[p].agreed
         /\ run'[p].batch = run[p].batch
<1> DEFINE x == [run[p] EXCEPT !.step = "done", !.report = r, !.book = {},
                               !.limits = {}, !.funds = <<>>]
<1>1. run[p] \in Run
  BY DEF RunOK
<1>2. x \in Run
  <2>1. <<>> \in Seq(Hold) /\ "done" \in Step
    BY DEF Step
  <2> QED
    BY <1>1, <2>1 DEF Run
<1>3. /\ x.step = "done" /\ x.report = r /\ x.plan = run[p].plan
      /\ x.agreed = run[p].agreed /\ x.batch = run[p].batch
  BY <1>1 DEF Run
<1>4. run' = [run EXCEPT ![p] = x]
  BY DEF Ends
<1> HIDE DEF x
<1> QED
  BY <1>2, <1>3, <1>4, RunBecomes

LEMMA GotoShape ==
  ASSUME RunOK, NEW p \in Client, NEW s \in Step, Goto(p, s)
  PROVE  /\ RunOK' /\ \A q \in Client \ {p} : run'[q] = run[q]
         /\ run'[p].step = s /\ run'[p].report = run[p].report
         /\ run'[p].plan = run[p].plan /\ run'[p].agreed = run[p].agreed
         /\ run'[p].batch = run[p].batch
<1> DEFINE x == [run[p] EXCEPT !.step = s]
<1>1. run[p] \in Run
  BY DEF RunOK
<1>2. x \in Run
  BY <1>1 DEF Run
<1>3. /\ x.step = s /\ x.report = run[p].report /\ x.plan = run[p].plan
      /\ x.agreed = run[p].agreed /\ x.batch = run[p].batch
  BY <1>1 DEF Run
<1>4. run' = [run EXCEPT ![p] = x]
  BY DEF Goto
<1> HIDE DEF x
<1> QED
  BY <1>2, <1>3, <1>4, RunBecomes

\* Netting again: with nothing of the failed attempt.
LEMMA RenetShape ==
  ASSUME RunOK, NEW p \in Client, Renet(p)
  PROVE  \/ Ends(p, "failed")
         \/ /\ RunOK' /\ \A q \in Client \ {p} : run'[q] = run[q]
            /\ run'[p].step = "limits" /\ run'[p].report = run[p].report
            /\ run'[p].plan = NoPlan /\ run'[p].batch = None /\ p \notin Approving
<1>1. run[p] \in Run /\ run[p].plan \in Plan
  BY DEF RunOK, Run
<1>2. CASE /\ run[p].plan.legs # <<>> /\ p \notin Approving
           /\ run' = [run EXCEPT ![p].step = "limits", ![p].funds = <<>>, ![p].batch = None,
                                 ![p].plan = NoPlan,
                                 ![p].excluded = {run[p].plan.legs[1].sender}]
  <2> DEFINE F == {run[p].plan.legs[1].sender}
             x == [run[p] EXCEPT !.step = "limits", !.funds = <<>>, !.batch = None,
                                 !.plan = NoPlan, !.excluded = F]
  <2>1. run[p].plan.legs \in Seq(Transfer)
    BY <1>1, PlanTerms DEF Plan
  <2>2. run[p].plan.legs[1] \in Transfer
    BY <1>2, <2>1
  <2>3. F \in SUBSET Firm
    BY <2>2 DEF Transfer
  <2>4. run' = [run EXCEPT ![p] = x]
    BY <1>2
  <2> HIDE DEF F
  <2>5. x \in Run
    <3>1. <<>> \in Seq(Hold) /\ "limits" \in Step
      BY DEF Step
    <3> QED
      BY <1>1, <2>3, <3>1, NoPlanIsPlan DEF Run
  <2>6. /\ x.step = "limits" /\ x.report = run[p].report /\ x.plan = NoPlan /\ x.batch = None
    BY <1>1 DEF Run
  <2> HIDE DEF x
  <2> QED
    BY <1>2, <2>4, <2>5, <2>6, RunBecomes
<1> QED
  BY <1>2 DEF Renet

-----------------------------------------------------------------------------
(* What a step of a process does to the process.                           *)

Before == {"start", "plan", "recommend", "approve", "limits", "check"}
Keeps(p) ==
  /\ run'[p].plan = run[p].plan /\ run'[p].agreed = run[p].agreed
  /\ run'[p].batch = run[p].batch

Stops(p) ==
  run'[p].step = "done" /\ run'[p].report \in {"refused", "failed", "unknown"} /\ Keeps(p)

Prepares(p) ==
  /\ run[p].step \in Before /\ run'[p].step \in Before
  /\ run'[p].plan = run[p].plan /\ run'[p].batch = run[p].batch
  /\ run'[p].report = run[p].report

Checked(p) ==
  /\ run[p].step = "check" /\ run'[p].step \in {"issue", "create"}
  /\ run'[p].plan.obligations \subseteq Live
  /\ p \in Approving => approval[p] = "active" /\ run'[p].plan = run[p].agreed
  /\ run'[p].agreed = run[p].agreed /\ run'[p].batch = run[p].batch
  /\ run'[p].report = run[p].report

Funds(p) ==
  /\ run[p].step \in {"issue", "lock"} /\ run'[p].step \in {"issue", "lock", "create"}
  /\ run'[p].report = run[p].report /\ Keeps(p)

Creates(p) ==
  /\ run[p].step = "create" /\ run'[p].step = "settle"
  /\ run'[p].plan = run[p].plan /\ run'[p].agreed = run[p].agreed
  /\ run'[p].report = run[p].report
  /\ \E b \in Batch, r \in BatchRec :
       /\ run'[p].batch = b /\ Fresh(b) /\ batch' = [batch EXCEPT ![b] = r]
       /\ r.obligations = run[p].plan.obligations /\ r.residualLegs = run[p].plan.legs

\* The obligations of the plan, or those of the batch it is in, are closed.
Closes(p) ==
  /\ run[p].step = "settle" /\ Keeps(p)
  /\ \/ p \in Approving /\ run'[p].step = "mark" /\ run'[p].report = run[p].report
     \/ p \notin Approving /\ run'[p].step = "done" /\ run'[p].report = "ok"
  /\ \/ run[p].plan.obligations \intersect Live' = {}
     \/ /\ batch[run[p].batch] # None /\ run[p].batch # None
        /\ batch[run[p].batch].obligations \intersect Live' = {}

Again(p) ==
  /\ run[p].step = "settle" /\ run'[p].step = "limits" /\ p \notin Approving
  /\ run'[p].plan = NoPlan /\ run'[p].batch = None /\ run'[p].report = run[p].report

Marks(p) ==
  run[p].step = "mark" /\ run'[p].step = "done" /\ run'[p].report = "ok" /\ Keeps(p)

Progress(p) ==
  \/ Stops(p) \/ Prepares(p) \/ Checked(p) \/ Funds(p) \/ Creates(p) \/ Closes(p)
  \/ Again(p) \/ Marks(p)

OthersRun(p) == RunOK' /\ \A q \in Client \ {p} : run'[q] = run[q]

LEMMA StopProgress ==
  ASSUME WTypeInv, NEW p \in Client,
         Ends(p, "refused") \/ Ends(p, "failed") \/ Ends(p, "unknown")
  PROVE  OthersRun(p) /\ Progress(p)
<1>1. RunOK /\ {"refused", "failed", "unknown"} \subseteq Report
  BY DEF WTypeInv, Report
<1>2. PICK r \in {"refused", "failed", "unknown"} : Ends(p, r)
  OBVIOUS
<1> QED
  BY <1>1, <1>2, EndsShape DEF OthersRun, Progress, Stops, Keeps

LEMMA RenetProgress ==
  ASSUME WTypeInv, NEW p \in Client, At(p, "settle"), Renet(p)
  PROVE  OthersRun(p) /\ Progress(p)
<1>1. CASE Ends(p, "failed")
  BY <1>1, StopProgress
<1>2. CASE ~ Ends(p, "failed")
  BY <1>2, RenetShape DEF WTypeInv, OthersRun, Progress, Again, At
<1> QED
  BY <1>1, <1>2

LEMMA PreparingProgress ==
  ASSUME WTypeInv, NEW p \in Client,
         Start(p) \/ PlanForReview(p) \/ Recommend(p) \/ Approve(p) \/ ReadLimits(p)
  PROVE  OthersRun(p) /\ Progress(p)
<1>0. /\ RunOK /\ run[p] \in Run /\ Before \subseteq Step
      /\ Live \subseteq Obl /\ InForce \subseteq CreditLimit
  BY DEF WTypeInv, RunOK, Before, Step, Live, InForce
<1>1. ASSUME run[p].step \in Before, NEW s \in Before, Goto(p, s)
      PROVE  OthersRun(p) /\ Progress(p)
  BY <1>0, <1>1, GotoShape DEF OthersRun, Progress, Prepares
<1>2. ASSUME run[p].step \in Before, NEW x \in Run, run' = [run EXCEPT ![p] = x],
             x.step \in Before, x.plan = run[p].plan, x.batch = run[p].batch,
             x.report = run[p].report
      PROVE  OthersRun(p) /\ Progress(p)
  BY <1>0, <1>2, RunBecomes DEF OthersRun, Progress, Prepares
<1>3. CASE Start(p)
  <2>1. ASSUME run' = [run EXCEPT ![p].step = "plan", ![p].book = Live], run[p].step \in Before
        PROVE  OthersRun(p) /\ Progress(p)
    <3> DEFINE x == [run[p] EXCEPT !.step = "plan", !.book = Live]
    <3>1. x \in Run
      BY <1>0 DEF Run, Before
    <3>2. /\ x.step \in Before /\ x.plan = run[p].plan /\ x.batch = run[p].batch
          /\ x.report = run[p].report
      BY <1>0 DEF Run, Before
    <3>3. run' = [run EXCEPT ![p] = x]
      BY <2>1
    <3> HIDE DEF x
    <3> QED
      BY <1>2, <2>1, <3>1, <3>2, <3>3
  <2>2. run[p].step \in Before /\ "limits" \in Before
    BY <1>3 DEF Start, At, Before
  <2> QED
    BY <1>1, <1>3, <2>1, <2>2, StopProgress DEF Start
<1>4. CASE PlanForReview(p)
  <2> DEFINE P == PlanFor[Due(run[p].book), InForce]
             x == [run[p] EXCEPT !.step = "recommend", !.agreed = P]
  <2>1. P \in Plan
    BY <1>0, SolvedPlan DEF Due, Run
  <2>2. run' = [run EXCEPT ![p] = x] /\ run[p].step \in Before
    BY <1>4 DEF PlanForReview, At, Before
  <2> HIDE DEF P
  <2>3. x \in Run
    BY <1>0, <2>1 DEF Run, Before
  <2>4. /\ x.step \in Before /\ x.plan = run[p].plan /\ x.batch = run[p].batch
        /\ x.report = run[p].report
    BY <1>0 DEF Run, Before
  <2> HIDE DEF x
  <2> QED
    BY <1>2, <2>2, <2>3, <2>4
<1>5. CASE Recommend(p) \/ Approve(p)
  <2>1. run[p].step \in Before /\ "approve" \in Before /\ "limits" \in Before
    BY <1>5 DEF Recommend, Approve, At, Before
  <2> QED
    BY <1>1, <1>5, <2>1, StopProgress DEF Recommend, Approve
<1>6. CASE ReadLimits(p)
  <2> DEFINE x == [run[p] EXCEPT !.step = "check", !.limits = InForce]
  <2>1. run' = [run EXCEPT ![p] = x] /\ run[p].step \in Before
    BY <1>6 DEF ReadLimits, At, Before
  <2>2. x \in Run
    BY <1>0 DEF Run, Before
  <2>3. /\ x.step \in Before /\ x.plan = run[p].plan /\ x.batch = run[p].batch
        /\ x.report = run[p].report
    BY <1>0 DEF Run, Before
  <2> HIDE DEF x
  <2> QED
    BY <1>2, <2>1, <2>2, <2>3
<1> QED
  BY <1>3, <1>4, <1>5, <1>6

LEMMA CheckProgress ==
  ASSUME WTypeInv, NEW p \in Client, Check(p)
  PROVE  OthersRun(p) /\ Progress(p)
<1> DEFINE S == Excluding(Due(Live), run[p].excluded)
           plan == PlanFor[S, run[p].limits]
           s == IF plan.legs = <<>> THEN "create" ELSE "issue"
           x == [run[p] EXCEPT !.plan = plan, !.step = s]
<1>0. RunOK /\ run[p] \in Run
  BY DEF WTypeInv, RunOK
<1>1. S \in SUBSET Obl /\ S \subseteq Live /\ run[p].limits \in SUBSET CreditLimit
  BY <1>0 DEF Excluding, Due, Live, Run
<1>2. plan \in Plan /\ plan.obligations \subseteq Live
  BY <1>1, SolvedPlan
<1>3. CASE run' = [run EXCEPT ![p].plan = plan, ![p].step = s] /\ StillApproved(p, plan)
  <2>1. run' = [run EXCEPT ![p] = x]
    BY <1>3
  <2> HIDE DEF plan
  <2>2. s \in {"issue", "create"} /\ s \in Step
    BY DEF Step
  <2> HIDE DEF s
  <2>3. x \in Run
    BY <1>0, <1>2, <2>2 DEF Run
  <2>4. /\ x.plan = plan /\ x.step = s /\ x.agreed = run[p].agreed
        /\ x.batch = run[p].batch /\ x.report = run[p].report
    BY <1>0 DEF Run
  <2> HIDE DEF x
  <2>5. run[p].step = "check"
    BY DEF Check, At
  <2>6. OthersRun(p) /\ run'[p] = x
    BY <1>0, <2>1, <2>3, RunBecomes DEF OthersRun
  <2>7. Checked(p)
    BY <1>2, <1>3, <2>2, <2>4, <2>5, <2>6 DEF Checked, StillApproved
  <2> QED
    BY <2>6, <2>7 DEF Progress
<1>4. CASE Ends(p, "refused")
  BY <1>4, StopProgress
<1> QED
  BY <1>3, <1>4 DEF Check

LEMMA FundingProgress ==
  ASSUME WTypeInv, NEW p \in Client, IssueFunding(p) \/ LockFunding(p)
  PROVE  /\ OthersRun(p) /\ Progress(p)
         /\ UNCHANGED <<obl, batch, approval, late>>
<1>0. RunOK /\ run[p] \in Run
  BY DEF WTypeInv, RunOK
<1>1. ASSUME run[p].step \in {"issue", "lock"}, NEW s \in {"issue", "lock", "create"}, Goto(p, s)
      PROVE  OthersRun(p) /\ Progress(p)
  <2>1. s \in Step
    BY DEF Step
  <2> QED
    BY <1>0, <1>1, <2>1, GotoShape DEF OthersRun, Progress, Funds, Keeps
<1>2. UNCHANGED <<obl, batch, approval, late>>
  BY DEF IssueFunding, LockFunding, Writes, Issue, LockHolding
<1>3. CASE IssueFunding(p)
  <2>1. ASSUME NEW h \in Hold, run[p].step = "issue",
               run' = [run EXCEPT ![p].step = "lock", ![p].funds = Append(@, h)]
        PROVE  OthersRun(p) /\ Progress(p)
    <3> DEFINE fs == Append(run[p].funds, h)
               x == [run[p] EXCEPT !.step = "lock", !.funds = fs]
    <3>1. fs \in Seq(Hold) /\ "lock" \in Step
      BY <1>0 DEF Run, Step
    <3>2. run' = [run EXCEPT ![p] = x]
      BY <2>1
    <3> HIDE DEF fs
    <3>3. x \in Run
      BY <1>0, <3>1 DEF Run
    <3>4. /\ x.step = "lock" /\ x.plan = run[p].plan /\ x.agreed = run[p].agreed
          /\ x.batch = run[p].batch /\ x.report = run[p].report
      BY <1>0 DEF Run
    <3> HIDE DEF x
    <3> QED
      BY <1>0, <2>1, <3>2, <3>3, <3>4, RunBecomes DEF OthersRun, Progress, Funds, Keeps
  <2>2. \/ \E h \in Hold : run' = [run EXCEPT ![p].step = "lock", ![p].funds = Append(@, h)]
        \/ Ends(p, "unknown")
    BY <1>3 DEF IssueFunding
  <2> QED
    BY <1>2, <1>3, <2>1, <2>2, StopProgress DEF IssueFunding, At
<1>4. CASE LockFunding(p)
  <2>1. Goto(p, "create") \/ Goto(p, "issue") \/ Ends(p, "unknown")
    BY <1>4 DEF LockFunding
  <2>2. run[p].step = "lock"
    BY <1>4 DEF LockFunding, At
  <2> QED
    BY <1>1, <1>2, <2>1, <2>2, StopProgress
<1> QED
  BY <1>3, <1>4

LEMMA CreateProgress ==
  ASSUME WTypeInv, NEW p \in Client, CreatePlanBatch(p)
  PROVE  /\ OthersRun(p) /\ Progress(p) /\ UNCHANGED <<obl, approval, late>>
         /\ \/ UNCHANGED batch
            \/ \E b \in Batch, r \in BatchRec :
                 Fresh(b) /\ batch[b] = None /\ batch' = [batch EXCEPT ![b] = r]
<1> DEFINE none == [f \in Firm |-> [c \in Currency |-> 0]]
           Made(b) == CreateBatch(b, run[p].plan.obligations, run[p].plan.legs,
                                  run[p].limits, {}, {}, {}, none)
<1>0. RunOK /\ run[p] \in Run /\ run[p].step = "create"
  BY DEF WTypeInv, RunOK, CreatePlanBatch, At
<1>1. ASSUME NEW b \in Batch, Fresh(b), Made(b),
             \/ run' = [run EXCEPT ![p].step = "settle", ![p].batch = b]
             \/ Ends(p, "failed")
      PROVE  /\ OthersRun(p) /\ Progress(p) /\ UNCHANGED obl
             /\ \E r \in BatchRec : batch[b] = None /\ batch' = [batch EXCEPT ![b] = r]
  <2>1. PICK r \in BatchRec :
           /\ batch[b] = None /\ batch' = [batch EXCEPT ![b] = r]
           /\ r.obligations = run[p].plan.obligations /\ r.residualLegs = run[p].plan.legs
           /\ UNCHANGED obl
    <3> HIDE DEF none
    <3> QED
      BY <1>1, PlanBatch
  <2>2. CASE run' = [run EXCEPT ![p].step = "settle", ![p].batch = b]
    <3> DEFINE x == [run[p] EXCEPT !.step = "settle", !.batch = b]
    <3>1. run' = [run EXCEPT ![p] = x]
      BY <2>2
    <3>2. x \in Run
      <4>1. "settle" \in Step
        BY DEF Step
      <4> QED
        BY <1>0, <4>1 DEF Run
    <3>3. /\ x.step = "settle" /\ x.plan = run[p].plan /\ x.agreed = run[p].agreed
          /\ x.batch = b /\ x.report = run[p].report
      BY <1>0 DEF Run
    <3> HIDE DEF x
    <3>4. OthersRun(p) /\ run'[p] = x
      BY <1>0, <3>1, <3>2, RunBecomes DEF OthersRun
    <3>5. Creates(p)
      BY <1>0, <1>1, <2>1, <3>3, <3>4 DEF Creates
    <3> QED
      BY <2>1, <3>4, <3>5 DEF Progress
  <2>3. CASE Ends(p, "failed")
    BY <2>1, <2>3, StopProgress
  <2> QED
    BY <1>1, <2>2, <2>3
<1>2. CASE UNCHANGED vars /\ Ends(p, "failed")
  BY <1>2, StopProgress DEF CreatePlanBatch, Writes
<1>3. CASE \E b \in Batch :
             /\ Fresh(b) /\ Made(b)
             /\ \/ run' = [run EXCEPT ![p].step = "settle", ![p].batch = b]
                \/ Ends(p, "failed")
  <2> HIDE DEF Made
  <2> QED
    BY <1>1, <1>3 DEF CreatePlanBatch, Writes
<1> QED
  BY <1>2, <1>3 DEF CreatePlanBatch

LEMMA SucceedsShape ==
  ASSUME RunOK, NEW p \in Client, Succeeds(p)
  PROVE  /\ OthersRun(p) /\ Keeps(p)
         /\ \/ p \in Approving /\ run'[p].step = "mark" /\ run'[p].report = run[p].report
            \/ p \notin Approving /\ run'[p].step = "done" /\ run'[p].report = "ok"
<1>1. "mark" \in Step /\ "ok" \in Report
  BY DEF Step, Report
<1> QED
  BY <1>1, GotoShape, EndsShape DEF Succeeds, OthersRun, Keeps

\* The batch keeps what it was made of.
SameBatch(b) ==
  /\ batch'[b].obligations = batch[b].obligations
  /\ batch'[b].residualLegs = batch[b].residualLegs

LEMMA SettlementStep ==
  ASSUME WTypeInv, NEW b \in Batch, batch[b] # None, NEW alloc, SettleNetting(b, alloc)
  PROVE  /\ BookOK'
         /\ batch[b].obligations \intersect Live' = {}
         /\ \A o \in Obl : /\ obl[o] # "none" => obl'[o] # "none"
                           /\ obl'[o] = "live" => obl[o] = "live"
         /\ \A c \in Batch : batch'[c] # None => batch[c] # None /\ SameBatch(c)
<1> DEFINE r == [batch[b] EXCEPT !.status = "settled"]
<1>1. BookOK
  BY DEF WTypeInv
<1>2. /\ batch[b] \in BatchRec /\ r \in BatchRec /\ batch' = [batch EXCEPT ![b] = r]
      /\ obl' = [o \in Obl |-> IF o \in batch[b].obligations THEN "netted" ELSE obl[o]]
  BY <1>1, SettlementEffect
<1>3. r.obligations = batch[b].obligations /\ r.residualLegs = batch[b].residualLegs
  BY <1>2 DEF BatchRec
<1> HIDE DEF r
<1>4. BookOK'
  BY <1>1, SettlementKeepsBook
<1>5. batch[b].obligations \intersect Live' = {}
  BY <1>2 DEF Live
<1>6. \A o \in Obl : /\ obl[o] # "none" => obl'[o] # "none"
                     /\ obl'[o] = "live" => obl[o] = "live"
  BY <1>2
<1>7. \A c \in Batch : batch'[c] # None => batch[c] # None /\ SameBatch(c)
  BY <1>1, <1>2, <1>3 DEF BookOK, SameBatch
<1> QED
  BY <1>4, <1>5, <1>6, <1>7

LEMMA SettleProgress ==
  ASSUME WTypeInv, NEW p \in Client, SettleBatch(p)
  PROVE  /\ OthersRun(p) /\ Progress(p) /\ UNCHANGED approval
         /\ late' \subseteq [batch: Batch, funds: Seq(Hold)]
         /\ \/ UNCHANGED <<obl, batch>>
            \/ \E b \in Batch : batch[b] # None /\ \E alloc : SettleNetting(b, alloc)
<1> DEFINE mine == run[p].batch
<1>0. /\ RunOK /\ run[p] \in Run /\ run[p].step = "settle" /\ mine \in Batch
      /\ late \subseteq [batch: Batch, funds: Seq(Hold)] /\ UNCHANGED approval
  BY DEF WTypeInv, RunOK, SettleBatch, At
<1>1. ASSUME batch[mine] # None, NEW alloc, SettleNetting(mine, alloc), Succeeds(p)
      PROVE  OthersRun(p) /\ Progress(p)
  <2>1. batch[mine].obligations \intersect Live' = {}
    BY <1>0, <1>1, SettlementStep
  <2>2. mine # None
    BY <1>0, WorkflowTerms
  <2> QED
    BY <1>0, <1>1, <2>1, <2>2, SucceedsShape DEF Progress, Closes
<1>2. CASE /\ batch[mine] # None /\ SettleNetting(mine, Alloc(mine, run[p].funds))
           /\ Succeeds(p) \/ Ends(p, "unknown") \/ Renet(p)
           /\ UNCHANGED late
  <2>1. PICK alloc : SettleNetting(mine, alloc)
    BY <1>2
  <2>2. OthersRun(p) /\ Progress(p)
    BY <1>0, <1>1, <1>2, <2>1, StopProgress, RenetProgress DEF At
  <2> QED
    BY <1>0, <1>2, <2>1, <2>2
<1>3. CASE UNCHANGED <<vars, late>> /\ LooksSettled(p) /\ Succeeds(p)
  <2>1. run[p].plan.obligations \intersect Live' = {}
    BY <1>3 DEF LooksSettled, Live
  <2> QED
    BY <1>0, <1>3, <2>1, SucceedsShape DEF Progress, Closes
<1>4. CASE /\ UNCHANGED vars
           /\ late' \in {late, late \union {[batch |-> mine, funds |-> run[p].funds]}}
           /\ Ends(p, "unknown") \/ Renet(p)
  <2>1. OthersRun(p) /\ Progress(p)
    BY <1>0, <1>4, StopProgress, RenetProgress DEF At
  <2>2. [batch |-> mine, funds |-> run[p].funds] \in [batch: Batch, funds: Seq(Hold)]
    BY <1>0 DEF Run
  <2> QED
    BY <1>0, <1>4, <2>1, <2>2
<1> QED
  BY <1>0, <1>2, <1>3, <1>4 DEF SettleBatch

LEMMA MarkProgress ==
  ASSUME WTypeInv, NEW p \in Client, MarkExecuted(p)
  PROVE  OthersRun(p) /\ Progress(p) /\ run'[p].report = "ok"
<1>1. RunOK /\ "ok" \in Report /\ run[p].step = "mark" /\ Ends(p, "ok")
  BY DEF WTypeInv, Report, MarkExecuted, At
<1> QED
  BY <1>1, EndsShape DEF OthersRun, Progress, Marks, Keeps

\* Which approvals a process records, and when.
Approvals(p) ==
  \/ UNCHANGED approval
  \/ /\ approval' = [approval EXCEPT ![p] = "recommended"] /\ run[p].step \in {"recommend", "approve"}
  \/ /\ approval' = [approval EXCEPT ![p] = "active"] /\ run[p].step \in {"recommend", "approve"}
  \/ /\ approval' = [approval EXCEPT ![p] = "executed"]
     /\ run[p].step = "mark" /\ run'[p].report = "ok"

LEMMA ProcessStep ==
  ASSUME WTypeInv, NEW p \in Client, Works(p) \/ Crash(p)
  PROVE  /\ OthersRun(p) /\ Progress(p) /\ Approvals(p)
         /\ late' \subseteq [batch: Batch, funds: Seq(Hold)]
         /\ \/ UNCHANGED <<obl, batch>>
            \/ \E b \in Batch : batch[b] # None /\ \E alloc : SettleNetting(b, alloc)
            \/ /\ UNCHANGED obl
               /\ \E b \in Batch, r \in BatchRec :
                    Fresh(b) /\ batch[b] = None /\ batch' = [batch EXCEPT ![b] = r]
<1>0. late \subseteq [batch: Batch, funds: Seq(Hold)]
  BY DEF WTypeInv
<1>1. CASE Start(p) \/ PlanForReview(p) \/ ReadLimits(p)
  <2>1. UNCHANGED <<obl, batch, approval, late>>
    BY <1>1 DEF Start, PlanForReview, ReadLimits, Reads
  <2> QED
    BY <1>0, <1>1, <2>1, PreparingProgress DEF Approvals
<1>2. CASE Recommend(p) \/ Approve(p)
  <2>1. UNCHANGED <<obl, batch, late>>
    BY <1>2 DEF Recommend, Approve
  <2>2. Approvals(p)
    BY <1>2 DEF Recommend, Approve, Approvals, At, Before
  <2> QED
    BY <1>0, <1>2, <2>1, <2>2, PreparingProgress
<1>3. CASE Check(p)
  BY <1>0, <1>3, CheckProgress DEF Check, Reads, Approvals
<1>4. CASE IssueFunding(p) \/ LockFunding(p)
  BY <1>0, <1>4, FundingProgress DEF Approvals
<1>5. CASE CreatePlanBatch(p)
  BY <1>0, <1>5, CreateProgress DEF Approvals
<1>6. CASE SettleBatch(p)
  BY <1>6, SettleProgress DEF Approvals
<1>7. CASE MarkExecuted(p)
  <2>1. UNCHANGED <<obl, batch, late>> /\ run[p].step = "mark"
    BY <1>7 DEF MarkExecuted, At
  <2>2. Approvals(p)
    BY <1>7, <2>1, MarkProgress DEF MarkExecuted, Approvals
  <2> QED
    BY <1>0, <1>7, <2>1, <2>2, MarkProgress
<1>8. CASE Crash(p)
  BY <1>0, <1>8, StopProgress DEF Crash, Reads, Approvals
<1> QED
  BY <1>1, <1>2, <1>3, <1>4, <1>5, <1>6, <1>7, <1>8 DEF Works

-----------------------------------------------------------------------------
(* The inductive invariants.                                               *)

\* A process keeps a batch from its creation on, and the batch is its plan.
Filed(p) ==
  /\ run[p].batch # None => run[p].step \in {"settle", "mark", "done"}
  /\ run[p].batch # None /\ batch[run[p].batch] # None =>
       /\ batch[run[p].batch].obligations = run[p].plan.obligations
       /\ batch[run[p].batch].residualLegs = run[p].plan.legs

\* From the check of the approval on, the plan is the one that was approved.
Following(p) ==
  p \in Approving /\ (run[p].batch # None \/ run[p].step \in {"issue", "lock", "create"}) =>
    run[p].plan = run[p].agreed /\ approval[p] \in {"active", "executed"}

\* A plan's obligations were accrued, and a success means that they are closed.
Closed(p) ==
  /\ \A o \in run[p].plan.obligations : obl[o] # "none"
  /\ run[p].step = "mark" \/ run[p].report = "ok" =>
       run[p].plan.obligations \intersect Live = {}
  /\ run[p].report # "none" => run[p].step = "done"
  /\ approval[p] = "executed" => run[p].report = "ok"

FollowInv == WTypeInv /\ \A p \in Client : Filed(p) /\ Following(p)
ClosedInv == FollowInv /\ \A p \in Client : Closed(p)

LEMMA Working ==
  ASSUME NEW p \in Client, Works(p) \/ Crash(p)
  PROVE  run[p].step # "done"
  BY DEF Works, Crash, At, Start, PlanForReview, Recommend, Approve, ReadLimits, Check,
         IssueFunding, LockFunding, CreatePlanBatch, SettleBatch, MarkExecuted

\* Nobody opens an obligation again, and a batch is what it was made of, or new.
BookMoves ==
  /\ \A o \in Obl : obl[o] # "none" =>
       obl'[o] # "none" /\ (obl'[o] = "live" => obl[o] = "live")
  /\ \A b \in Batch : batch'[b] # None =>
       \/ batch[b] # None /\ SameBatch(b)
       \/ batch[b] = None /\ Fresh(b)

LEMMA OthersMove ==
  ASSUME WTypeInv, Others
  PROVE  BookOK' /\ BookMoves /\ UNCHANGED wvars
<1>1. BookOK
  BY DEF WTypeInv
<1>2. UNCHANGED wvars
  BY DEF Others
<1>3. ASSUME NEW o \in Obl, Accrue(o)
      PROVE  BookOK' /\ BookMoves
  BY <1>1, <1>3 DEF Accrue, BookOK, BookMoves, SameBatch
<1>4. ASSUME NEW o \in Obl, Discharge(o)
      PROVE  BookOK' /\ BookMoves
  BY <1>1, <1>4 DEF Discharge, BookOK, BookMoves, SameBatch
<1>5. ASSUME NEW b \in Batch, CancelNetting(b)
      PROVE  BookOK' /\ BookMoves
  BY <1>1, <1>5 DEF CancelNetting, BookOK, BookMoves, SameBatch
<1>6. ASSUME UNCHANGED <<obl, batch>>
      PROVE  BookOK' /\ BookMoves
  BY <1>1, <1>6 DEF BookOK, BookMoves, SameBatch
<1>7. \/ \E o \in Obl : Accrue(o) \/ Discharge(o)
      \/ \E b \in Batch : CancelNetting(b)
      \/ UNCHANGED <<obl, batch>>
  BY DEF Others, Agree, Archive, Tick
<1> QED
  BY <1>2, <1>3, <1>4, <1>5, <1>6, <1>7

LEMMA SettlementMoves ==
  ASSUME WTypeInv, \E b \in Batch : batch[b] # None /\ \E alloc : SettleNetting(b, alloc)
  PROVE  BookOK' /\ BookMoves
<1>1. PICK b \in Batch : batch[b] # None /\ \E alloc : SettleNetting(b, alloc)
  OBVIOUS
<1>2. PICK alloc : SettleNetting(b, alloc)
  BY <1>1
<1> QED
  BY <1>1, <1>2, SettlementStep DEF BookMoves

LEMMA LateMoves ==
  ASSUME WTypeInv, CommitLate
  PROVE  /\ BookOK' /\ BookMoves /\ UNCHANGED <<run, approval>>
         /\ late' \subseteq [batch: Batch, funds: Seq(Hold)]
<1>1. PICK l \in late : /\ batch[l.batch] # None
                        /\ SettleNetting(l.batch, Alloc(l.batch, l.funds))
                        /\ late' = late \ {l}
  BY DEF CommitLate
<1>2. l.batch \in Batch /\ late \subseteq [batch: Batch, funds: Seq(Hold)]
  BY DEF WTypeInv
<1>3. BookOK' /\ BookMoves
  BY <1>1, <1>2, SettlementMoves
<1> QED
  BY <1>1, <1>2, <1>3 DEF CommitLate

LEMMA ProcessMoves ==
  ASSUME WTypeInv, NEW p \in Client, Works(p) \/ Crash(p)
  PROVE  BookOK' /\ BookMoves
<1>1. BookOK
  BY DEF WTypeInv
<1>2. CASE UNCHANGED <<obl, batch>>
  BY <1>1, <1>2 DEF BookOK, BookMoves, SameBatch
<1>3. CASE \E b \in Batch : batch[b] # None /\ \E alloc : SettleNetting(b, alloc)
  BY <1>3, SettlementMoves
<1>4. ASSUME UNCHANGED obl, NEW b \in Batch, NEW r \in BatchRec,
             Fresh(b), batch[b] = None, batch' = [batch EXCEPT ![b] = r]
      PROVE  BookOK' /\ BookMoves
  <2>1. BookOK'
    BY <1>1, <1>4 DEF BookOK
  <2>2. \A c \in Batch \ {b} : batch'[c] = batch[c]
    BY <1>1, <1>4 DEF BookOK
  <2>3. BookMoves
    BY <1>4, <2>2 DEF BookMoves, SameBatch
  <2> QED
    BY <2>1, <2>3
<1> QED
  BY <1>2, <1>3, <1>4, ProcessStep

LEMMA WTypeStep == WTypeInv /\ [WNext]_<<vars, wvars>> => WTypeInv'
<1> SUFFICES ASSUME WTypeInv, [WNext]_<<vars, wvars>> PROVE WTypeInv'
  OBVIOUS
<1>1. CASE UNCHANGED <<vars, wvars>>
  BY <1>1 DEF WTypeInv, BookOK, RunOK
<1>2. CASE Others
  BY <1>2, OthersMove DEF WTypeInv, RunOK
<1>3. CASE CommitLate
  BY <1>3, LateMoves DEF WTypeInv, RunOK
<1>4. ASSUME NEW p \in Client, Works(p) \/ Crash(p)
      PROVE  WTypeInv'
  <2>1. BookOK' /\ OthersRun(p) /\ Progress(p) /\ Approvals(p)
    BY <1>4, ProcessMoves, ProcessStep
  <2>2. late' \subseteq [batch: Batch, funds: Seq(Hold)]
    BY <1>4, ProcessStep
  <2>3. approval' \in [Client -> {"none", "recommended", "active", "executed"}]
    BY <2>1 DEF WTypeInv, Approvals
  <2>4. run'[p].step = "settle" => run'[p].batch \in Batch
    BY <2>1 DEF Progress, Stops, Prepares, Checked, Funds, Creates, Closes, Again, Marks, Before
  <2>5. \A q \in Client : run'[q].step = "settle" => run'[q].batch \in Batch
    BY <2>1, <2>4 DEF WTypeInv, OthersRun
  <2> QED
    BY <2>1, <2>2, <2>3, <2>5 DEF WTypeInv, OthersRun
<1> QED
  BY <1>1, <1>2, <1>3, <1>4 DEF WNext

LEMMA NoneIsNoBatch == None \notin Batch
  BY WorkflowTerms

LEMMA BatchOf ==
  ASSUME WTypeInv, NEW p \in Client, run[p].batch # None
  PROVE  run[p].batch \in Batch
  BY DEF WTypeInv, RunOK, Run

\* What the step of another process, of a firm or of a late submission leaves alone.
LEMMA Bystander ==
  ASSUME WTypeInv, NEW q \in Client, run'[q] = run[q], approval'[q] = approval[q], BookMoves
  PROVE  /\ Filed(q) /\ Following(q) => Filed(q)' /\ Following(q)'
         /\ Closed(q) => Closed(q)'
<1>1. run[q].plan.obligations \subseteq Obl
  BY DEF WTypeInv, RunOK, Run, Plan
<1>2. Following(q) => Following(q)'
  BY DEF Following
<1>3. ASSUME Filed(q)
      PROVE  Filed(q)'
  <2>1. run'[q].batch # None => run'[q].step \in {"settle", "mark", "done"}
    BY <1>3 DEF Filed
  <2>2. ASSUME run[q].batch # None, batch'[run[q].batch] # None
        PROVE  /\ batch'[run[q].batch].obligations = run[q].plan.obligations
               /\ batch'[run[q].batch].residualLegs = run[q].plan.legs
    <3>1. run[q].batch \in Batch
      BY <2>2, BatchOf
    <3>2. ~ Fresh(run[q].batch)
      BY DEF Fresh
    <3> QED
      BY <1>3, <2>2, <3>1, <3>2 DEF BookMoves, SameBatch, Filed
  <2> QED
    BY <2>1, <2>2 DEF Filed
<1>4. Closed(q) => Closed(q)'
  BY <1>1 DEF Closed, BookMoves, Live
<1> QED
  BY <1>2, <1>3, <1>4

\* The process that takes the step: still with the approved plan.
LEMMA OwnFollow ==
  ASSUME WTypeInv, NEW p \in Client, Filed(p), Following(p), run[p].step # "done",
         OthersRun(p), Progress(p), Approvals(p), BookMoves
  PROVE  Filed(p)' /\ Following(p)'
<1>0. /\ RunOK /\ run[p] \in Run /\ run'[p] \in Run
      /\ approval \in [Client -> {"none", "recommended", "active", "executed"}]
  BY DEF WTypeInv, RunOK, OthersRun
<1>1. ASSUME run'[p].batch = run[p].batch,
             run[p].batch # None => run'[p].plan = run[p].plan
      PROVE  run[p].batch # None /\ batch'[run[p].batch] # None =>
               /\ batch'[run[p].batch].obligations = run'[p].plan.obligations
               /\ batch'[run[p].batch].residualLegs = run'[p].plan.legs
  <2> SUFFICES ASSUME run[p].batch # None, batch'[run[p].batch] # None
               PROVE  /\ batch'[run[p].batch].obligations = run'[p].plan.obligations
                      /\ batch'[run[p].batch].residualLegs = run'[p].plan.legs
    OBVIOUS
  <2>1. run[p].batch \in Batch /\ ~ Fresh(run[p].batch)
    BY BatchOf DEF Fresh
  <2>2. batch[run[p].batch] # None /\ SameBatch(run[p].batch)
    BY <2>1 DEF BookMoves
  <2> QED
    BY <1>1, <2>2 DEF SameBatch, Filed
<1>2. approval'[p] \in {"active", "executed"} \/ run[p].step \in Before \/ UNCHANGED approval
  BY <1>0 DEF Approvals, Before
<1>3. CASE Stops(p)
  <2>1. Filed(p)'
    BY <1>1, <1>3 DEF Stops, Keeps, Filed
  <2>2. Following(p)'
    <3>1. run[p].step \in Before => run[p].batch = None
      BY DEF Filed, Before
    <3> QED
      BY <1>2, <1>3, <3>1 DEF Stops, Keeps, Following
  <2> QED
    BY <2>1, <2>2
<1>4. CASE Prepares(p)
  <2>1. run[p].batch = None /\ run'[p].batch = None /\ run'[p].step \in Before
    BY <1>4 DEF Prepares, Filed, Before
  <2> QED
    BY <2>1 DEF Filed, Following, Before
<1>5. CASE Checked(p)
  <2>1. run[p].batch = None /\ run'[p].batch = None
    BY <1>5 DEF Checked, Filed
  <2>2. p \in Approving => approval'[p] = "active"
    BY <1>0, <1>5 DEF Checked, Approvals
  <2> QED
    BY <1>5, <2>1, <2>2 DEF Checked, Filed, Following
<1>6. CASE Funds(p)
  <2>1. run[p].batch = None /\ run'[p].batch = None
    BY <1>6 DEF Funds, Keeps, Filed
  <2>2. UNCHANGED approval
    BY <1>6 DEF Funds, Approvals, Before
  <2> QED
    BY <1>6, <2>1, <2>2 DEF Funds, Keeps, Filed, Following
<1>7. CASE Creates(p)
  <2>1. PICK b \in Batch, r \in BatchRec :
          /\ run'[p].batch = b /\ batch' = [batch EXCEPT ![b] = r]
          /\ r.obligations = run[p].plan.obligations /\ r.residualLegs = run[p].plan.legs
    BY <1>7 DEF Creates
  <2>2. batch'[b] = r
    BY <2>1 DEF WTypeInv, BookOK
  <2>3. UNCHANGED approval
    BY <1>7 DEF Creates, Approvals, Before
  <2> QED
    BY <1>7, <2>1, <2>2, <2>3 DEF Creates, Filed, Following
<1>8. CASE Closes(p) \/ Marks(p)
  <2>1. run'[p].batch = run[p].batch /\ run'[p].plan = run[p].plan /\ run'[p].agreed = run[p].agreed
    BY <1>8 DEF Closes, Marks, Keeps
  <2>2. run[p].step \in {"settle", "mark"} /\ run'[p].step \in {"mark", "done"}
    BY <1>8 DEF Closes, Marks
  <2>3. approval'[p] \in {"active", "executed"} \/ UNCHANGED approval
    BY <1>2, <2>2 DEF Before
  <2>4. Filed(p)'
    BY <1>1, <2>1, <2>2 DEF Filed
  <2>5. Following(p)'
    BY <2>1, <2>2, <2>3 DEF Following
  <2> QED
    BY <2>4, <2>5
<1>9. CASE Again(p)
  BY <1>9 DEF Again, Filed, Following
<1> QED
  BY <1>3, <1>4, <1>5, <1>6, <1>7, <1>8, <1>9 DEF Progress

\* The process that takes the step: a success closes its plan.
LEMMA OwnClosed ==
  ASSUME WTypeInv, NEW p \in Client, Filed(p), Closed(p), run[p].step # "done",
         OthersRun(p), Progress(p), Approvals(p), BookMoves
  PROVE  Closed(p)'
<1>0. /\ RunOK /\ run[p] \in Run /\ run'[p] \in Run
      /\ approval \in [Client -> {"none", "recommended", "active", "executed"}]
      /\ run[p].plan.obligations \subseteq Obl
  BY DEF WTypeInv, RunOK, OthersRun, Run, Plan
<1>1. run[p].report = "none" /\ approval[p] # "executed"
  BY DEF Closed
<1>2. approval'[p] = "executed" => run'[p].report = "ok"
  BY <1>0, <1>1 DEF Approvals
<1>3. ASSUME run'[p].plan = run[p].plan
      PROVE  \A o \in run'[p].plan.obligations : obl'[o] # "none"
  BY <1>0, <1>3 DEF Closed, BookMoves
<1>4. CASE Stops(p)
  BY <1>2, <1>3, <1>4 DEF Stops, Keeps, Closed
<1>5. CASE Prepares(p)
  <2>1. run'[p].step # "mark" /\ run'[p].report = "none" /\ run'[p].plan = run[p].plan
    BY <1>1, <1>5 DEF Prepares, Before
  <2> QED
    BY <1>2, <1>3, <2>1 DEF Closed
<1>6. CASE Checked(p)
  <2>1. \A o \in run'[p].plan.obligations : o \in Obl /\ obl[o] # "none"
    BY <1>6 DEF Checked, Live
  <2>2. \A o \in run'[p].plan.obligations : obl'[o] # "none"
    BY <2>1 DEF BookMoves
  <2> QED
    BY <1>1, <1>2, <1>6, <2>2 DEF Checked, Closed
<1>7. CASE Funds(p)
  BY <1>1, <1>2, <1>3, <1>7 DEF Funds, Keeps, Closed
<1>8. CASE Creates(p)
  BY <1>1, <1>2, <1>3, <1>8 DEF Creates, Closed
<1>9. CASE Closes(p)
  <2>1. run[p].plan.obligations \intersect Live' = {}
    BY <1>9 DEF Closes, Filed
  <2>2. run'[p].plan = run[p].plan /\ (run'[p].report # "none" => run'[p].step = "done")
    BY <1>1, <1>9 DEF Closes, Keeps
  <2> QED
    BY <1>2, <1>3, <2>1, <2>2 DEF Closed
<1>10. CASE Again(p)
  <2>1. run'[p].plan.obligations = {}
    BY <1>10 DEF Again, NoPlan
  <2> QED
    BY <1>1, <1>2, <1>10, <2>1 DEF Again, Closed
<1>11. CASE Marks(p)
  <2>1. run[p].plan.obligations \intersect Live' = {}
    BY <1>0, <1>11 DEF Marks, Closed, BookMoves, Live
  <2> QED
    BY <1>2, <1>3, <1>11, <2>1 DEF Marks, Keeps, Closed
<1> QED
  BY <1>4, <1>5, <1>6, <1>7, <1>8, <1>9, <1>10, <1>11 DEF Progress

LEMMA InitClosed == WInit => ClosedInv
<1> SUFFICES ASSUME WInit PROVE ClosedInv
  OBVIOUS
<1>1. WTypeInv
  BY InitWType
<1>2. ASSUME NEW p \in Client
      PROVE  Filed(p) /\ Following(p) /\ Closed(p)
  <2>1. /\ run[p].batch = None /\ run[p].step = "start" /\ run[p].report = "none"
        /\ run[p].plan = NoPlan /\ approval[p] = "none"
    BY DEF WInit
  <2> QED
    BY <2>1 DEF Filed, Following, Closed, NoPlan
<1> QED
  BY <1>1, <1>2 DEF ClosedInv, FollowInv

LEMMA FollowStep == FollowInv /\ [WNext]_<<vars, wvars>> => FollowInv'
<1> SUFFICES ASSUME FollowInv, [WNext]_<<vars, wvars>> PROVE FollowInv'
  OBVIOUS
<1>1. WTypeInv /\ WTypeInv'
  BY WTypeStep DEF FollowInv
<1>2. CASE UNCHANGED <<vars, wvars>>
  BY <1>1, <1>2 DEF FollowInv, Filed, Following
<1>3. CASE Others \/ CommitLate
  <2>1. BookMoves /\ UNCHANGED <<run, approval>>
    BY <1>1, <1>3, OthersMove, LateMoves
  <2> QED
    BY <1>1, <2>1, Bystander DEF FollowInv
<1>4. ASSUME NEW p \in Client, Works(p) \/ Crash(p)
      PROVE  FollowInv'
  <2>1. BookMoves /\ OthersRun(p) /\ Progress(p) /\ Approvals(p) /\ run[p].step # "done"
    BY <1>1, <1>4, ProcessMoves, ProcessStep, Working
  <2>2. Filed(p)' /\ Following(p)'
    BY <1>1, <2>1, OwnFollow DEF FollowInv
  <2>3. \A q \in Client \ {p} : run'[q] = run[q] /\ approval'[q] = approval[q]
    BY <1>1, <2>1 DEF OthersRun, Approvals, WTypeInv
  <2>4. \A q \in Client \ {p} : Filed(q)' /\ Following(q)'
    BY <1>1, <2>1, <2>3, Bystander DEF FollowInv
  <2> QED
    BY <1>1, <2>2, <2>4 DEF FollowInv
<1> QED
  BY <1>2, <1>3, <1>4 DEF WNext

LEMMA ClosedStep == ClosedInv /\ [WNext]_<<vars, wvars>> => ClosedInv'
<1> SUFFICES ASSUME ClosedInv, [WNext]_<<vars, wvars>> PROVE ClosedInv'
  OBVIOUS
<1>1. WTypeInv /\ FollowInv /\ FollowInv'
  BY FollowStep DEF ClosedInv, FollowInv
<1>2. CASE UNCHANGED <<vars, wvars>>
  BY <1>1, <1>2 DEF ClosedInv, Closed, Live
<1>3. CASE Others \/ CommitLate
  <2>1. BookMoves /\ UNCHANGED <<run, approval>>
    BY <1>1, <1>3, OthersMove, LateMoves
  <2> QED
    BY <1>1, <2>1, Bystander DEF ClosedInv
<1>4. ASSUME NEW p \in Client, Works(p) \/ Crash(p)
      PROVE  ClosedInv'
  <2>1. BookMoves /\ OthersRun(p) /\ Progress(p) /\ Approvals(p) /\ run[p].step # "done"
    BY <1>1, <1>4, ProcessMoves, ProcessStep, Working
  <2>2. Closed(p)'
    BY <1>1, <2>1, OwnClosed DEF ClosedInv, FollowInv
  <2>3. \A q \in Client \ {p} : run'[q] = run[q] /\ approval'[q] = approval[q]
    BY <1>1, <2>1 DEF OthersRun, Approvals, WTypeInv
  <2>4. \A q \in Client \ {p} : Closed(q)'
    BY <1>1, <2>1, <2>3, Bystander DEF ClosedInv
  <2> QED
    BY <1>1, <2>2, <2>4 DEF ClosedInv
<1> QED
  BY <1>2, <1>3, <1>4 DEF WNext

-----------------------------------------------------------------------------
(* The theorems.                                                           *)

\* For any book, solver and number of processes: what a process that asks for
\* approval settles is exactly the plan a human approved, whatever others do to
\* the book and the limits between the approval and the settlement (settle_real,
\* net_settle.py 642-742).
THEOREM ApprovedPlansOnly == WSpec => []SettledAsApproved
<1>1. WInit => FollowInv
  BY InitClosed DEF ClosedInv
<1>2. FollowInv => SettledAsApproved
  <2> SUFFICES ASSUME FollowInv, NEW p \in Client, p \in Approving,
                      run[p].batch # None, batch[run[p].batch] # None
               PROVE  /\ batch[run[p].batch].obligations = run[p].agreed.obligations
                      /\ batch[run[p].batch].residualLegs = run[p].agreed.legs
                      /\ approval[p] \in {"active", "executed"}
    BY WorkflowTerms DEF SettledAsApproved, Settled
  <2>1. Filed(p) /\ Following(p)
    BY DEF FollowInv
  <2> QED
    BY <2>1 DEF Filed, Following
<1> QED
  BY <1>1, <1>2, FollowStep, PTL DEF WSpec

\* A settlement reported ok, or an approval marked executed, leaves none of its
\* plan's obligations open: also when the answer was lost and the outcome was
\* read from the ledger (settle_committed).
THEOREM SuccessClosed == WSpec => []SuccessClosesTheBook
<1>1. ClosedInv => SuccessClosesTheBook
  BY DEF ClosedInv, Closed, SuccessClosesTheBook
<1> QED
  BY <1>1, InitClosed, ClosedStep, PTL DEF WSpec

-----------------------------------------------------------------------------
(* The processes drive the ledger as NettingLedger has it: what is funded is *)
(* in the instrument of its leg, also in a submission its caller gave up on, *)
(* and the limits a batch carries are or were in force.                      *)

\* Each holding is there for the leg of its position, in the leg's currency.
Fits(funds, legs) ==
  \A i \in DOMAIN funds :
    /\ i \in DOMAIN legs
    /\ holding[funds[i]] # None /\ holding[funds[i]].currency = legs[i].currency

Provisioned(p) ==
  /\ run[p].limits \subseteq Known(CreditLimit)
  /\ run[p].step \in Before => run[p].funds = <<>>
  /\ run[p].step = "issue" => Len(run[p].funds) < Len(run[p].plan.legs)
  /\ run[p].step = "lock" => run[p].funds # <<>>
  /\ Fits(run[p].funds, run[p].plan.legs)

LateFits ==
  \A l \in late : batch[l.batch] # None => Fits(l.funds, batch[l.batch].residualLegs)

DrivenInv == TypeOK /\ ClosedInv /\ (\A p \in Client : Provisioned(p)) /\ LateFits

LEMMA RunParts ==
  ASSUME WTypeInv, NEW p \in Client
  PROVE  /\ run[p].funds \in Seq(Hold) /\ run[p].plan.legs \in Seq(Transfer)
         /\ run[p].plan.legs \in Plans /\ run[p].plan.obligations \subseteq Obl
BY PlanTerms DEF WTypeInv, RunOK, Run, Plan

\* A settlement with holdings that fit is one that NettingLedger's clients make.
LEMMA FittingIsInKind ==
  ASSUME TypeOK, NEW b \in Batch, batch[b] # None, NEW funds \in Seq(Hold),
         Fits(funds, batch[b].residualLegs), SettleNetting(b, Alloc(b, funds))
  PROVE  SettleInKind
<1>. DEFINE legs == batch[b].residualLegs
            alloc == Alloc(b, funds)
<1>1. /\ alloc = [i \in DOMAIN funds |-> [leg |-> legs[i], holding |-> funds[i]]]
      /\ DOMAIN funds = 1 .. Len(funds) /\ Len(funds) \in Nat
  BY DEF Alloc
<1>2. Len(alloc) = Len(legs)
  BY DEF SettleNetting
<1>3. Len(alloc) = Len(funds)
  <2>. HIDE DEF legs
  <2>. QED BY <1>1
<1>4. DOMAIN funds = 1 .. Len(legs) /\ funds \in [1 .. Len(legs) -> Hold]
  BY <1>1, <1>2, <1>3
<1>5. alloc \in Allocations(b)
  BY <1>1, <1>4 DEF Allocations
<1>6. InKind(alloc)
  <2>1. \A i \in DOMAIN funds : alloc[i].leg = legs[i] /\ alloc[i].holding = funds[i]
    BY <1>1
  <2>2. DOMAIN alloc = DOMAIN funds
    BY <1>1
  <2>. HIDE DEF alloc
  <2>. QED BY <2>1, <2>2 DEF InKind, Fits
<1>. QED BY <1>5, <1>6 DEF SettleInKind

LEMMA LateIsNext ==
  ASSUME DrivenInv, CommitLate
  PROVE  Next
<1>1. PICK l \in late : batch[l.batch] # None /\ SettleNetting(l.batch, Alloc(l.batch, l.funds))
  BY DEF CommitLate
<1>2. l.batch \in Batch /\ l.funds \in Seq(Hold)
  BY DEF DrivenInv, ClosedInv, FollowInv, WTypeInv
<1>3. Fits(l.funds, batch[l.batch].residualLegs)
  BY <1>1 DEF DrivenInv, LateFits
<1>. QED BY <1>1, <1>2, <1>3, FittingIsInKind DEF DrivenInv, Next

LEMMA SettleIsNext ==
  ASSUME DrivenInv, NEW p \in Client, SettleBatch(p)
  PROVE  Next \/ UNCHANGED vars
<1>. DEFINE b == run[p].batch
<1>1. CASE batch[b] # None /\ SettleNetting(b, Alloc(b, run[p].funds))
  <2>1. b \in Batch /\ run[p].funds \in Seq(Hold)
    BY RunParts DEF DrivenInv, ClosedInv, FollowInv, WTypeInv, SettleBatch, At
  <2>2. batch[b].residualLegs = run[p].plan.legs
    BY <1>1, <2>1, NoneIsNoBatch DEF DrivenInv, ClosedInv, FollowInv, Filed
  <2>3. Fits(run[p].funds, batch[b].residualLegs)
    BY <2>2 DEF DrivenInv, Provisioned
  <2>. QED BY <1>1, <2>1, <2>3, FittingIsInKind DEF DrivenInv, Next
<1>2. CASE UNCHANGED vars
  BY <1>2
<1>. QED BY <1>1, <1>2 DEF SettleBatch

LEMMA FundingIsNext ==
  ASSUME DrivenInv, NEW p \in Client, IssueFunding(p) \/ LockFunding(p)
  PROVE  Next \/ UNCHANGED vars
<1>1. WTypeInv /\ Provisioned(p)
  BY DEF DrivenInv, ClosedInv, FollowInv
<1>2. /\ run[p].funds \in Seq(Hold) /\ run[p].plan.legs \in Seq(Transfer)
      /\ run[p].plan.legs \in Plans
  BY <1>1, RunParts
<1>3. CASE IssueFunding(p)
  <2>. DEFINE n == Len(run[p].funds) + 1
  <2>1. n \in DOMAIN run[p].plan.legs
    BY <1>1, <1>2, <1>3 DEF Provisioned, IssueFunding, At
  <2>2. Funding(run[p].plan.legs[n]) \in IssueTerms
    BY <1>2, <2>1, FundingTerms
  <2>3. (\E h \in Hold : Issue(h, Funding(run[p].plan.legs[n]))) \/ UNCHANGED vars
    BY <1>3 DEF IssueFunding
  <2>. QED BY <2>2, <2>3 DEF Next, Cash
<1>4. CASE LockFunding(p)
  <2>1. run[p].funds # <<>>
    BY <1>1, <1>4 DEF Provisioned, LockFunding, At
  <2>2. run[p].funds[Len(run[p].funds)] \in Hold
    BY <1>2, <2>1
  <2>. QED BY <1>4, <2>2 DEF LockFunding, Next, Cash
<1>. QED BY <1>3, <1>4

LEMMA CreateIsNext ==
  ASSUME DrivenInv, NEW p \in Client, CreatePlanBatch(p)
  PROVE  Next \/ UNCHANGED vars
<1>. DEFINE plan == run[p].plan
            none == [f \in Firm |-> [c \in Currency |-> 0]]
<1>1. CASE UNCHANGED vars
  BY <1>1
<1>2. CASE \E b \in Batch :
             CreateBatch(b, plan.obligations, plan.legs, run[p].limits, {}, {}, {}, none)
  <2>1. PICK b \in Batch :
          CreateBatch(b, plan.obligations, plan.legs, run[p].limits, {}, {}, {}, none)
    BY <1>2
  <2>2. plan.obligations \in SUBSET {o \in Obl : obl[o] # "none"} /\ plan.legs \in Plans
    BY RunParts DEF DrivenInv, ClosedInv, FollowInv, Closed
  <2>3. run[p].limits \in SUBSET Known(CreditLimit)
    BY DEF DrivenInv, Provisioned
  <2>4. Snapshot({}) = none
    BY DEF Snapshot
  <2>5. /\ {} \in SUBSET Known(AggregateLimit) /\ {} \in SUBSET Known(LiquidityFloor)
        /\ {} \in SUBSET Known(FXRate)
    OBVIOUS
  <2>. HIDE DEF plan, none
  <2>6. CreateBatch(b, plan.obligations, plan.legs, run[p].limits, {}, {}, {}, Snapshot({}))
    BY <2>1, <2>4
  <2>7. Build
    BY <2>2, <2>3, <2>5, <2>6, Zenon DEF Build
  <2>. QED BY <2>7 DEF Next
<1>. QED BY <1>1, <1>2 DEF CreatePlanBatch

LEMMA WorkflowDrivesLedger ==
  ASSUME DrivenInv, [WNext]_<<vars, wvars>>
  PROVE  [Next]_vars
<1>1. CASE Others
  BY <1>1 DEF Others, Next, Contracts, Ref
<1>2. CASE CommitLate
  BY <1>2, LateIsNext
<1>3. ASSUME NEW p \in Client, Works(p) \/ Crash(p)
      PROVE  Next \/ UNCHANGED vars
  <2>1. CASE UNCHANGED vars
    BY <2>1
  <2>2. CASE IssueFunding(p) \/ LockFunding(p) \/ CreatePlanBatch(p) \/ SettleBatch(p)
    BY <2>2, FundingIsNext, CreateIsNext, SettleIsNext
  <2>3. \/ UNCHANGED vars
        \/ IssueFunding(p) \/ LockFunding(p) \/ CreatePlanBatch(p) \/ SettleBatch(p)
    BY <1>3 DEF Works, Crash, Reads, Start, PlanForReview, Recommend, Approve, ReadLimits,
       Check, MarkExecuted
  <2>. QED BY <2>1, <2>2, <2>3
<1>. QED BY <1>1, <1>2, <1>3 DEF WNext

\* What a step of the ledger leaves of the cash that is there and of the
\* contracts that were agreed.
LEMMA CashStays ==
  ASSUME TypeOK, [Next]_vars, NEW h \in Hold, holding[h] # None
  PROVE  holding'[h] # None /\ holding'[h].currency = holding[h].currency
BY EverySlotStep DEF SlotStep, Kept

LEMMA AgreedStays ==
  ASSUME TypeOK, [Next]_vars, NEW r \in Ref, ref[r] # "none"
  PROVE  ref'[r] # "none"
<1>1. CASE Contracts
  BY <1>1 DEF Contracts, Accrue, Discharge, Agree, Archive, TypeOK
<1>2. CASE ~ Contracts
  <2>1. UNCHANGED ref
    BY <1>2 DEF Next, Tick, Cash, Issue, LockHolding, Release, HoldingTransfer, Build,
       CreateBatch, SettleInKind, SettleNetting, CancelNetting
  <2>. QED BY <2>1
<1>. QED BY <1>1, <1>2

LEMMA StillFits ==
  ASSUME TypeOK, [Next]_vars, NEW funds \in Seq(Hold), NEW legs, Fits(funds, legs)
  PROVE  \A i \in DOMAIN funds :
           /\ i \in DOMAIN legs
           /\ holding'[funds[i]] # None /\ holding'[funds[i]].currency = legs[i].currency
<1>1. \A i \in DOMAIN funds : funds[i] \in Hold
  OBVIOUS
<1>. QED BY <1>1, CashStays DEF Fits

\* What a step of a process does to the limits and the holdings it works with.
Emptied(p) ==
  /\ run'[p].funds = <<>> /\ run'[p].step # "lock"
  /\ run'[p].step = "issue" => run'[p].plan.legs # <<>>

Issued(p) ==
  \E h \in Hold :
    LET n == Len(run[p].funds) + 1 IN
    /\ run[p].step = "issue" /\ run'[p].step = "lock"
    /\ run'[p].funds = Append(run[p].funds, h) /\ run'[p].plan = run[p].plan
    /\ holding'[h] # None /\ holding'[h].currency = run[p].plan.legs[n].currency

Carries(p) ==
  /\ run[p].step \notin Before
  /\ run'[p].funds = run[p].funds /\ run'[p].plan = run[p].plan
  /\ run'[p].step \in {"issue", "create", "settle", "mark"}
  /\ run'[p].step = "issue" => Len(run[p].funds) # Len(run[p].plan.legs)

FundMove(p) ==
  /\ run'[p].limits \subseteq run[p].limits \union InForce
  /\ Emptied(p) \/ Issued(p) \/ Carries(p)

LEMMA EndsFunds ==
  ASSUME RunOK, NEW p \in Client, NEW r, Ends(p, r)
  PROVE  FundMove(p)
<1>. DEFINE x == [run[p] EXCEPT !.step = "done", !.report = r, !.book = {},
                                !.limits = {}, !.funds = <<>>]
<1>1. x.step = "done" /\ x.limits = {} /\ x.funds = <<>>
  BY DEF RunOK, Run
<1>2. run'[p] = x
  BY DEF RunOK, Ends
<1>. HIDE DEF x
<1>. QED BY <1>1, <1>2 DEF FundMove, Emptied

LEMMA GotoFunds ==
  ASSUME RunOK, NEW p \in Client, NEW s, Goto(p, s)
  PROVE  /\ run'[p].step = s /\ run'[p].limits = run[p].limits
         /\ run'[p].funds = run[p].funds /\ run'[p].plan = run[p].plan
BY DEF RunOK, Run, Goto

LEMMA RenetFunds ==
  ASSUME RunOK, NEW p \in Client, Renet(p)
  PROVE  FundMove(p)
<1>1. CASE Ends(p, "failed")
  BY <1>1, EndsFunds
<1>2. CASE run' = [run EXCEPT ![p].step = "limits", ![p].funds = <<>>, ![p].batch = None,
                              ![p].plan = NoPlan,
                              ![p].excluded = {run[p].plan.legs[1].sender}]
  <2>. DEFINE x == [run[p] EXCEPT !.step = "limits", !.funds = <<>>, !.batch = None,
                                  !.plan = NoPlan,
                                  !.excluded = {run[p].plan.legs[1].sender}]
  <2>1. x.step = "limits" /\ x.limits = run[p].limits /\ x.funds = <<>>
    BY DEF RunOK, Run
  <2>2. run'[p] = x
    BY <1>2 DEF RunOK
  <2>. HIDE DEF x
  <2>. QED BY <2>1, <2>2 DEF FundMove, Emptied
<1>. QED BY <1>1, <1>2 DEF Renet

LEMMA PreparingFunds ==
  ASSUME WTypeInv, NEW p \in Client, Provisioned(p),
         Start(p) \/ PlanForReview(p) \/ Recommend(p) \/ Approve(p) \/ ReadLimits(p)
  PROVE  FundMove(p)
<1>0. RunOK /\ run[p] \in Run /\ run[p].funds = <<>>
  BY DEF WTypeInv, RunOK, Provisioned, Before, At, Start, PlanForReview, Recommend, Approve,
     ReadLimits
<1>1. ASSUME NEW s \in Before, Goto(p, s) PROVE FundMove(p)
  BY <1>0, <1>1, GotoFunds DEF FundMove, Emptied, Before
<1>2. ASSUME NEW x, run' = [run EXCEPT ![p] = x], x.step \in Before, x.funds = <<>>,
             x.limits \subseteq run[p].limits \union InForce
      PROVE  FundMove(p)
  BY <1>0, <1>2 DEF FundMove, Emptied, Before, RunOK
<1>3. CASE Start(p)
  <2>. DEFINE x == [run[p] EXCEPT !.step = "plan", !.book = Live]
  <2>1. /\ x.step = "plan" /\ x.funds = run[p].funds /\ x.limits = run[p].limits
        /\ [run EXCEPT ![p].step = "plan", ![p].book = Live] = [run EXCEPT ![p] = x]
    BY <1>0 DEF Run
  <2>2. "plan" \in Before /\ "limits" \in Before
    BY DEF Before
  <2>. HIDE DEF x
  <2>. QED BY <1>0, <1>1, <1>2, <1>3, <2>1, <2>2, EndsFunds DEF Start
<1>4. CASE PlanForReview(p)
  <2>. DEFINE P == PlanFor[Due(run[p].book), InForce]
              x == [run[p] EXCEPT !.step = "recommend", !.agreed = P]
  <2>1. run' = [run EXCEPT ![p] = x]
    BY <1>4 DEF PlanForReview
  <2>. HIDE DEF P
  <2>2. x.step \in Before /\ x.funds = run[p].funds /\ x.limits = run[p].limits
    BY <1>0 DEF Run, Before
  <2>. HIDE DEF x
  <2>. QED BY <1>0, <1>2, <2>1, <2>2
<1>5. CASE Recommend(p) \/ Approve(p)
  <2>1. "approve" \in Before /\ "limits" \in Before
    BY DEF Before
  <2>. QED BY <1>0, <1>1, <1>5, <2>1, EndsFunds DEF Recommend, Approve
<1>6. CASE ReadLimits(p)
  <2>. DEFINE x == [run[p] EXCEPT !.step = "check", !.limits = InForce]
  <2>1. run' = [run EXCEPT ![p] = x]
    BY <1>6 DEF ReadLimits
  <2>2. x.step \in Before /\ x.funds = run[p].funds /\ x.limits = InForce
    BY <1>0 DEF Run, Before
  <2>. HIDE DEF x
  <2>. QED BY <1>0, <1>2, <2>1, <2>2
<1>. QED BY <1>3, <1>4, <1>5, <1>6

LEMMA CheckFunds ==
  ASSUME WTypeInv, NEW p \in Client, Provisioned(p), Check(p)
  PROVE  FundMove(p)
<1>. DEFINE plan == PlanFor[Excluding(Due(Live), run[p].excluded), run[p].limits]
            s == IF plan.legs = <<>> THEN "create" ELSE "issue"
            x == [run[p] EXCEPT !.plan = plan, !.step = s]
<1>0. RunOK /\ run[p] \in Run /\ run[p].funds = <<>>
  BY DEF WTypeInv, RunOK, Provisioned, Before, At, Check
<1>1. Ends(p, "refused") \/ run' = [run EXCEPT ![p].plan = plan, ![p].step = s]
  BY DEF Check
<1>2. CASE run' = [run EXCEPT ![p].plan = plan, ![p].step = s]
  <2>1. run' = [run EXCEPT ![p] = x]
    BY <1>2
  <2>. HIDE DEF plan
  <2>2. s \in {"issue", "create"} /\ (s = "issue" => plan.legs # <<>>)
    OBVIOUS
  <2>. HIDE DEF s
  <2>3. x.step = s /\ x.plan = plan /\ x.funds = <<>> /\ x.limits = run[p].limits
    BY <1>0 DEF Run
  <2>. HIDE DEF x
  <2>4. run'[p] = x
    BY <1>0, <2>1 DEF RunOK
  <2>. QED BY <2>2, <2>3, <2>4 DEF FundMove, Emptied
<1>. QED BY <1>0, <1>1, <1>2, EndsFunds

LEMMA FundingFunds ==
  ASSUME WTypeInv, TypeOK, NEW p \in Client, Provisioned(p),
         IssueFunding(p) \/ LockFunding(p)
  PROVE  FundMove(p)
<1>0. RunOK /\ run[p] \in Run
  BY DEF WTypeInv, RunOK
<1>1. CASE IssueFunding(p)
  <2>. DEFINE leg == run[p].plan.legs[Len(run[p].funds) + 1]
  <2>1. ASSUME NEW h \in Hold, Issue(h, Funding(leg)),
               run' = [run EXCEPT ![p].step = "lock", ![p].funds = Append(@, h)]
        PROVE  FundMove(p)
    <3>. DEFINE fs == Append(run[p].funds, h)
                x == [run[p] EXCEPT !.step = "lock", !.funds = fs]
    <3>1. run' = [run EXCEPT ![p] = x]
      BY <2>1
    <3>2. run[p].step = "issue"
      BY <1>1 DEF IssueFunding, At
    <3>3. holding'[h] # None /\ holding'[h].currency = leg.currency
      <4>. DEFINE r == [owner |-> Funding(leg).owner, currency |-> Funding(leg).currency,
                        amount |-> Funding(leg).amount, locked |-> FALSE]
      <4>1. holding'[h] = r
        BY <2>1 DEF Issue, TypeOK
      <4>2. Len(run[p].funds) + 1 \in DOMAIN run[p].plan.legs
        BY <3>2, RunParts DEF Provisioned
      <4>3. Funding(leg) \in IssueRec
        BY <4>2, RunParts, FundingTerms, CashTerms
      <4>4. r \in HoldingRec
        BY <4>3 DEF IssueRec, HoldingRec
      <4>5. r.currency = leg.currency
        BY DEF Funding
      <4>. HIDE DEF r
      <4>. QED BY <4>1, <4>4, <4>5, NoneIsNoRecord
    <3>. HIDE DEF fs
    <3>4. x.step = "lock" /\ x.funds = fs /\ x.plan = run[p].plan /\ x.limits = run[p].limits
      BY <1>0 DEF Run
    <3>. HIDE DEF x
    <3>5. run'[p] = x
      BY <1>0, <3>1 DEF RunOK
    <3>6. Issued(p)
      BY <3>2, <3>3, <3>4, <3>5 DEF Issued, fs
    <3>. QED BY <3>4, <3>5, <3>6 DEF FundMove
  <2>2. CASE Ends(p, "unknown")
    BY <1>0, <2>2, EndsFunds
  <2>. HIDE DEF leg
  <2>. QED BY <1>1, <2>1, <2>2 DEF IssueFunding, leg
<1>2. CASE LockFunding(p)
  <2>1. run[p].step = "lock"
    BY <1>2 DEF LockFunding, At
  <2>2. CASE Ends(p, "unknown")
    BY <1>0, <2>2, EndsFunds
  <2>3. CASE \/ Goto(p, "create")
             \/ Goto(p, "issue") /\ Len(run[p].funds) # Len(run[p].plan.legs)
    BY <1>0, <2>1, <2>3, GotoFunds DEF FundMove, Carries, Before
  <2>. QED BY <1>2, <2>2, <2>3 DEF LockFunding
<1>. QED BY <1>1, <1>2

\* What a step of a process leaves to commit later.
LateFrom(p) ==
  \/ late' \subseteq late
  \/ /\ run[p].step = "settle"
     /\ late' \subseteq late \union {[batch |-> run[p].batch, funds |-> run[p].funds]}

LEMMA SettleFunds ==
  ASSUME WTypeInv, NEW p \in Client, SettleBatch(p)
  PROVE  FundMove(p) /\ LateFrom(p)
<1>0. RunOK /\ run[p].step = "settle"
  BY DEF WTypeInv, SettleBatch, At
<1>1. LateFrom(p)
  BY <1>0 DEF SettleBatch, LateFrom
<1>2. Succeeds(p) \/ Ends(p, "unknown") \/ Renet(p)
  BY DEF SettleBatch
<1>3. CASE Goto(p, "mark")
  BY <1>0, <1>1, <1>3, GotoFunds DEF FundMove, Carries, Before
<1>. QED BY <1>0, <1>1, <1>2, <1>3, EndsFunds, RenetFunds DEF Succeeds

LEMMA CreateFunds ==
  ASSUME WTypeInv, NEW p \in Client, CreatePlanBatch(p)
  PROVE  FundMove(p)
<1>0. RunOK /\ run[p].step = "create"
  BY DEF WTypeInv, CreatePlanBatch, At
<1>1. ASSUME NEW b, run' = [run EXCEPT ![p].step = "settle", ![p].batch = b]
      PROVE  FundMove(p)
  <2>. DEFINE x == [run[p] EXCEPT !.step = "settle", !.batch = b]
  <2>1. run'[p] = x
    BY <1>0, <1>1 DEF RunOK
  <2>2. /\ x.step = "settle" /\ x.funds = run[p].funds /\ x.plan = run[p].plan
        /\ x.limits = run[p].limits
    BY <1>0 DEF RunOK, Run
  <2>. HIDE DEF x
  <2>. QED BY <1>0, <2>1, <2>2 DEF FundMove, Carries, Before
<1>2. Ends(p, "failed") \/ \E b : run' = [run EXCEPT ![p].step = "settle", ![p].batch = b]
  BY DEF CreatePlanBatch
<1>. QED BY <1>0, <1>1, <1>2, EndsFunds

LEMMA ProcessFunds ==
  ASSUME WTypeInv, TypeOK, NEW p \in Client, Provisioned(p), Works(p) \/ Crash(p)
  PROVE  FundMove(p) /\ LateFrom(p)
<1>0. RunOK
  BY DEF WTypeInv
<1>1. CASE SettleBatch(p)
  BY <1>1, SettleFunds
<1>2. CASE ~ SettleBatch(p)
  <2>1. UNCHANGED late
    BY <1>2 DEF Works, Crash, Reads, Writes, Start, PlanForReview, Recommend, Approve,
       ReadLimits, Check, IssueFunding, LockFunding, CreatePlanBatch, MarkExecuted
  <2>2. CASE MarkExecuted(p) \/ Crash(p)
    BY <1>0, <2>1, <2>2, EndsFunds DEF MarkExecuted, Crash, LateFrom
  <2>3. FundMove(p)
    BY <1>2, <2>2, PreparingFunds, CheckFunds, FundingFunds, CreateFunds DEF Works
  <2>. QED BY <2>1, <2>3 DEF LateFrom
<1>. QED BY <1>1, <1>2

\* The process that takes the step is provided for afterwards.
LEMMA OwnProvisioned ==
  ASSUME WTypeInv, WTypeInv', TypeOK, [Next]_vars, NEW p \in Client, Provisioned(p),
         FundMove(p)
  PROVE  Provisioned(p)'
<1>1. Known(CreditLimit) \subseteq Known(CreditLimit)' /\ InForce \subseteq Known(CreditLimit)'
  <2>1. \A r \in CreditLimit : ref[r] # "none" => ref'[r] # "none"
    BY AgreedStays DEF Ref
  <2>. QED BY <2>1 DEF Known, InForce
<1>2. run'[p].limits \subseteq Known(CreditLimit)'
  BY <1>1 DEF FundMove, Provisioned
<1>3. /\ run[p].funds \in Seq(Hold) /\ run[p].plan.legs \in Seq(Transfer)
      /\ Fits(run[p].funds, run[p].plan.legs)
  BY RunParts DEF Provisioned
<1>4. \A i \in DOMAIN run[p].funds :
        /\ i \in DOMAIN run[p].plan.legs
        /\ holding'[run[p].funds[i]] # None
        /\ holding'[run[p].funds[i]].currency = run[p].plan.legs[i].currency
  BY <1>3, StillFits
<1>5. CASE Emptied(p)
  <2>1. DOMAIN run'[p].funds = {} /\ Len(run'[p].funds) = 0
    BY <1>5 DEF Emptied
  <2>2. run'[p].plan.legs \in Seq(Transfer)
    BY PlanTerms DEF WTypeInv, RunOK, Run, Plan
  <2>3. run'[p].step = "issue" => 0 < Len(run'[p].plan.legs)
    BY <1>5, <2>2 DEF Emptied
  <2>. QED BY <1>2, <1>5, <2>1, <2>3 DEF Emptied, Provisioned, Fits
<1>6. CASE Issued(p)
  <2>. DEFINE fs == run[p].funds
              legs == run[p].plan.legs
              n == Len(fs) + 1
  <2>1. PICK h \in Hold :
          /\ run[p].step = "issue" /\ run'[p].step = "lock"
          /\ run'[p].funds = Append(fs, h) /\ run'[p].plan = run[p].plan
          /\ holding'[h] # None /\ holding'[h].currency = legs[n].currency
    BY <1>6 DEF Issued
  <2>2. n \in DOMAIN legs
    BY <1>3, <2>1 DEF Provisioned
  <2>3. /\ DOMAIN Append(fs, h) = DOMAIN fs \union {n}
        /\ \A i \in DOMAIN fs : Append(fs, h)[i] = fs[i]
        /\ Append(fs, h)[n] = h /\ Append(fs, h) # <<>>
    BY <1>3
  <2>. HIDE DEF n
  <2>4. Fits(run[p].funds, run[p].plan.legs)'
    BY <1>4, <2>1, <2>2, <2>3 DEF Fits
  <2>. QED BY <1>2, <2>1, <2>3, <2>4 DEF Provisioned, Before
<1>7. CASE Carries(p)
  <2>1. Fits(run[p].funds, run[p].plan.legs)'
    BY <1>4, <1>7 DEF Carries, Fits
  <2>2. Len(run[p].funds) # Len(run[p].plan.legs) => Len(run[p].funds) < Len(run[p].plan.legs)
    BY <1>3 DEF Fits
  <2>. QED BY <1>2, <1>7, <2>1, <2>2 DEF Carries, Provisioned, Before
<1>. QED BY <1>5, <1>6, <1>7 DEF FundMove

\* A submission that may still commit fits its batch, if the batch is still there.
LEMMA LateStillFits ==
  ASSUME WTypeInv, TypeOK, [Next]_vars, BookMoves, LateFits,
         \/ late' \subseteq late
         \/ \E p \in Client : Provisioned(p) /\ Filed(p) /\ LateFrom(p)
  PROVE  LateFits'
<1>1. ASSUME NEW b \in Batch, ~ Fresh(b), batch'[b] # None, NEW funds \in Seq(Hold),
             batch[b] # None => Fits(funds, batch[b].residualLegs)
      PROVE  \A i \in DOMAIN funds :
               /\ i \in DOMAIN batch'[b].residualLegs
               /\ holding'[funds[i]] # None
               /\ holding'[funds[i]].currency = batch'[b].residualLegs[i].currency
  <2>1. batch[b] # None /\ batch'[b].residualLegs = batch[b].residualLegs
    BY <1>1 DEF BookMoves, SameBatch
  <2>. QED BY <1>1, <2>1, StillFits
<1>2. ASSUME NEW l \in late, batch'[l.batch] # None
      PROVE  Fits(l.funds, batch[l.batch].residualLegs)'
  <2>1. l.batch \in Batch /\ l.funds \in Seq(Hold) /\ ~ Fresh(l.batch)
    BY DEF WTypeInv, Fresh
  <2>2. batch[l.batch] # None => Fits(l.funds, batch[l.batch].residualLegs)
    BY DEF LateFits
  <2>. QED BY <1>1, <1>2, <2>1, <2>2 DEF Fits
<1>3. ASSUME NEW p \in Client, Provisioned(p), Filed(p), run[p].step = "settle",
             NEW l, l = [batch |-> run[p].batch, funds |-> run[p].funds],
             batch'[l.batch] # None
      PROVE  Fits(l.funds, batch[l.batch].residualLegs)'
  <2>1. l.batch = run[p].batch /\ l.funds = run[p].funds
    BY <1>3
  <2>2. l.batch \in Batch /\ l.funds \in Seq(Hold) /\ ~ Fresh(l.batch) /\ l.batch # None
    BY <1>3, <2>1, RunParts, NoneIsNoBatch DEF WTypeInv, Fresh
  <2>3. batch[l.batch] # None => Fits(l.funds, batch[l.batch].residualLegs)
    BY <1>3, <2>1, <2>2 DEF Provisioned, Filed
  <2>. QED BY <1>1, <1>3, <2>2, <2>3 DEF Fits
<1>4. ASSUME NEW l \in late', batch'[l.batch] # None
      PROVE  Fits(l.funds, batch[l.batch].residualLegs)'
  <2>1. CASE l \in late
    BY <1>2, <1>4, <2>1
  <2>2. CASE l \notin late
    <3>1. PICK p \in Client : Provisioned(p) /\ Filed(p) /\ LateFrom(p)
      BY <2>2
    <3>2. run[p].step = "settle" /\ l = [batch |-> run[p].batch, funds |-> run[p].funds]
      BY <2>2, <3>1 DEF LateFrom
    <3>. QED BY <1>3, <1>4, <3>1, <3>2
  <2>. QED BY <2>1, <2>2
<1>. QED BY <1>4 DEF LateFits

LEMMA InitDriven == WInit => DrivenInv
<1>. SUFFICES ASSUME WInit PROVE DrivenInv
  OBVIOUS
<1>1. ClosedInv
  BY InitClosed
<1>2. TypeOK
  BY TimeBound DEF WInit, Init, TypeOK
<1>3. ASSUME NEW p \in Client PROVE Provisioned(p)
  <2>1. /\ run[p].step = "start" /\ run[p].limits = {} /\ run[p].funds = <<>>
    BY DEF WInit
  <2>. QED BY <2>1 DEF Provisioned, Fits
<1>4. LateFits
  BY DEF WInit, LateFits
<1>. QED BY <1>1, <1>2, <1>3, <1>4 DEF DrivenInv

LEMMA DrivenStep == DrivenInv /\ [WNext]_<<vars, wvars>> => DrivenInv'
<1>. SUFFICES ASSUME DrivenInv, [WNext]_<<vars, wvars>> PROVE DrivenInv'
  OBVIOUS
<1>1. [Next]_vars
  BY WorkflowDrivesLedger
<1>2. TypeOK /\ ClosedInv /\ TypeOK' /\ ClosedInv'
  BY <1>1, TypeInductive, ClosedStep DEF DrivenInv
<1>3. WTypeInv /\ WTypeInv'
  BY <1>2 DEF ClosedInv, FollowInv
<1>4. ASSUME NEW q \in Client, run'[q] = run[q] PROVE Provisioned(q)'
  <2>1. Known(CreditLimit) \subseteq Known(CreditLimit)'
    BY <1>1, <1>2, AgreedStays DEF Known, Ref
  <2>2. run[q].funds \in Seq(Hold) /\ Provisioned(q)
    BY <1>3, RunParts DEF DrivenInv
  <2>3. \A i \in DOMAIN run[q].funds :
          /\ i \in DOMAIN run[q].plan.legs
          /\ holding'[run[q].funds[i]] # None
          /\ holding'[run[q].funds[i]].currency = run[q].plan.legs[i].currency
    BY <1>1, <1>2, <2>2, StillFits DEF Provisioned
  <2>4. Fits(run[q].funds, run[q].plan.legs)'
    BY <1>4, <2>3 DEF Fits
  <2>. QED BY <1>4, <2>1, <2>2, <2>4 DEF Provisioned
<1>5. CASE UNCHANGED <<vars, wvars>>
  <2>1. LateFits'
    BY <1>5 DEF DrivenInv, LateFits, Fits
  <2>. QED BY <1>2, <1>4, <1>5, <2>1 DEF DrivenInv
<1>6. CASE Others \/ CommitLate
  <2>1. BookMoves /\ run' = run
    BY <1>3, <1>6, OthersMove, LateMoves
  <2>2. late' \subseteq late
    BY <1>6 DEF Others, CommitLate
  <2>3. LateFits'
    BY <1>1, <1>2, <1>3, <2>1, <2>2, LateStillFits DEF DrivenInv
  <2>. QED BY <1>2, <1>4, <2>1, <2>3 DEF DrivenInv
<1>7. ASSUME NEW p \in Client, Works(p) \/ Crash(p) PROVE DrivenInv'
  <2>1. BookMoves /\ OthersRun(p)
    BY <1>3, <1>7, ProcessMoves, ProcessStep
  <2>2. Provisioned(p) /\ Filed(p)
    BY <1>2 DEF DrivenInv, ClosedInv, FollowInv
  <2>3. FundMove(p) /\ LateFrom(p)
    BY <1>2, <1>3, <1>7, <2>2, ProcessFunds
  <2>4. Provisioned(p)'
    BY <1>1, <1>2, <1>3, <2>2, <2>3, OwnProvisioned
  <2>5. LateFits'
    BY <1>1, <1>2, <1>3, <2>1, <2>2, <2>3, LateStillFits DEF DrivenInv
  <2>. QED BY <1>2, <1>4, <2>1, <2>4, <2>5 DEF DrivenInv, OthersRun
<1>. QED BY <1>5, <1>6, <1>7 DEF WNext

\* Whatever the processes do, with crashes, lost answers, late commits and the
\* firms' own steps in between, the ledger moves only as NettingLedger says:
\* settle_real funds every leg in the leg's own instrument and names only limits
\* that it has read.
THEOREM WorkflowImplementsLedger == WSpec => Spec
<1>1. WInit => Init
  BY DEF WInit
<1>2. DrivenInv /\ [WNext]_<<vars, wvars>> => [Next]_vars
  BY WorkflowDrivesLedger
<1>. QED BY <1>1, <1>2, InitDriven, DrivenStep, PTL DEF WSpec, Spec

\* So also beside these processes no obligation is netted twice.
THEOREM WorkflowNetsOnce == WSpec => []NettedExactlyOnce
BY WorkflowImplementsLedger, NettedOnce, PTL

\* Cash that a process locked for a leg moves only along a leg.
THEOREM WorkflowLockedCashIsSafe == WSpec => LockedCashMovesOnlyByLeg
BY WorkflowImplementsLedger, LockedCashIsSafe, PTL

\* What the processes settle is one atomic netting each, as AtomicNetting has it.
THEOREM WorkflowIsAtomic == WSpec => RefinesAtomicNetting
BY WorkflowImplementsLedger, NettingIsAtomic, PTL

\* A settlement stays within the limits its batch carries, all still in force.
THEOREM WorkflowLimitsBind == WSpec => OutflowWithinCarriedLimits
BY WorkflowImplementsLedger, LimitsBind, PTL
=============================================================================
