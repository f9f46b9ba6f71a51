-------------------------- MODULE SettlementWorkflow --------------------------
(***************************************************************************)
(* How the off-ledger processes settle a book: settle_real                 *)
(* (agent/net_settle.py), under the console's settle_with_approval         *)
(* (ui/console_server.py), which records a human approval first, or under  *)
(* settle_with_failover, which nets again without the party that failed.   *)
(* Every ledger write is a transaction of its own, and NettingLedger says  *)
(* what it does.  Between two steps of one process anything can happen:    *)
(* the processes share nothing but the ledger.                             *)
(*                                                                         *)
(* A write call tells its caller what CommandClient allows: success only   *)
(* if it took effect or its contracts are gone, and otherwise an error,    *)
(* whether or not it took effect.                                          *)
(***************************************************************************)
EXTENDS NettingLedger

CONSTANTS
  Client,      \* processes that settle, each once
  Approving,   \* those that run settle_with_approval
  Solver       \* [book, limits] -> plan: solve_maximal, the same for the same input,
               \* and always a selection of the book it was given

Plan == [obligations: SUBSET Obl, legs: Plans]
NoPlan == [obligations |-> {}, legs |-> <<>>]

\* The solver's answers, under a name of the module so that TLC computes the
\* table once.
PlanFor == Solver

ASSUME WorkflowTerms ==
  /\ Approving \subseteq Client
  /\ Solver \in [(SUBSET Obl) \X (SUBSET CreditLimit) -> Plan]
  /\ \A in \in DOMAIN Solver : Solver[in].obligations \subseteq in[1]
  /\ <<>> \in Plans /\ None \notin Batch

VARIABLES
  run,       \* [Client -> Run]: the local state of each process
  approval,  \* [Client -> {"none", "recommended", "active", "executed"}], on the ledger
  late       \* [batch, funds] of settlements given up on that may still commit

wvars == <<run, approval, late>>

Step == {"start", "plan", "recommend", "approve", "limits", "check", "issue", "lock",
         "create", "settle", "mark", "done"}
Report == {"none", "ok", "failed", "unknown", "refused"}

Run == [step: Step, report: Report,
        book: SUBSET Obl,              \* the book a human was shown
        agreed: Plan,                  \* the plan a human approved
        limits: SUBSET CreditLimit,    \* the limits read for this attempt
        plan: Plan,                    \* the plan of this attempt
        funds: Seq(Hold),              \* the holdings it issued, one per leg
        batch: Batch \union {None},
        excluded: SUBSET Firm]         \* firms left out of this attempt

WInit ==
  /\ Init
  /\ run = [p \in Client |->
       [step |-> "start", report |-> "none", book |-> {}, agreed |-> NoPlan,
        limits |-> {}, plan |-> NoPlan, funds |-> <<>>, batch |-> None, excluded |-> {}]]
  /\ approval = [p \in Client |-> "none"]
  /\ late = {}

-----------------------------------------------------------------------------
At(p, s) == run[p].step = s

Goto(p, s) == run' = [run EXCEPT ![p].step = s]
Ends(p, r) ==
  run' = [run EXCEPT ![p].step = "done", ![p].report = r, ![p].book = {},
                     ![p].limits = {}, ![p].funds = <<>>]

Reads == UNCHANGED <<vars, approval, late>>
Writes == UNCHANGED <<approval, late>>

Live == {o \in Obl : obl[o] = "live"}
Due(S) == {o \in S : Matured(o)}
InForce == {k \in CreditLimit : ref[k] = "active"}
Excluding(S, F) == {o \in S : {OblTerms[o].payer, OblTerms[o].payee} \intersect F = {}}

\* settle_with_approval reads the book, and then the limits to plan for it.
Start(p) ==
  /\ At(p, "start") /\ Reads
  /\ IF p \notin Approving THEN Goto(p, "limits")
     ELSE IF Due(Live) = {} THEN Ends(p, "refused")
     ELSE run' = [run EXCEPT ![p].step = "plan", ![p].book = Live]

PlanForReview(p) ==
  /\ At(p, "plan") /\ Reads
  /\ run' = [run EXCEPT ![p].step = "recommend",
                        ![p].agreed = PlanFor[Due(run[p].book), InForce]]

\* record_plan_approval: the recommendation, then the approval, under a fresh
\* trade id.  Any error ends the workflow.
Recommend(p) ==
  /\ At(p, "recommend") /\ UNCHANGED <<vars, late>>
  /\ \/ approval' = [approval EXCEPT ![p] = "recommended"] /\ Goto(p, "approve")
     \/ approval' \in {approval, [approval EXCEPT ![p] = "recommended"]} /\ Ends(p, "refused")

Approve(p) ==
  /\ At(p, "approve") /\ UNCHANGED <<vars, late>>
  /\ \/ approval' = [approval EXCEPT ![p] = "active"] /\ Goto(p, "limits")
     \/ approval' \in {approval, [approval EXCEPT ![p] = "active"]} /\ Ends(p, "refused")

-----------------------------------------------------------------------------
(* settle_real.                                                            *)

ReadLimits(p) ==
  /\ At(p, "limits") /\ Reads
  /\ run' = [run EXCEPT ![p].step = "check", ![p].limits = InForce]

\* Mutant: the approved plan is not compared with the new one.
PlanUnchecked(p, plan) == p \in Approving => Live = run[p].book /\ approval[p] = "active"

\* The checks between an approval and the first write of the settlement.
StillApproved(p, plan) ==
  p \in Approving =>
    Live = run[p].book /\ approval[p] = "active" /\ plan = run[p].agreed

Check(p) ==
  LET plan == PlanFor[Excluding(Due(Live), run[p].excluded), run[p].limits] IN
  /\ At(p, "check") /\ Reads
  /\ IF plan.obligations # {} /\ StillApproved(p, plan)
     THEN run' = [run EXCEPT ![p].plan = plan,
                             ![p].step = IF plan.legs = <<>> THEN "create" ELSE "issue"]
     ELSE Ends(p, "refused")

Funding(leg) == [owner |-> leg.sender, currency |-> leg.currency, amount |-> leg.amount]

\* The custodian issues whatever a leg needs.
ASSUME FundingTerms == \A legs \in Plans : \A i \in DOMAIN legs : Funding(legs[i]) \in IssueTerms

\* An error here is an exception of settle_real: its outcome is not known.
IssueFunding(p) ==
  LET leg == run[p].plan.legs[Len(run[p].funds) + 1] IN
  /\ At(p, "issue") /\ Writes
  /\ \/ \E h \in Hold :
          /\ Issue(h, Funding(leg))
          /\ \/ run' = [run EXCEPT ![p].step = "lock", ![p].funds = Append(@, h)]
             \/ Ends(p, "unknown")
     \/ UNCHANGED vars /\ Ends(p, "unknown")

LockFunding(p) ==
  LET h == run[p].funds[Len(run[p].funds)]
      complete == Len(run[p].funds) = Len(run[p].plan.legs)
  IN
  /\ At(p, "lock") /\ Writes
  /\ \/ LockHolding(h) /\ (Goto(p, IF complete THEN "create" ELSE "issue") \/ Ends(p, "unknown"))
     \/ UNCHANGED vars /\ Ends(p, "unknown")

\* A contract id is never given out again.
Fresh(b) == (\A p \in Client : run[p].batch # b) /\ \A l \in late : l.batch # b

\* The batch carries the credit limits that were read, no floors and no rates.
CreatePlanBatch(p) ==
  LET plan == run[p].plan
      none == [f \in Firm |-> [c \in Currency |-> 0]]
  IN
  /\ At(p, "create") /\ Writes
  /\ \/ \E b \in Batch :
          /\ Fresh(b)
          /\ CreateBatch(b, plan.obligations, plan.legs, run[p].limits, {}, {}, {}, none)
          /\ \/ run' = [run EXCEPT ![p].step = "settle", ![p].batch = b]
             \/ Ends(p, "failed")
     \/ UNCHANGED vars /\ Ends(p, "failed")

Alloc(b, funds) ==
  [i \in DOMAIN funds |-> [leg |-> batch[b].residualLegs[i], holding |-> funds[i]]]

Pending(b) == batch[b] # None /\ batch[b].status = "pending"

\* Mutant: the batch alone is looked at.
BatchGone(p) == ~Pending(run[p].batch)

\* settle_committed: the batch and its obligations are gone.
LooksSettled(p) ==
  ~Pending(run[p].batch) /\ run[p].plan.obligations \intersect Live = {}

Succeeds(p) ==
  IF p \in Approving THEN Goto(p, "mark") ELSE Ends(p, "ok")

\* A definite failure.  settle_with_failover leaves out the first sender of the
\* failed plan and nets the rest once more.
Renet(p) ==
  LET legs == run[p].plan.legs IN
  IF p \in Approving \/ run[p].excluded # {} \/ legs = <<>>
  THEN Ends(p, "failed")
  ELSE run' = [run EXCEPT ![p].step = "limits", ![p].funds = <<>>, ![p].batch = None,
                          ![p].plan = NoPlan, ![p].excluded = {legs[1].sender}]

SettleBatch(p) ==
  LET mine == run[p].batch IN
  /\ At(p, "settle") /\ UNCHANGED approval
  /\ \/ \* it commits; the caller may not hear of it
        /\ batch[mine] # None /\ SettleNetting(mine, Alloc(mine, run[p].funds))
        /\ Succeeds(p) \/ Ends(p, "unknown") \/ Renet(p)
        /\ UNCHANGED late
     \/ \* it does not commit, but before_retry takes it for committed
        UNCHANGED <<vars, late>> /\ LooksSettled(p) /\ Succeeds(p)
     \/ \* it does not commit, or not yet
        /\ UNCHANGED vars
        /\ late' \in {late, late \union {[batch |-> mine, funds |-> run[p].funds]}}
        /\ Ends(p, "unknown") \/ Renet(p)

\* A submission its caller gave up on is applied after all.
CommitLate ==
  /\ \E l \in late :
       /\ batch[l.batch] # None /\ SettleNetting(l.batch, Alloc(l.batch, l.funds))
       /\ late' = late \ {l}
  /\ UNCHANGED <<run, approval>>

\* MarkExecuted; the settlement is reported ok whatever becomes of it.
MarkExecuted(p) ==
  /\ At(p, "mark") /\ UNCHANGED <<vars, late>>
  /\ approval' \in {approval, [approval EXCEPT ![p] = "executed"]}
  /\ Ends(p, "ok")

\* The process dies: nobody learns the outcome, and nothing is kept but what is
\* on the ledger.
Crash(p) == run[p].step # "done" /\ Reads /\ Ends(p, "unknown")

-----------------------------------------------------------------------------
\* clear_book, limits.clear_limits and the firms, at any time.
Others ==
  /\ \/ \E o \in Obl : Accrue(o) \/ Discharge(o)
     \/ \E k \in CreditLimit : Agree(k) \/ Archive(k)
     \/ \E b \in Batch : CancelNetting(b)
     \/ Tick
  /\ UNCHANGED wvars

Works(p) ==
  \/ Start(p) \/ PlanForReview(p) \/ Recommend(p) \/ Approve(p)
  \/ ReadLimits(p) \/ Check(p)
  \/ IssueFunding(p) \/ LockFunding(p) \/ CreatePlanBatch(p)
  \/ SettleBatch(p) \/ MarkExecuted(p)

WNext == Others \/ CommitLate \/ \E p \in Client : Works(p) \/ Crash(p)

WSpec == WInit /\ [][WNext]_<<vars, wvars>>

-----------------------------------------------------------------------------
(* Properties.                                                             *)

Settled(b) == batch[b] # None /\ batch[b].status = "settled"

\* What a process that asks for approval settles is exactly the plan a human
\* approved, obligations and legs, although the book, the limits and the solver
\* are read again after the approval and others change them at any time
\* (net_settle.py 642-742).
SettledAsApproved ==
  \A p \in Approving :
    run[p].batch # None /\ Settled(run[p].batch) =>
      /\ batch[run[p].batch].obligations = run[p].agreed.obligations
      /\ batch[run[p].batch].residualLegs = run[p].agreed.legs
      /\ approval[p] \in {"active", "executed"}

\* A settlement reported ok, or an approval marked as executed, leaves none of
\* the plan's obligations open: also when the answer was lost and the outcome
\* read from the ledger, and while others cancel the batch (settle_committed).
SuccessClosesTheBook ==
  \A p \in Client :
    run[p].report = "ok" \/ approval[p] = "executed" =>
      run[p].plan.obligations \intersect Live = {}

\* README.md 21: "the failure mode is 'nothing happened,' never 'money is
\* stuck.'"  When a submitted settlement was reported as failed and no process
\* is left to do anything about it, no cash is locked.
FailureLeavesNothingStuck ==
  /\ \A p \in Client : run[p].step = "done"
  /\ \E p \in Client : run[p].report = "failed" /\ run[p].batch # None
  => \A h \in Hold : ~Locked(h)
=============================================================================
