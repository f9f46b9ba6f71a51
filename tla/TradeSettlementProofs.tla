------------------------ MODULE TradeSettlementProofs ------------------------
(***************************************************************************)
(* Bilateral delivery versus payment, for any trades, holdings, agents,    *)
(* approvals and number of scripts.                                        *)
(***************************************************************************)
EXTENDS TradeSettlement, TLAPS

USE DEF ledger, gate, vars

-----------------------------------------------------------------------------
(* Types.  A script past its start, and an agent with something in hand,   *)
(* have a trade.                                                           *)

Idle == {"idle", "done", "failed"}

TypeInv ==
  /\ TypeOK
  /\ \A r \in Runner : run[r].step \notin Idle => run[r].trade \in Trade
  /\ \A w \in Watcher : watch[w].step # "idle" => watch[w].trade \in Trade

LEMMA InitType == Init => TypeInv
<1> SUFFICES ASSUME Init PROVE TypeInv
  OBVIOUS
<1>1. holding \in [Hold -> HoldingRec]
  BY StockTerms DEF Init, HoldingRec, HoldingTerms
<1>2. run \in [Runner -> Run]
  BY DEF Init, Run, RunStep, NoCid
<1>3. /\ reco \in [Trade -> 0 .. MaxReco] /\ watch \in [Watcher -> Watch]
      /\ approval \in [Trade -> [Approval -> {"none", "active", "executed"}]]
  BY LiveTrade DEF Init, Watch
<1>4. trade \in [Trade -> TradeState] /\ attested \subseteq Trade
  BY DEF Init, TradeState
<1> QED
  BY <1>1, <1>2, <1>3, <1>4 DEF Init, TypeInv, TypeOK, Idle

\* The successor of a holding's contract is one, too.
LEMMA Successor ==
  ASSUME NEW c \in HoldingRec
  PROVE  /\ \A f \in Party : [c EXCEPT !.owner = f, !.n = @ + 1] \in HoldingRec
         /\ \A l \in Trade \union {NoTrade} : [c EXCEPT !.lock = l, !.n = @ + 1] \in HoldingRec
         /\ \A f \in Party :
              [c EXCEPT !.owner = f, !.lock = NoTrade, !.n = @ + 1] \in HoldingRec
         /\ [c EXCEPT !.n = @ + 1] \in HoldingRec
<1>1. c.n + 1 \in Nat
  BY DEF HoldingRec
<1>2. \A f \in Party, m \in Nat : [c EXCEPT !.owner = f, !.n = m] \in HoldingRec
  BY DEF HoldingRec
<1>3. \A l \in Trade \union {NoTrade}, m \in Nat : [c EXCEPT !.lock = l, !.n = m] \in HoldingRec
  BY DEF HoldingRec
<1>4. \A f \in Party, m \in Nat : [c EXCEPT !.owner = f, !.lock = NoTrade, !.n = m] \in HoldingRec
  BY DEF HoldingRec
<1>5. \A m \in Nat : [c EXCEPT !.n = m] \in HoldingRec
  BY DEF HoldingRec
<1> QED
  BY <1>1, <1>2, <1>3, <1>4, <1>5

LEMMA PartiesKeepType == TypeInv /\ Parties => TypeInv'
<1> SUFFICES ASSUME TypeInv, Parties PROVE TypeInv'
  OBVIOUS
<1> USE DEF TypeInv, TypeOK
<1>1. ASSUME NEW t \in Trade, Propose(t) \/ Reject(t) \/ Attest(t)
      PROVE  TypeInv'
  BY <1>1 DEF Propose, Reject, Attest, Moves, TradeState
<1>2. ASSUME NEW t \in Trade, NEW h \in Hold, Accept(t, h) PROVE TypeInv'
  BY <1>2 DEF Accept, Moves, TradeState
<1>3. ASSUME NEW t \in Trade, NEW R \in SUBSET Hold, Cancel(t, R) PROVE TypeInv'
  <2>1. holding' \in [Hold -> HoldingRec]
    BY <1>3, Successor DEF Cancel, Released
  <2> QED
    BY <1>3, <2>1 DEF Cancel, TradeState
<1>4. ASSUME NEW h \in Hold, NEW f \in Party, HoldingTransfer(h, f) PROVE TypeInv'
  <2>1. holding' \in [Hold -> HoldingRec]
    <3>1. holding' = [holding EXCEPT ![h] = [holding[h] EXCEPT !.owner = f, !.n = @ + 1]]
      BY <1>4 DEF HoldingTransfer
    <3> QED
      BY <3>1, Successor
  <2> QED
    BY <1>4, <2>1 DEF HoldingTransfer
<1>5. ASSUME NEW h \in Hold, Redisclose(h) PROVE TypeInv'
  <2>1. holding' \in [Hold -> HoldingRec]
    <3>1. holding' = [holding EXCEPT ![h] = [holding[h] EXCEPT !.n = @ + 1]]
      BY <1>5 DEF Redisclose
    <3> QED
      BY <3>1, Successor
  <2> QED
    BY <1>5, <2>1 DEF Redisclose
<1>6. ASSUME NEW h \in Hold, Release(h) PROVE TypeInv'
  <2>1. holding' \in [Hold -> HoldingRec]
    BY <1>6, Successor DEF Release, Released
  <2> QED
    BY <1>6, <2>1 DEF Release
<1> QED
  BY <1>1, <1>2, <1>3, <1>4, <1>5, <1>6 DEF Parties

LEMMA AgentKeepsType == TypeInv /\ Agent => TypeInv'
<1> SUFFICES ASSUME TypeInv, Agent PROVE TypeInv'
  OBVIOUS
<1> USE LiveTrade DEF TypeInv, TypeOK, Watch
<1>1. ASSUME NEW w \in Watcher, NEW t \in Trade, Look(w, t) PROVE TypeInv'
  BY <1>1 DEF Look
<1>2. ASSUME NEW w \in Watcher, Evaluate(w) PROVE TypeInv'
  BY <1>2 DEF Evaluate
<1>3. ASSUME NEW w \in Watcher, WriteReco(w) PROVE TypeInv'
  BY <1>3 DEF WriteReco
<1>4. ASSUME NEW t \in Trade, ProcessRejection(t) PROVE TypeInv'
  BY <1>4 DEF ProcessRejection
<1>5. ASSUME NEW t \in Trade, NEW a \in Approval, Approve(t, a) PROVE TypeInv'
  BY <1>5 DEF Approve
<1> QED
  BY <1>1, <1>2, <1>3, <1>4, <1>5 DEF Agent

RunOK ==
  /\ run \in [Runner -> Run]
  /\ \A r \in Runner : run[r].step \notin Idle => run[r].trade \in Trade

\* A script that changes its own state to x.
LEMMA RunStepKeepsType ==
  ASSUME RunOK, NEW r \in Runner, NEW x \in Run, x.step \in Idle \/ x.trade \in Trade,
         run' = [run EXCEPT ![r] = x]
  PROVE  RunOK'
  BY DEF RunOK

LEMMA ScriptKeepsRun == ASSUME TypeInv, NEW r \in Runner, Script(r) PROVE RunOK'
<1>0. /\ RunOK /\ run[r] \in Run /\ holding \in [Hold -> HoldingRec]
      /\ run[r].cids \in [Kind -> SUBSET Cid]
  BY DEF RunOK, TypeInv, TypeOK, Run
<1>1. CASE Fails(r) \/ Ends(r, "done")
  <2>1. [step |-> "failed", trade |-> NoTrade, marks |-> {}, cids |-> NoCid] \in Run
    BY DEF Run, RunStep, NoCid
  <2>2. [step |-> "done", trade |-> NoTrade, marks |-> {}, cids |-> NoCid] \in Run
    BY DEF Run, RunStep, NoCid
  <2> QED
    BY <1>0, <1>1, <2>1, <2>2, RunStepKeepsType DEF Fails, Ends, Idle
<1>2. ASSUME NEW s \in RunStep, NEW t \in Trade, At(r, "idle"),
             run' = [run EXCEPT ![r].step = s, ![r].trade = t]
      PROVE  RunOK'
  <2>1. [run[r] EXCEPT !.step = s, !.trade = t] \in Run
    BY <1>0 DEF Run
  <2>2. run' = [run EXCEPT ![r] = [run[r] EXCEPT !.step = s, !.trade = t]]
    BY <1>2
  <2>3. [run[r] EXCEPT !.step = s, !.trade = t].trade = t
    BY <1>0 DEF Run
  <2> QED
    BY <1>0, <2>1, <2>2, <2>3, RunStepKeepsType
<1>3. ASSUME NEW s \in RunStep, run[r].trade \in Trade, run' = [run EXCEPT ![r].step = s]
      PROVE  RunOK'
  <2>1. [run[r] EXCEPT !.step = s] \in Run /\ [run[r] EXCEPT !.step = s].trade = run[r].trade
    BY <1>0 DEF Run
  <2> QED
    BY <1>0, <1>3, <2>1, RunStepKeepsType
<1>4. ASSUME NEW s \in RunStep, NEW m \in SUBSET Approval, run[r].trade \in Trade,
             \/ run' = [run EXCEPT ![r].step = s, ![r].marks = m]
             \/ run' = [run EXCEPT ![r].marks = m]
      PROVE  RunOK'
  <2>1. /\ [run[r] EXCEPT !.step = s, !.marks = m] \in Run
        /\ [run[r] EXCEPT !.step = s, !.marks = m].trade = run[r].trade
        /\ [run[r] EXCEPT !.marks = m] \in Run
        /\ [run[r] EXCEPT !.marks = m].trade = run[r].trade
    BY <1>0 DEF Run
  <2>2. \/ run' = [run EXCEPT ![r] = [run[r] EXCEPT !.step = s, !.marks = m]]
        \/ run' = [run EXCEPT ![r] = [run[r] EXCEPT !.marks = m]]
    BY <1>4
  <2> QED
    BY <1>0, <1>4, <2>1, <2>2, RunStepKeepsType
<1>5. ASSUME NEW s \in RunStep, NEW ids \in [Kind -> SUBSET Cid], run[r].trade \in Trade,
             run' = [run EXCEPT ![r].step = s, ![r].cids = ids]
      PROVE  RunOK'
  <2>1. /\ [run[r] EXCEPT !.step = s, !.cids = ids] \in Run
        /\ [run[r] EXCEPT !.step = s, !.cids = ids].trade = run[r].trade
    BY <1>0 DEF Run
  <2>2. run' = [run EXCEPT ![r] = [run[r] EXCEPT !.step = s, !.cids = ids]]
    BY <1>5
  <2> QED
    BY <1>0, <2>1, <1>5, <2>2, RunStepKeepsType
<1>6. \A s \in RunStep \ Idle : At(r, s) => run[r].trade \in Trade
  BY DEF At, TypeInv
<1>7. /\ {"idle", "gate", "assemble", "find", "lockAsset", "lockCash", "allocate"} \subseteq RunStep
      /\ {"settle", "mark", "done", "failed"} \subseteq RunStep
      /\ {"gate", "assemble", "find", "lockAsset", "lockCash", "allocate"} \intersect Idle = {}
      /\ {"settle", "mark"} \intersect Idle = {}
  BY DEF RunStep, Idle
<1>8. ASSUME NEW t \in Trade, CmdSettle(r, t) \/ Orchestrate(r, t) PROVE RunOK'
  BY <1>2, <1>7, <1>8, LiveTrade DEF CmdSettle, Orchestrate
<1>9. CASE Gate(r)
  BY <1>1, <1>4, <1>6, <1>7, <1>9 DEF Gate, Approvals
<1>10. CASE AssembleBatch(r)
  BY <1>1, <1>3, <1>6, <1>7, <1>10 DEF AssembleBatch, Goto
<1>11. CASE FindHoldings(r)
  <2>1. \A a, c \in Hold :
          [k \in Kind |-> IF k = "asset" THEN {<<a, holding[a].n>>}
                          ELSE {<<c, holding[c].n>>}] \in [Kind -> SUBSET Cid]
    BY <1>0 DEF Cid, HoldingRec
  <2> QED
    BY <1>1, <1>5, <1>6, <1>7, <1>11, <2>1 DEF FindHoldings, Candidates
<1>12. ASSUME NEW k \in Kind, NEW next \in RunStep, Lock(r, k, next), run[r].trade \in Trade
       PROVE  RunOK'
  <2>1. PICK c \in run[r].cids[k] :
          \/ run' = [run EXCEPT ![r].step = next, ![r].cids[k] = {<<c[1], c[2] + 1>>}]
          \/ Fails(r)
    BY <1>12 DEF Lock
  <2>2. [run[r].cids EXCEPT ![k] = {<<c[1], c[2] + 1>>}] \in [Kind -> SUBSET Cid]
    BY <1>0 DEF Cid
  <2>3. \/ run' = [run EXCEPT ![r].step = next,
                              ![r].cids = [run[r].cids EXCEPT ![k] = {<<c[1], c[2] + 1>>}]]
        \/ Fails(r)
    BY <2>1
  <2> QED
    BY <1>1, <1>5, <1>12, <2>2, <2>3
<1>13. CASE LockAsset(r) \/ LockCash(r)
  BY <1>6, <1>7, <1>12, <1>13 DEF LockAsset, LockCash, Kind
<1>14. CASE Allocate(r)
  BY <1>1, <1>3, <1>6, <1>7, <1>14 DEF Allocate, Goto
<1>15. CASE Settle(r)
  <2>1. NoCid \in [Kind -> SUBSET Cid]
    BY DEF NoCid
  <2> QED
    BY <1>1, <1>5, <1>6, <1>7, <1>15, <2>1 DEF Settle
<1>16. CASE MarkExecuted(r)
  <2>1. \A a : run[r].marks \ {a} \in SUBSET Approval
    BY <1>0 DEF Run
  <2> QED
    <3>1. CASE run[r].marks = {}
      BY <1>1, <1>16, <3>1 DEF MarkExecuted
    <3>2. CASE run[r].marks # {}
      <4>1. PICK a \in run[r].marks :
              Fails(r) \/ run' = [run EXCEPT ![r].marks = @ \ {a}]
        BY <1>16, <3>2 DEF MarkExecuted
      <4>2. run[r].trade \in Trade /\ "mark" \in RunStep
        BY <1>6, <1>7, <1>16 DEF MarkExecuted
      <4>3. CASE run' = [run EXCEPT ![r].marks = @ \ {a}]
        <5>1. run' = [run EXCEPT ![r] = [run[r] EXCEPT !.marks = run[r].marks \ {a}]]
          BY <4>3
        <5>2. /\ [run[r] EXCEPT !.marks = run[r].marks \ {a}] \in Run
              /\ [run[r] EXCEPT !.marks = run[r].marks \ {a}].trade = run[r].trade
          BY <1>0, <2>1 DEF Run
        <5> QED
          BY <1>0, <4>2, <5>1, <5>2, RunStepKeepsType
      <4> QED
        BY <1>1, <4>1, <4>3
    <3> QED
      BY <3>1, <3>2
<1>17. CASE Dies(r)
  BY <1>1, <1>17 DEF Dies
<1> QED
  BY <1>8, <1>9, <1>10, <1>11, <1>13, <1>14, <1>15, <1>16, <1>17 DEF Script

\* The ledger as a script leaves it.
LEMMA ScriptKeepsLedger ==
  ASSUME TypeInv, NEW r \in Runner, Script(r)
  PROVE  /\ trade' \in [Trade -> TradeState]
         /\ holding' \in [Hold -> HoldingRec]
         /\ approval' \in [Trade -> [Approval -> {"none", "active", "executed"}]]
         /\ UNCHANGED <<attested, reco, watch>>
<1> DEFINE Goal ==
      /\ trade' \in [Trade -> TradeState]
      /\ holding' \in [Hold -> HoldingRec]
      /\ approval' \in [Trade -> [Approval -> {"none", "active", "executed"}]]
      /\ UNCHANGED <<attested, reco, watch>>
<1> SUFFICES Goal
  OBVIOUS
<1>0. /\ run[r].cids \in [Kind -> SUBSET Cid] /\ holding \in [Hold -> HoldingRec]
      /\ run[r].trade \in Trade \union {NoTrade}
  BY DEF TypeInv, TypeOK, Run
<1> USE DEF TypeInv, TypeOK
<1>1. CASE UNCHANGED <<ledger, gate, watch>>
  BY <1>1
<1>2. CASE AssembleBatch(r)
  BY <1>2 DEF AssembleBatch, Moves, TradeState
<1>3. ASSUME NEW k \in Kind, NEW next \in RunStep, Lock(r, k, next) PROVE Goal
  <2>1. PICK c \in run[r].cids[k] :
          \/ holding' = [holding EXCEPT ![c[1]].lock = run[r].trade, ![c[1]].n = @ + 1]
          \/ UNCHANGED holding
    BY <1>3 DEF Lock
  <2>2. c[1] \in Hold
    BY <1>0 DEF Cid
  <2>3. \/ holding' = [holding EXCEPT ![c[1]] =
                         [holding[c[1]] EXCEPT !.lock = run[r].trade, !.n = @ + 1]]
        \/ UNCHANGED holding
    BY <2>1
  <2>4. holding' \in [Hold -> HoldingRec]
    <3>1. [holding[c[1]] EXCEPT !.lock = run[r].trade, !.n = @ + 1] \in HoldingRec
      BY <1>0, <2>2, Successor
    <3> QED
      BY <1>0, <2>2, <2>3, <3>1
  <2> QED
    BY <1>3, <2>4 DEF Lock
<1>4. CASE LockAsset(r) \/ LockCash(r)
  BY <1>3, <1>4 DEF LockAsset, LockCash, Kind, RunStep
<1>5. CASE Allocate(r)
  BY <1>0, <1>5 DEF Allocate, TradeState
<1>6. CASE Settle(r)
  <2>1. CASE Settleable(run[r].trade, run[r].cids)
    <3>1. run[r].trade \in Trade
      BY <1>6 DEF Settle, At, Idle
    <3>2. \A k : Receiver(run[r].trade, k) \in Party
      BY <3>1, TradeTerms DEF Receiver
    <3>3. ASSUME NEW h \in Hold PROVE Swapped(run[r].trade, run[r].cids)[h] \in HoldingRec
      BY <1>0, <3>2, Successor DEF Swapped
    <3>4. Swapped(run[r].trade, run[r].cids) \in [Hold -> HoldingRec]
      BY <3>3 DEF Swapped
    <3>5. "settled" \in TradeState
      BY DEF TradeState
    <3> QED
      BY <1>6, <2>1, <3>4, <3>5 DEF Settle
  <2> QED
    BY <1>6, <2>1 DEF Settle
<1>7. CASE MarkExecuted(r)
  <2>1. run[r].trade \in Trade /\ run[r].marks \subseteq Approval
    BY <1>7 DEF MarkExecuted, At, Idle, Run
  <2>2. approval' \in [Trade -> [Approval -> {"none", "active", "executed"}]]
    <3>1. \/ approval' = approval
          \/ \E a \in run[r].marks :
               approval' = [approval EXCEPT ![run[r].trade][a] = "executed"]
      BY <1>7 DEF MarkExecuted
    <3>2. ASSUME NEW t \in Trade, NEW a \in Approval,
                 approval' = [approval EXCEPT ![t][a] = "executed"]
          PROVE  approval' \in [Trade -> [Approval -> {"none", "active", "executed"}]]
      BY <3>2
    <3> QED
      BY <2>1, <3>1, <3>2
  <2> QED
    BY <1>7, <2>2 DEF MarkExecuted
<1> QED
  BY <1>1, <1>2, <1>4, <1>5, <1>6, <1>7
     DEF Script, CmdSettle, Orchestrate, Gate, FindHoldings, Dies

LEMMA TypeInductive == TypeInv /\ [Next]_vars => TypeInv'
<1>1. TypeInv /\ UNCHANGED vars => TypeInv'
  BY DEF TypeInv, TypeOK
<1>2. ASSUME TypeInv, NEW r \in Runner, Script(r) PROVE TypeInv'
  BY <1>2, ScriptKeepsRun, ScriptKeepsLedger DEF TypeInv, TypeOK, RunOK
<1> QED
  BY <1>1, <1>2, PartiesKeepType, AgentKeepsType DEF Next

\* For any trades, holdings and processes the variables keep their types; in
\* particular no script ever works on a trade that does not exist.
THEOREM TypeCorrect == Spec => []TypeOK
<1>1. TypeInv => TypeOK
  BY DEF TypeInv
<1> QED
  BY <1>1, InitType, TypeInductive, PTL DEF Spec

-----------------------------------------------------------------------------
(* Governance.  Whatever stands between an attestation and a settlement     *)
(* -- an open recommendation, an agent about to write one, an approval, a   *)
(* script past its gate -- was reached through the attestation, and an      *)
(* approval is never withdrawn.                                             *)

Approved(t) == \E a \in Approval : approval[t][a] # "none"
PastGate == {"assemble", "find", "lockAsset", "lockCash", "allocate", "settle"}

RecommendedOnAttestation ==
  /\ \A t \in Trade : reco[t] > 0 => t \in attested
  /\ \A w \in Watcher : watch[w].step = "write" => watch[w].trade \in attested
  /\ \A t \in Trade : Approved(t) => t \in attested

GatePassed ==
  \A r \in Runner :
    /\ run[r].step \in Idle \union {"gate"} => run[r].marks = {}
    /\ run[r].step \in PastGate => run[r].marks # {}
    /\ \A a \in run[r].marks : approval[run[r].trade][a] # "none"

GovernedInv == RecommendedOnAttestation /\ GatePassed /\ SettledOnlyAsGoverned

\* What a step of a script does to the script itself.
Progress(r) ==
  \/ run'[r].step \in {"failed", "done"} /\ run'[r].marks = {}
  \/ /\ run[r].step = "idle" /\ run'[r].step = "gate" /\ run'[r].marks = run[r].marks
  \/ /\ run[r].step = "gate" /\ run'[r].step = "assemble"
     /\ run'[r].marks = Approvals(run[r].trade) /\ run'[r].marks # {}
     /\ run'[r].trade = run[r].trade
  \/ /\ run[r].step \in PastGate /\ run'[r].step \in PastGate \union {"mark"}
     /\ run'[r].marks = run[r].marks /\ run'[r].trade = run[r].trade
  \/ /\ run[r].step = "mark" /\ run'[r].step = "mark"
     /\ run'[r].marks \subseteq run[r].marks /\ run'[r].trade = run[r].trade

LEMMA ScriptProgress ==
  ASSUME TypeInv, NEW r \in Runner, Script(r)
  PROVE  Progress(r) /\ \A q \in Runner \ {r} : run'[q] = run[q]
<1>0. run \in [Runner -> Run] /\ run[r] \in Run
  BY DEF TypeInv, TypeOK
<1>1. CASE Fails(r) \/ Ends(r, "done")
  BY <1>0, <1>1 DEF Fails, Ends, Progress
<1>2. ASSUME NEW t \in Trade, CmdSettle(r, t) \/ Orchestrate(r, t)
      PROVE  Progress(r) /\ \A q \in Runner \ {r} : run'[q] = run[q]
  BY <1>0, <1>2 DEF CmdSettle, Orchestrate, At, Progress, Run
<1>3. CASE Gate(r)
  BY <1>0, <1>1, <1>3 DEF Gate, At, Progress, Run
<1>4. CASE AssembleBatch(r)
  BY <1>0, <1>1, <1>4 DEF AssembleBatch, At, Goto, Progress, Run, PastGate
<1>5. CASE FindHoldings(r)
  BY <1>0, <1>1, <1>5 DEF FindHoldings, At, Progress, Run, PastGate
<1>6. CASE LockAsset(r)
  BY <1>0, <1>1, <1>6 DEF LockAsset, Lock, At, Progress, Run, PastGate
<1>7. CASE LockCash(r)
  BY <1>0, <1>1, <1>7 DEF LockCash, Lock, At, Progress, Run, PastGate
<1>8. CASE Allocate(r)
  BY <1>0, <1>1, <1>8 DEF Allocate, At, Goto, Progress, Run, PastGate
<1>9. CASE Settle(r)
  BY <1>0, <1>1, <1>9 DEF Settle, At, Progress, Run, PastGate
<1>10. CASE MarkExecuted(r)
  BY <1>0, <1>1, <1>10 DEF MarkExecuted, At, Progress, Run
<1> QED
  BY <1>1, <1>2, <1>3, <1>4, <1>5, <1>6, <1>7, <1>8, <1>9, <1>10 DEF Script, Dies

\* A script only ever marks an active approval of its trade as executed.
LEMMA ScriptMarks ==
  ASSUME TypeInv, NEW r \in Runner, Script(r)
  PROVE  \/ UNCHANGED approval
         \/ /\ run[r].step = "mark" /\ UNCHANGED trade
            /\ \E a \in Approval : /\ approval[run[r].trade][a] = "active"
                 /\ approval' = [approval EXCEPT ![run[r].trade][a] = "executed"]
<1>1. CASE MarkExecuted(r)
  BY <1>1 DEF MarkExecuted, At, TypeInv, TypeOK, Run
<1> QED
  BY <1>1 DEF Script, CmdSettle, Orchestrate, Gate, AssembleBatch, FindHoldings,
     LockAsset, LockCash, Lock, Allocate, Settle, Dies

LEMMA ScriptKeepsApprovals ==
  ASSUME TypeInv, NEW r \in Runner, Script(r), NEW t \in Trade, NEW a \in Approval
  PROVE  approval[t][a] # "none" <=> approval'[t][a] # "none"
<1>0. approval \in [Trade -> [Approval -> {"none", "active", "executed"}]]
  BY DEF TypeInv, TypeOK
<1>1. ASSUME NEW u \in Trade, NEW b \in Approval, approval[u][b] = "active",
             approval' = [approval EXCEPT ![u][b] = "executed"]
      PROVE  approval[t][a] # "none" <=> approval'[t][a] # "none"
  BY <1>0, <1>1
<1>2. run[r].step = "mark" => run[r].trade \in Trade
  BY DEF TypeInv, Idle
<1> QED
  BY <1>1, <1>2, ScriptMarks

\* An approval, once given, stays on the ledger.
LEMMA ApprovalsLast ==
  ASSUME TypeInv, Next
  PROVE  \A t \in Trade, a \in Approval : approval[t][a] # "none" => approval'[t][a] # "none"
<1>0. approval \in [Trade -> [Approval -> {"none", "active", "executed"}]]
  BY DEF TypeInv, TypeOK
<1>1. ASSUME Parties PROVE UNCHANGED approval
  BY <1>1 DEF Parties, Propose, Reject, Attest, Accept, Cancel, HoldingTransfer,
     Redisclose, Release
<1>2. CASE Agent
  BY <1>0, <1>2 DEF Agent, Look, Evaluate, WriteReco, ProcessRejection, Approve
<1> QED
  BY <1>1, <1>2, ScriptKeepsApprovals DEF Next

LEMMA RecommendationsInductive ==
  TypeInv /\ RecommendedOnAttestation /\ Next => RecommendedOnAttestation'
<1> SUFFICES ASSUME TypeInv, RecommendedOnAttestation, Next PROVE RecommendedOnAttestation'
  OBVIOUS
<1>0. /\ approval \in [Trade -> [Approval -> {"none", "active", "executed"}]]
      /\ reco \in [Trade -> 0 .. MaxReco] /\ watch \in [Watcher -> Watch]
      /\ attested \subseteq Trade /\ MaxReco \in Nat
  BY LiveTrade DEF TypeInv, TypeOK
<1>1. ASSUME Parties PROVE UNCHANGED <<reco, approval, watch>> /\ attested \subseteq attested'
  BY <1>1 DEF Parties, Propose, Reject, Attest, Accept, Cancel, HoldingTransfer,
     Redisclose, Release
<1>2. CASE Parties
  BY <1>1, <1>2 DEF RecommendedOnAttestation, Approved
<1>3. ASSUME NEW w \in Watcher, (\E t \in Trade : Look(w, t)) \/ Evaluate(w)
      PROVE  RecommendedOnAttestation'
  BY <1>0, <1>3 DEF Look, Evaluate, Ready, RecommendedOnAttestation, Approved, Watch
<1>4. ASSUME NEW w \in Watcher, WriteReco(w) PROVE RecommendedOnAttestation'
  BY <1>0, <1>4 DEF WriteReco, RecommendedOnAttestation, Approved, Watch
<1>5. ASSUME NEW t \in Trade, ProcessRejection(t) PROVE RecommendedOnAttestation'
  BY <1>0, <1>5 DEF ProcessRejection, RecommendedOnAttestation, Approved
<1>6. ASSUME NEW t \in Trade, NEW a \in Approval, Approve(t, a)
      PROVE  RecommendedOnAttestation'
  BY <1>0, <1>6 DEF Approve, RecommendedOnAttestation, Approved
<1>7. ASSUME NEW r \in Runner, Script(r) PROVE RecommendedOnAttestation'
  <2>1. UNCHANGED <<attested, reco, watch>>
    BY <1>7, ScriptKeepsLedger
  <2>2. \A t \in Trade : Approved(t)' => Approved(t)
    BY <1>7, ScriptKeepsApprovals DEF Approved
  <2> QED
    BY <2>1, <2>2 DEF RecommendedOnAttestation
<1> QED
  BY <1>2, <1>3, <1>4, <1>5, <1>6, <1>7 DEF Next, Agent

LEMMA GatePassedInductive == TypeInv /\ GatePassed /\ Next => GatePassed'
<1> SUFFICES ASSUME TypeInv, GatePassed, Next, NEW q \in Runner
             PROVE  /\ run'[q].step \in Idle \union {"gate"} => run'[q].marks = {}
                    /\ run'[q].step \in PastGate => run'[q].marks # {}
                    /\ \A a \in run'[q].marks : approval'[run'[q].trade][a] # "none"
  BY DEF GatePassed
<1>0. /\ run[q].marks \subseteq Approval
      /\ run[q].marks # {} => run[q].trade \in Trade
  BY DEF TypeInv, TypeOK, Run, RunStep, GatePassed, Idle
<1>1. CASE run'[q] = run[q]
  BY <1>0, <1>1, ApprovalsLast DEF GatePassed
<1>2. CASE Script(q)
  <2>1. Progress(q)
    BY <1>2, ScriptProgress
  <2>2. run[q].step = "gate" => run[q].trade \in Trade
    BY DEF TypeInv, Idle
  <2>3. CASE run'[q].marks = {} /\ run'[q].step \in Idle \union {"gate"}
    BY <2>3 DEF Idle, PastGate
  <2>4. CASE /\ run[q].step = "gate" /\ run'[q].step = "assemble"
             /\ run'[q].marks = Approvals(run[q].trade) /\ run'[q].marks # {}
             /\ run'[q].trade = run[q].trade
    BY <2>2, <2>4, ApprovalsLast DEF Approvals, Idle
  <2>5. CASE /\ run[q].step \in PastGate /\ run'[q].step \in PastGate \union {"mark"}
             /\ run'[q].marks = run[q].marks /\ run'[q].trade = run[q].trade
    BY <1>0, <2>5, ApprovalsLast DEF GatePassed, PastGate, Idle
  <2>6. CASE /\ run[q].step = "mark" /\ run'[q].step = "mark"
             /\ run'[q].marks \subseteq run[q].marks /\ run'[q].trade = run[q].trade
    BY <1>0, <2>6, ApprovalsLast DEF GatePassed, PastGate, Idle
  <2> QED
    BY <2>1, <2>3, <2>4, <2>5, <2>6 DEF Progress, GatePassed, Idle
<1>3. Parties \/ Agent => UNCHANGED run
  BY DEF Parties, Propose, Reject, Attest, Accept, Cancel, HoldingTransfer, Redisclose,
     Release, Agent, Look, Evaluate, WriteReco, ProcessRejection, Approve
<1> QED
  BY <1>1, <1>2, <1>3, ScriptProgress DEF Next

ExecutedInv ==
  /\ \A r \in Runner : run[r].step = "mark" => trade[run[r].trade] = "settled"
  /\ ExecutedMeansSettled

\* A trade becomes settled only by a script past its gate, and stays settled.
LEMMA HowTradesSettle ==
  ASSUME TypeInv, Next, NEW t \in Trade
  PROVE  /\ trade[t] = "settled" => trade'[t] = "settled"
         /\ trade[t] # "settled" /\ trade'[t] = "settled" =>
              \E r \in Runner : /\ Script(r) /\ run[r].step = "settle" /\ run[r].trade = t
                                /\ run'[r].step = "mark"
<1>0. trade \in [Trade -> TradeState] /\ run \in [Runner -> Run]
  BY DEF TypeInv, TypeOK
<1>1. CASE Parties
  BY <1>0, <1>1 DEF Parties, Propose, Reject, Attest, Accept, Cancel, HoldingTransfer,
     Redisclose, Release, Moves
<1>2. CASE Agent
  BY <1>2 DEF Agent, Look, Evaluate, WriteReco, ProcessRejection, Approve
<1>3. ASSUME NEW r \in Runner, Script(r)
      PROVE  /\ trade[t] = "settled" => trade'[t] = "settled"
             /\ trade[t] # "settled" /\ trade'[t] = "settled" =>
                  run[r].step = "settle" /\ run[r].trade = t /\ run'[r].step = "mark"
  <2>1. CASE AssembleBatch(r) \/ Allocate(r)
    BY <1>0, <2>1 DEF AssembleBatch, Allocate, Moves
  <2>2. CASE Settle(r)
    BY <1>0, <2>2 DEF Settle, Settleable, At, Run
  <2> QED
    BY <1>3, <2>1, <2>2 DEF Script, CmdSettle, Orchestrate, Gate, FindHoldings,
       LockAsset, LockCash, Lock, MarkExecuted, Dies
<1> QED
  BY <1>1, <1>2, <1>3 DEF Next

LEMMA GovernedInductive == TypeInv /\ GovernedInv /\ [Next]_vars => GovernedInv'
<1>1. ASSUME GovernedInv, UNCHANGED vars PROVE GovernedInv'
  BY <1>1 DEF GovernedInv, RecommendedOnAttestation, Approved, GatePassed, SettledOnlyAsGoverned
<1>2. ASSUME TypeInv, GovernedInv, Next PROVE GovernedInv'
  <2>1. RecommendedOnAttestation' /\ GatePassed'
    BY <1>2, RecommendationsInductive, GatePassedInductive DEF GovernedInv
  <2>2. ASSUME NEW t \in Trade, trade'[t] = "settled" PROVE Approved(t)'
    <3>1. Approved(t)
      <4>1. CASE trade[t] = "settled"
        BY <1>2, <4>1 DEF GovernedInv, SettledOnlyAsGoverned, Approved
      <4>2. CASE trade[t] # "settled"
        <5>1. PICK r \in Runner : run[r].step = "settle" /\ run[r].trade = t
          BY <1>2, <2>2, <4>2, HowTradesSettle
        <5>2. PICK a \in run[r].marks : approval[t][a] # "none"
          BY <1>2, <5>1 DEF GovernedInv, GatePassed, PastGate
        <5> QED
          BY <1>2, <5>2 DEF Approved, TypeInv, TypeOK, Run
      <4> QED
        BY <4>1, <4>2
    <3> QED
      BY <1>2, <3>1, ApprovalsLast DEF Approved
  <2>3. \A t \in Trade : Approved(t)' => t \in attested'
    BY <2>1 DEF RecommendedOnAttestation
  <2>4. SettledOnlyAsGoverned'
    BY <2>2, <2>3 DEF SettledOnlyAsGoverned, Approved
  <2> QED
    BY <2>1, <2>4 DEF GovernedInv
<1> QED
  BY <1>1, <1>2

LEMMA InitGoverned == Init => GovernedInv /\ ExecutedInv
<1>1. Init => SettledOnlyAsGoverned /\ ExecutedMeansSettled /\ RecommendedOnAttestation
  BY LiveTrade DEF Init, SettledOnlyAsGoverned, ExecutedMeansSettled,
     RecommendedOnAttestation, Approved
<1>2. Init => GatePassed /\ \A r \in Runner : run[r].step # "mark"
  BY DEF Init, GatePassed, Idle, PastGate
<1> QED
  BY <1>1, <1>2 DEF GovernedInv, ExecutedInv

\* For any number of agents, approvals and scripts: what settled was attested,
\* recommended on that ground and approved, whatever trade the approver named to
\* the command that started the script.
THEOREM Governed == Spec => []SettledOnlyAsGoverned
<1>1. GovernedInv => SettledOnlyAsGoverned
  BY DEF GovernedInv
<1> QED
  BY <1>1, InitType, TypeInductive, InitGoverned, GovernedInductive, PTL DEF Spec

LEMMA OnlySettlingMarks ==
  ASSUME TypeInv, NEW r \in Runner, Script(r), run'[r].step = "mark", run[r].step # "mark"
  PROVE  trade'[run'[r].trade] = "settled"
<1>0. run \in [Runner -> Run] /\ trade \in [Trade -> TradeState]
  BY DEF TypeInv, TypeOK
<1>1. CASE Settle(r)
  <2>1. run[r].trade \in Trade
    BY <1>1 DEF Settle, At, TypeInv, Idle
  <2> QED
    BY <1>0, <1>1, <2>1 DEF Settle, Fails, Ends, Run
<1>2. ~ (Fails(r) \/ Ends(r, "done"))
  BY <1>0 DEF Fails, Ends
<1>3. \A s : Goto(r, s) => run'[r].step = s
  BY <1>0 DEF Goto, Run
<1>4. ASSUME NEW t \in Trade PROVE ~ (CmdSettle(r, t) \/ Orchestrate(r, t))
  BY <1>0 DEF CmdSettle, Orchestrate, Run
<1>5. ~ Gate(r) /\ ~ FindHoldings(r)
  BY <1>0, <1>2 DEF Gate, FindHoldings, Run
<1>6. ~ LockAsset(r) /\ ~ LockCash(r)
  BY <1>0, <1>2 DEF LockAsset, LockCash, Lock, Run
<1>7. ~ AssembleBatch(r) /\ ~ Allocate(r)
  BY <1>2, <1>3 DEF AssembleBatch, Allocate
<1> QED
  BY <1>1, <1>2, <1>4, <1>5, <1>6, <1>7 DEF Script, MarkExecuted, At, Dies

LEMMA ExecutedInductive == TypeInv /\ ExecutedInv /\ [Next]_vars => ExecutedInv'
<1>1. ASSUME ExecutedInv, UNCHANGED vars PROVE ExecutedInv'
  BY <1>1 DEF ExecutedInv, ExecutedMeansSettled
<1>2. ASSUME TypeInv, ExecutedInv, Next PROVE ExecutedInv'
  <2>0. /\ approval \in [Trade -> [Approval -> {"none", "active", "executed"}]]
        /\ \A r \in Runner : run[r].step = "mark" => run[r].trade \in Trade
    BY <1>2 DEF TypeInv, TypeOK, Idle
  <2>1. \A t \in Trade : trade[t] = "settled" => trade'[t] = "settled"
    BY <1>2, HowTradesSettle
  <2>2. ASSUME Parties \/ Agent PROVE UNCHANGED run
    BY <2>2 DEF Parties, Propose, Reject, Attest, Accept, Cancel, HoldingTransfer, Redisclose,
       Release, Agent, Look, Evaluate, WriteReco, ProcessRejection, Approve
  <2>3. ASSUME Parties \/ Agent, NEW t \in Trade, NEW a \in Approval,
               approval'[t][a] = "executed"
        PROVE  approval[t][a] = "executed"
    <3>1. CASE UNCHANGED approval
      BY <2>3, <3>1
    <3>2. ASSUME NEW u \in Trade, NEW b \in Approval, Approve(u, b)
          PROVE  approval[t][a] = "executed"
      BY <2>0, <2>3, <3>2 DEF Approve
    <3> QED
      BY <2>3, <3>1, <3>2 DEF Parties, Propose, Reject, Attest, Accept, Cancel, HoldingTransfer,
         Redisclose, Release, Agent, Look, Evaluate, WriteReco, ProcessRejection
  <2>4. CASE Parties \/ Agent
    BY <1>2, <2>0, <2>1, <2>2, <2>3, <2>4 DEF ExecutedInv, ExecutedMeansSettled
  <2>5. ASSUME NEW r \in Runner, Script(r) PROVE ExecutedInv'
    <3>1. ASSUME NEW q \in Runner, run'[q].step = "mark" PROVE trade'[run'[q].trade] = "settled"
      <4>1. CASE run'[q] = run[q]
        BY <1>2, <2>0, <2>1, <3>1, <4>1 DEF ExecutedInv
      <4>2. CASE Script(q) /\ run[q].step = "mark"
        <5>1. run'[q].trade = run[q].trade
          BY <1>2, <3>1, <4>2, ScriptProgress DEF Progress, PastGate
        <5> QED
          BY <1>2, <2>0, <2>1, <4>2, <5>1 DEF ExecutedInv
      <4>3. CASE Script(q) /\ run[q].step # "mark"
        BY <1>2, <3>1, <4>3, OnlySettlingMarks
      <4> QED
        BY <1>2, <2>5, <4>1, <4>2, <4>3, ScriptProgress
    <3>2. ExecutedMeansSettled'
      <4>1. ASSUME NEW t \in Trade, NEW a \in Approval, approval'[t][a] = "executed"
            PROVE  approval[t][a] = "executed" \/ trade[t] = "settled"
        <5>1. ASSUME NEW u \in Trade, NEW b \in Approval, trade[u] = "settled",
                     approval' = [approval EXCEPT ![u][b] = "executed"]
              PROVE  approval[t][a] = "executed" \/ trade[t] = "settled"
          BY <2>0, <4>1, <5>1
        <5>2. run[r].step = "mark" => trade[run[r].trade] = "settled"
          BY <1>2 DEF ExecutedInv
        <5>3. UNCHANGED approval => approval[t][a] = "executed"
          BY <4>1
        <5> QED
          BY <1>2, <2>0, <2>5, <5>1, <5>2, <5>3, ScriptMarks
      <4> QED
        BY <1>2, <2>1, <4>1 DEF ExecutedInv, ExecutedMeansSettled
    <3> QED
      BY <3>1, <3>2 DEF ExecutedInv
  <2> QED
    BY <1>2, <2>4, <2>5 DEF Next
<1> QED
  BY <1>1, <1>2

\* For any number of scripts acting on one trade's approvals: one that is marked
\* as executed belongs to a trade that settled.
THEOREM Executed == Spec => []ExecutedMeansSettled
<1>1. ExecutedInv => ExecutedMeansSettled
  BY DEF ExecutedInv
<1> QED
  BY <1>1, InitType, TypeInductive, InitGoverned, ExecutedInductive, PTL DEF Spec

-----------------------------------------------------------------------------
(* Funding.  What a script knows of a contract it found or locked.         *)

WithContracts == {"lockAsset", "lockCash", "allocate", "settle"}
LockedBy(k) == IF k = "asset" THEN {"lockCash", "allocate", "settle"} ELSE {"allocate", "settle"}

\* What the contract c, kept for leg k at step s of a script for trade t, says
\* of its holding, which is x now: x is no older, and if c is still the active
\* contract, then nothing happened to it since the script locked or checked it.
Sound(s, t, k, c, x) ==
  /\ c[2] <= x.n
  /\ s \in LockedBy(k) /\ x.n = c[2] => x.lock = t
  /\ s = "settle" /\ x.n = c[2] =>
       x.kind = k /\ x.owner = Sender(t, k) /\ x.amount = Quantity(t, k)

Knows(r) ==
  /\ run[r].step \in WithContracts =>
       \A k \in Kind : \E c \in run[r].cids[k] : run[r].cids[k] = {c}
  /\ \A k \in Kind : \A c \in run[r].cids[k] :
       Sound(run[r].step, run[r].trade, k, c, holding[c[1]])

FundedInv == \A r \in Runner : Knows(r)

LEMMA SoundLasts ==
  ASSUME NEW s, NEW t, NEW k, NEW c \in Cid, NEW x \in HoldingRec, NEW y \in HoldingRec,
         Sound(s, t, k, c, x), y = x \/ y.n > x.n
  PROVE  Sound(s, t, k, c, y)
<1>1. x.n \in Nat /\ y.n \in Nat /\ c[2] \in Nat
  BY DEF HoldingRec, Cid
<1>2. CASE y.n > x.n
  BY <1>1, <1>2 DEF Sound
<1> QED
  BY <1>2

\* How a script changes holdings: it locks one, or swaps the two it settles.
LEMMA ScriptHoldings ==
  ASSUME TypeInv, NEW r \in Runner, Script(r)
  PROVE  \/ UNCHANGED holding
         \/ \E k \in Kind : \E c \in run[r].cids[k] :
              /\ Active(c) /\ holding[c[1]].lock = NoTrade
              /\ holding' = [holding EXCEPT ![c[1]].lock = run[r].trade, ![c[1]].n = @ + 1]
         \/ /\ Settle(r) /\ Settleable(run[r].trade, run[r].cids)
            /\ holding' = Swapped(run[r].trade, run[r].cids)
<1>1. CASE LockAsset(r) \/ LockCash(r)
  BY <1>1 DEF LockAsset, LockCash, Lock, Kind
<1>2. CASE Settle(r)
  BY <1>2 DEF Settle
<1> QED
  BY <1>1, <1>2 DEF Script, CmdSettle, Orchestrate, Gate, AssembleBatch, FindHoldings,
     Allocate, MarkExecuted, Dies

\* Every change of a holding is a new contract.
LEMMA HoldingsGrow ==
  ASSUME TypeInv, Next, NEW h \in Hold
  PROVE  holding'[h] = holding[h] \/ holding'[h].n > holding[h].n
<1>0. holding \in [Hold -> HoldingRec] /\ holding[h].n \in Nat
  BY DEF TypeInv, TypeOK, HoldingRec
<1>s. ASSUME NEW y, NEW f,
             \/ y = [holding[h] EXCEPT !.lock = f, !.n = @ + 1]
             \/ y = [holding[h] EXCEPT !.owner = f, !.n = @ + 1]
             \/ y = [holding[h] EXCEPT !.owner = f, !.lock = NoTrade, !.n = @ + 1]
             \/ y = [holding[h] EXCEPT !.n = @ + 1]
      PROVE  y.n > holding[h].n
  <2>1. holding[h] \in HoldingRec
    BY <1>0
  <2>2. CASE y = [holding[h] EXCEPT !.lock = f, !.n = @ + 1]
    BY <2>1, <2>2 DEF HoldingRec
  <2>3. CASE y = [holding[h] EXCEPT !.owner = f, !.n = @ + 1]
    BY <2>1, <2>3 DEF HoldingRec
  <2>4. CASE y = [holding[h] EXCEPT !.owner = f, !.lock = NoTrade, !.n = @ + 1]
    BY <2>1, <2>4 DEF HoldingRec
  <2>5. CASE y = [holding[h] EXCEPT !.n = @ + 1]
    BY <2>1, <2>5 DEF HoldingRec
  <2> QED
    BY <1>s, <2>2, <2>3, <2>4, <2>5
<1>1. CASE Parties
  <2>1. CASE UNCHANGED holding
    BY <2>1
  <2>2. ASSUME NEW R \in SUBSET Hold, Released(R)
        PROVE  holding'[h] = holding[h] \/ holding'[h].n > holding[h].n
    <3>1. holding'[h] = holding[h]
            \/ holding'[h] = [holding[h] EXCEPT !.lock = NoTrade, !.n = @ + 1]
      BY <2>2 DEF Released
    <3> QED
      BY <1>0, <1>s, <3>1
  <2>3. ASSUME NEW g \in Hold, NEW f \in Party, HoldingTransfer(g, f)
        PROVE  holding'[h] = holding[h] \/ holding'[h].n > holding[h].n
    BY <1>0, <2>3 DEF HoldingTransfer, HoldingRec
  <2>4. ASSUME NEW g \in Hold, Redisclose(g)
        PROVE  holding'[h] = holding[h] \/ holding'[h].n > holding[h].n
    <3>1. holding'[h] = holding[h] \/ holding'[h] = [holding[h] EXCEPT !.n = @ + 1]
      BY <1>0, <2>4 DEF Redisclose
    <3> QED
      BY <1>0, <1>s, <3>1
  <2>5. \A g \in Hold : Release(g) => Released({g}) /\ {g} \in SUBSET Hold
    BY DEF Release
  <2>6. \A t \in Trade, R \in SUBSET Hold : Cancel(t, R) => Released(R)
    BY DEF Cancel
  <2> QED
    BY <1>1, <2>1, <2>2, <2>3, <2>4, <2>5, <2>6 DEF Parties, Propose, Reject, Attest, Accept
<1>2. CASE Agent
  BY <1>2 DEF Agent, Look, Evaluate, WriteReco, ProcessRejection, Approve
<1>3. ASSUME NEW r \in Runner, Script(r)
      PROVE  holding'[h] = holding[h] \/ holding'[h].n > holding[h].n
  <2>1. ASSUME NEW g \in Hold, NEW t,
               holding' = [holding EXCEPT ![g].lock = t, ![g].n = @ + 1]
        PROVE  holding'[h] = holding[h] \/ holding'[h].n > holding[h].n
    BY <1>0, <2>1 DEF HoldingRec
  <2>2. holding' = Swapped(run[r].trade, run[r].cids) =>
          holding'[h] = holding[h] \/ holding'[h].n > holding[h].n
    <3>1. \/ Swapped(run[r].trade, run[r].cids)[h] = holding[h]
          \/ \E f : Swapped(run[r].trade, run[r].cids)[h] =
               [holding[h] EXCEPT !.owner = f, !.lock = NoTrade, !.n = @ + 1]
      BY DEF Swapped
    <3> QED
      BY <1>0, <1>s, <3>1
  <2>3. \A k \in Kind : \A c \in run[r].cids[k] : c[1] \in Hold
    BY DEF TypeInv, TypeOK, Run, Cid
  <2> QED
    BY <1>3, <2>1, <2>2, <2>3, ScriptHoldings
<1> QED
  BY <1>1, <1>2, <1>3 DEF Next

LEMMA InitFunded == Init => FundedInv
<1>1. ASSUME Init, NEW r \in Runner PROVE Knows(r)
  BY <1>1 DEF Init, Knows, NoCid, WithContracts
<1> QED
  BY <1>1 DEF FundedInv

\* A script that keeps its contracts while the holdings move on.
LEMMA KnowsLasts ==
  ASSUME TypeInv, Next, NEW r \in Runner, Knows(r),
         run'[r].cids = run[r].cids,
         \/ run'[r].step = run[r].step /\ run'[r].trade = run[r].trade
         \/ run'[r].step \notin WithContracts
  PROVE  Knows(r)'
<1>0. holding \in [Hold -> HoldingRec] /\ holding' \in [Hold -> HoldingRec]
  BY TypeInductive DEF TypeInv, TypeOK
<1>1. ASSUME NEW k \in Kind, NEW c \in run[r].cids[k]
      PROVE  Sound(run'[r].step, run'[r].trade, k, c, holding'[c[1]])
  <2>1. c \in Cid /\ c[1] \in Hold
    BY DEF TypeInv, TypeOK, Run, Cid
  <2>2. Sound(run[r].step, run[r].trade, k, c, holding[c[1]])
    BY DEF Knows
  <2>3. Sound(run[r].step, run[r].trade, k, c, holding'[c[1]])
    BY <1>0, <2>1, <2>2, SoundLasts, HoldingsGrow
  <2> QED
    BY <2>3 DEF Sound, LockedBy, WithContracts
<1> QED
  BY <1>1 DEF Knows

LEMMA KnowsInductive ==
  ASSUME TypeInv, Next, NEW r \in Runner, Knows(r)
  PROVE  Knows(r)'
<1>0. /\ holding \in [Hold -> HoldingRec] /\ holding' \in [Hold -> HoldingRec]
      /\ run \in [Runner -> Run] /\ run[r].cids \in [Kind -> SUBSET Cid]
  BY TypeInductive DEF TypeInv, TypeOK, Run
<1>1. CASE run'[r] = run[r]
  BY <1>1, KnowsLasts
<1>2. CASE Script(r)
  <2>1. CASE Fails(r) \/ Ends(r, "done")
    BY <1>0, <2>1 DEF Fails, Ends, Knows, NoCid, WithContracts
  <2>2. ASSUME NEW t \in Trade, CmdSettle(r, t) \/ Orchestrate(r, t) PROVE Knows(r)'
    BY <1>0, <2>2, KnowsLasts DEF CmdSettle, Orchestrate, Run, WithContracts
  <2>3. CASE Gate(r)
    BY <1>0, <2>1, <2>3, KnowsLasts DEF Gate, Run, WithContracts
  <2>4. CASE AssembleBatch(r)
    BY <1>0, <2>1, <2>4, KnowsLasts DEF AssembleBatch, Goto, Run, WithContracts
  <2>5. ASSUME NEW a \in Hold, NEW c \in Hold, UNCHANGED holding,
               run' = [run EXCEPT ![r].step = "lockAsset",
                 ![r].cids = [k \in Kind |-> IF k = "asset" THEN {<<a, holding[a].n>>}
                                             ELSE {<<c, holding[c].n>>}]]
        PROVE  Knows(r)'
    <3>1. /\ run'[r].step = "lockAsset"
          /\ run'[r].cids = [k \in Kind |-> IF k = "asset" THEN {<<a, holding[a].n>>}
                                             ELSE {<<c, holding[c].n>>}]
      BY <1>0, <2>5 DEF Run
    <3>2. ASSUME NEW k \in Kind, NEW d \in run'[r].cids[k] PROVE d[2] <= holding[d[1]].n
      BY <1>0, <3>1, <3>2 DEF HoldingRec
    <3>3. ASSUME NEW k \in Kind PROVE \E d \in run'[r].cids[k] : run'[r].cids[k] = {d}
      BY <3>1
    <3>4. ASSUME NEW k \in Kind, NEW d \in run'[r].cids[k]
          PROVE  Sound("lockAsset", run'[r].trade, k, d, holding'[d[1]])
      BY <2>5, <3>2 DEF Sound, LockedBy
    <3> QED
      BY <3>1, <3>3, <3>4 DEF Knows
  <2>6. CASE FindHoldings(r)
    BY <2>1, <2>5, <2>6 DEF FindHoldings, Candidates
  <2>7. ASSUME NEW k \in Kind, NEW next, NEW c \in run[r].cids[k], Active(c),
               run[r].step \in WithContracts,
               \A j \in Kind \ {k} :
                 next \in LockedBy(j) => run[r].step \in LockedBy(j),
               next # "settle",
               run' = [run EXCEPT ![r].step = next, ![r].cids[k] = {<<c[1], c[2] + 1>>}],
               holding' = [holding EXCEPT ![c[1]].lock = run[r].trade, ![c[1]].n = @ + 1]
        PROVE  Knows(r)'
    <3>1. /\ run'[r].step = next /\ run'[r].trade = run[r].trade
          /\ run'[r].cids = [run[r].cids EXCEPT ![k] = {<<c[1], c[2] + 1>>}]
      BY <1>0, <2>7 DEF Run
    <3>2. c[1] \in Hold /\ c[2] \in Nat /\ holding[c[1]] \in HoldingRec
      BY <1>0 DEF Cid
    <3>3. holding'[c[1]].n = c[2] + 1 /\ holding'[c[1]].lock = run[r].trade
      BY <1>0, <2>7, <3>2 DEF Active, HoldingRec
    <3>4. ASSUME NEW j \in Kind, NEW d \in run'[r].cids[j]
          PROVE  Sound(next, run[r].trade, j, d, holding'[d[1]])
      <4>1. CASE j = k
        BY <1>0, <2>7, <3>1, <3>2, <3>3, <3>4, <4>1 DEF Sound
      <4>2. CASE j # k
        <5>1. d \in run[r].cids[j] /\ d \in Cid /\ d[1] \in Hold
          BY <1>0, <3>1, <3>4, <4>2 DEF Cid
        <5>2. Sound(run[r].step, run[r].trade, j, d, holding[d[1]])
          BY <5>1 DEF Knows
        <5>3. Sound(run[r].step, run[r].trade, j, d, holding'[d[1]])
          BY <1>0, <5>1, <5>2, SoundLasts, HoldingsGrow
        <5> QED
          BY <2>7, <4>2, <5>3 DEF Sound
      <4> QED
        BY <4>1, <4>2
    <3>5. ASSUME NEW j \in Kind PROVE \E d \in run'[r].cids[j] : run'[r].cids[j] = {d}
      <4>1. \E d \in run[r].cids[j] : run[r].cids[j] = {d}
        BY <2>7 DEF Knows
      <4>2. run'[r].cids[j] = IF j = k THEN {<<c[1], c[2] + 1>>} ELSE run[r].cids[j]
        BY <1>0, <3>1
      <4> QED
        BY <4>1, <4>2
    <3> QED
      BY <3>1, <3>4, <3>5 DEF Knows
  <2>8. CASE LockAsset(r)
    <3>1. PICK c \in run[r].cids["asset"] :
            \/ /\ Active(c)
               /\ holding' = [holding EXCEPT ![c[1]].lock = run[r].trade, ![c[1]].n = @ + 1]
               /\ run' = [run EXCEPT ![r].step = "lockCash",
                                     ![r].cids["asset"] = {<<c[1], c[2] + 1>>}]
            \/ Fails(r)
      BY <2>8 DEF LockAsset, Lock
    <3>2. "asset" \in Kind /\ \A j \in Kind \ {"asset"} : "lockCash" \notin LockedBy(j)
      BY DEF Kind, LockedBy
    <3>3. run[r].step \in WithContracts
      BY <2>8 DEF LockAsset, At, WithContracts
    <3> QED
      BY <2>1, <2>7, <3>1, <3>2, <3>3
  <2>9. CASE LockCash(r)
    <3>1. PICK c \in run[r].cids["cash"] :
            \/ /\ Active(c)
               /\ holding' = [holding EXCEPT ![c[1]].lock = run[r].trade, ![c[1]].n = @ + 1]
               /\ run' = [run EXCEPT ![r].step = "allocate",
                                     ![r].cids["cash"] = {<<c[1], c[2] + 1>>}]
            \/ Fails(r)
      BY <2>9 DEF LockCash, Lock
    <3>2. run[r].step = "lockCash" /\ run[r].step \in WithContracts
      BY <2>9 DEF LockCash, At, WithContracts
    <3>3. "cash" \in Kind /\ \A j \in Kind \ {"cash"} : run[r].step \in LockedBy(j)
      BY <3>2 DEF Kind, LockedBy
    <3> QED
      BY <2>1, <2>7, <3>1, <3>2, <3>3
  <2>10. ASSUME UNCHANGED holding, run[r].step = "allocate", Goto(r, "settle"),
                \A k \in Kind : \A c \in run[r].cids[k] : Matches(run[r].trade, k, c)
         PROVE  Knows(r)'
    <3>1. /\ run'[r].step = "settle" /\ run'[r].trade = run[r].trade
          /\ run'[r].cids = run[r].cids
      BY <1>0, <2>10 DEF Goto, Run
    <3>2. ASSUME NEW k \in Kind, NEW c \in run[r].cids[k]
          PROVE  Sound("settle", run[r].trade, k, c, holding[c[1]])
      <4>1. Sound("allocate", run[r].trade, k, c, holding[c[1]])
        BY <2>10 DEF Knows
      <4> QED
        BY <2>10, <4>1 DEF Sound, Matches, LockedBy
    <3> QED
      BY <2>10, <3>1, <3>2 DEF Knows, WithContracts
  <2>11. CASE Allocate(r)
    BY <2>1, <2>10, <2>11 DEF Allocate, At
  <2>12. CASE Settle(r)
    <3>1. CASE run' = [run EXCEPT ![r].step = "mark", ![r].cids = NoCid]
      <4>1. run'[r].step = "mark" /\ run'[r].cids = NoCid
        BY <1>0, <3>1 DEF Run
      <4> QED
        BY <4>1 DEF Knows, NoCid, WithContracts
    <3> QED
      BY <2>1, <2>12, <3>1 DEF Settle
  <2>13. CASE MarkExecuted(r)
    <3>1. ASSUME NEW a, run' = [run EXCEPT ![r].marks = @ \ {a}] PROVE Knows(r)'
      <4>1. /\ run'[r].step = run[r].step /\ run'[r].trade = run[r].trade
            /\ run'[r].cids = run[r].cids
        BY <1>0, <3>1 DEF Run
      <4> QED
        BY <4>1, KnowsLasts
    <3> QED
      BY <2>1, <2>13, <3>1 DEF MarkExecuted
  <2> QED
    BY <1>2, <2>1, <2>2, <2>3, <2>4, <2>6, <2>8, <2>9, <2>11, <2>12, <2>13 DEF Script, Dies
<1>3. Parties \/ Agent => UNCHANGED run
  BY DEF Parties, Propose, Reject, Attest, Accept, Cancel, HoldingTransfer, Redisclose,
     Release, Agent, Look, Evaluate, WriteReco, ProcessRejection, Approve
<1> QED
  BY <1>1, <1>2, <1>3, ScriptProgress DEF Next

LEMMA FundedInductive == TypeInv /\ FundedInv /\ [Next]_vars => FundedInv'
<1>1. ASSUME FundedInv, UNCHANGED vars PROVE FundedInv'
  BY <1>1 DEF FundedInv, Knows
<1> QED
  BY <1>1, KnowsInductive DEF FundedInv

-----------------------------------------------------------------------------
(* Delivery versus payment.                                                *)

LEMMA SettlingDelivers ==
  ASSUME TypeInv, FundedInv, NEW r \in Runner, Settle(r),
         Settleable(run[r].trade, run[r].cids),
         NEW t, t = run[r].trade
  PROVE  \E a, c \in Hold :
           /\ Delivered(t, "asset", a) /\ Delivered(t, "cash", c)
           /\ \A h \in Hold \ {a, c} : holding'[h] = holding[h]
<1>0. /\ run[r].cids \in [Kind -> SUBSET Cid] /\ holding \in [Hold -> HoldingRec]
      /\ run[r].step = "settle" /\ "asset" \in Kind /\ "cash" \in Kind
      /\ holding' = Swapped(t, run[r].cids)
  BY DEF TypeInv, TypeOK, Run, Kind, Settle, At
<1>1. ASSUME NEW k \in Kind
      PROVE  \E c \in Cid : /\ run[r].cids[k] = {c} /\ holding[c[1]].kind = k
                            /\ holding[c[1]].owner = Sender(t, k)
                            /\ holding[c[1]].amount = Quantity(t, k)
  <2>1. PICK c \in run[r].cids[k] : run[r].cids[k] = {c}
    BY <1>0 DEF FundedInv, Knows, WithContracts
  <2>2. Sound("settle", t, k, c, holding[c[1]]) /\ Active(c)
    BY <1>0 DEF FundedInv, Knows, Settleable
  <2> QED
    BY <1>0, <2>1, <2>2 DEF Sound, Active
<1>2. PICK a \in Cid : /\ run[r].cids["asset"] = {a} /\ holding[a[1]].kind = "asset"
                       /\ holding[a[1]].owner = Sender(t, "asset")
                       /\ holding[a[1]].amount = Quantity(t, "asset")
  BY <1>0, <1>1
<1>3. PICK c \in Cid : /\ run[r].cids["cash"] = {c} /\ holding[c[1]].kind = "cash"
                       /\ holding[c[1]].owner = Sender(t, "cash")
                       /\ holding[c[1]].amount = Quantity(t, "cash")
  BY <1>0, <1>1
<1>4. a[1] \in Hold /\ c[1] \in Hold /\ a[1] # c[1]
  BY <1>2, <1>3 DEF Cid
<1>5. ASSUME NEW h \in Hold, NEW k \in Kind
      PROVE  (\E d \in run[r].cids[k] : d[1] = h)
               <=> (k = "asset" /\ h = a[1]) \/ (k = "cash" /\ h = c[1])
  BY <1>2, <1>3 DEF Kind
<1>6. ASSUME NEW h \in Hold, NEW k \in Kind, \E d \in run[r].cids[k] : d[1] = h
      PROVE  holding'[h].owner = Receiver(t, k)
  <2>1. k = CHOOSE j \in Kind : \E d \in run[r].cids[j] : d[1] = h
    <3>1. \A j \in Kind : (\E d \in run[r].cids[j] : d[1] = h) => j = k
      BY <1>4, <1>5, <1>6
    <3> QED
      BY <1>6, <3>1
  <2>2. holding'[h] = [holding[h] EXCEPT !.owner = Receiver(t, k), !.lock = NoTrade, !.n = @ + 1]
    BY <1>0, <1>6, <2>1 DEF Swapped
  <2>3. holding[h] \in HoldingRec
    BY <1>0
  <2> QED
    BY <2>2, <2>3 DEF HoldingRec
<1>7. \A h \in Hold \ {a[1], c[1]} : holding'[h] = holding[h]
  BY <1>0, <1>5 DEF Swapped
<1>8. Delivered(t, "asset", a[1]) /\ Delivered(t, "cash", c[1])
  BY <1>0, <1>2, <1>3, <1>4, <1>5, <1>6 DEF Delivered
<1> QED
  BY <1>4, <1>7, <1>8

\* What a settling script moves it locked itself: the contract is still the one
\* that it kept.
LEMMA SettlingMovesOwnLocks ==
  ASSUME TypeInv, FundedInv, NEW r \in Runner, Settle(r),
         Settleable(run[r].trade, run[r].cids),
         NEW h \in Hold, holding'[h].owner # holding[h].owner
  PROVE  holding[h].lock = run[r].trade
<1>1. run[r].step = "settle" /\ holding' = Swapped(run[r].trade, run[r].cids)
  BY DEF Settle, At
<1>2. PICK k \in Kind : \E c \in run[r].cids[k] : c[1] = h
  BY <1>1 DEF Swapped
<1>3. PICK c \in run[r].cids[k] : c[1] = h
  BY <1>2
<1>4. Sound("settle", run[r].trade, k, c, holding[h]) /\ holding[h].n = c[2]
  BY <1>1, <1>3 DEF FundedInv, Knows, Settleable, Active
<1> QED
  BY <1>4 DEF Sound, LockedBy

LEMMA SettlesByDelivery ==
  ASSUME TypeInv, FundedInv, Next, NEW t \in Trade,
         trade[t] # "settled", trade'[t] = "settled"
  PROVE  /\ \E a, c \in Hold :
              /\ Delivered(t, "asset", a) /\ Delivered(t, "cash", c)
              /\ \A h \in Hold \ {a, c} : holding'[h] = holding[h]
         /\ \A h \in Hold : holding'[h].owner # holding[h].owner => holding[h].lock = t
<1>1. PICK r \in Runner : /\ Script(r) /\ run[r].step = "settle" /\ run[r].trade = t
                          /\ run'[r].step = "mark"
  BY HowTradesSettle
<1>2. Settle(r) /\ Settleable(run[r].trade, run[r].cids)
  BY <1>1 DEF Script, CmdSettle, Orchestrate, Gate, AssembleBatch, FindHoldings,
     LockAsset, LockCash, Allocate, Settle, MarkExecuted, Dies, At, Fails, Ends,
     TypeInv, TypeOK
<1> QED
  BY <1>1, <1>2, SettlingDelivers, SettlingMovesOwnLocks

\* For any trades and holdings, and whatever holdings the script happened to
\* find: settling a trade moves one holding of exactly its asset and one of
\* exactly its price, and nothing else.
THEOREM DeliveredVersusPaid == Spec => DeliveryVersusPayment
<1>1. TypeInv /\ FundedInv /\ [Next]_vars =>
        [\A t \in Trade :
           trade[t] # "settled" /\ trade'[t] = "settled" =>
             \E a, c \in Hold :
               /\ Delivered(t, "asset", a) /\ Delivered(t, "cash", c)
               /\ \A h \in Hold \ {a, c} : holding'[h] = holding[h]]_vars
  BY SettlesByDelivery
<1> QED
  BY <1>1, InitType, TypeInductive, InitFunded, FundedInductive, PTL
     DEF Spec, DeliveryVersusPayment

\* For any trades, holdings and scripts, and whatever others cancel, release, lock or
\* renew meanwhile: a settlement moves nothing that is locked for another trade.
THEOREM OwnLocks == Spec => SettlesOnlyItsOwnLocks
<1>1. TypeInv /\ FundedInv /\ [Next]_vars =>
        [\A t \in Trade :
           trade[t] # "settled" /\ trade'[t] = "settled" =>
             \A h \in Hold : holding'[h].owner # holding[h].owner => holding[h].lock = t]_vars
  BY SettlesByDelivery
<1> QED
  BY <1>1, InitType, TypeInductive, InitFunded, FundedInductive, PTL
     DEF Spec, SettlesOnlyItsOwnLocks
=============================================================================
