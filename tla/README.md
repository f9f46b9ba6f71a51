# TradeGuard: a verified model of netting and settlement

TLA+ modules, TLC configurations and TLAPS proofs for TradeGuard, a netting and
settlement agent over a Canton ledger. The Daml contracts
(`tradeguard-v3/main`, `tradeguard-v3/test`) enforce the rules; Python processes
(`agent/`, `ui/console_server.py`) read the ledger, plan a netting, ask a human
and submit commands. Line references are to the repository's files.

## 1. The system

| Part | State it keeps | Operations | Talks to |
|---|---|---|---|
| On-ledger netting: `Netting.daml`, `Holding.daml`, `Instrument.daml`, the in-kind choice of `Settlement.daml` | `Obligation`, `CreditLimit`, `AggregateLimit`, `FXRate`, `LiquidityFloor`, `Holding`, `NettingBatch` | `Discharge`, `Issue`, `LockHolding`, `Release`, `Transfer`, `SettleTransfer`, `SettleNetting`, `CancelNetting`, `ExecuteSettleTransfer` | every other part, one transaction per command |
| Netting cycles: `NettingCycle`, `agent/cycle.py` | cycle number, status, settled count; the process's own variables | `CloseCycle`, `RecordSettlement`, `RollForward`, `CancelCycle`; `run_cycle`, `open_cycle` | settlement workflow, ledger |
| Command client: `agent/real_client.py` | attempt, last fault, last answer | `_post` with one retry, `before_retry`, `_existing_reference` | participant over HTTP |
| Settlement workflow: `agent/net_settle.py`, `ui/console_server.py` | plan, limits, issued holdings, batch; `RecommendedAction`, `ApprovedAction` | `settle_real`, `record_plan_approval`, `settle_with_approval`, `settle_with_failover`, `clear_book` | command client, solver, ledger |
| Bilateral DvP: `Trade.daml`, `Settlement.daml`, `Agent.daml`, `agent/cli.py`, `agent/reasoner.py`, `Orchestrate.daml` | proposals, trades, attestations, recommendations, approvals, `SettlementBatch`, holdings | propose, accept, attest, watch, approve, reject, settle, cancel | ledger |
| Solver: `agent/solver.py`, `agent/netting.py` | none (pure) | greedy netting, `solve`, `solve_maximal`, `solve_fx`, the two diagnoses | settlement workflow |
| Limits and rates: `agent/limits.py` | limit, rate and floor contracts | seed, clear, verify, load | ledger |
| Token settlement: `TokenSettlement.daml`, `agent/token_settle.py` | `TGHolding`, `NettingSettlement` | transfer, split, lock, unlock; execute (one by one, threaded, multi), cancel; clear, mint, `settle_token`, `settle_cross_token` | ledger |
| Seeding and reset: `_seed_obligation_book`, `seed_partial_book`, `clear_book`, `clear_all`, the console's `reset_demo` | the plan of each procedure's next writes | query, discharge, cancel, sweep, create, verify | command client, ledger |
| Policy: `agent/policy.py` | none | text to constraints | solver |
| Demonstrations, deployment, earlier packages | fixtures | | |

What is hard here:

* **Many processes, one ledger.** The console's `POST_LOCK` orders only its own
  requests; the CLI, the cycle runner, the failover and seeding scripts run
  beside it. Between any two transactions of one process the book, the limits
  and the holdings may change.
* **Writes whose outcome is unknown.** A request may be lost, applied without an
  answer, or applied after the client gave up. The client retries and
  reconciles by looking at the ledger.
* **Settlement in several transactions.** Cash is issued and locked, a batch is
  created, then it is settled; approvals are recorded and marked separately. A
  process can die after any of them.
* **Checks on remembered state.** Approvals, limits and balance facts are read
  before they are used.
* **Arithmetic over legs.** Conservation, efficiency, limits and floors relate
  sums over several legs, in several currencies.

Per part, correctness means:

* *Netting*: one settlement is one atomic step that closes due obligations and
  moves each firm's net, no obligation is netted twice, limits and floors bind
  the sum of the legs, locked cash is moved by nothing but its leg.
* *Client*: success and "failed" mean what the caller takes them for; a commit
  that is there when the caller asks is seen, and then it neither submits again
  nor reports a failure; every call returns.
* *Workflow*: what settles is what was approved; a success leaves none of its
  obligations open; a failure leaves nothing behind.
* *DvP*: only attested, approved trades settle; exactly the asset against
  exactly the price, with holdings locked for that trade and no other.
* *Cycles*: session numbers tell a gapless story, and what a settlement reports
  is recorded once at most.
* *Solver*: what a planner calls a plan is one the ledger takes, the planners
  agree where they claim to, and a diagnosis names a firm that really is short.
* *Token settlement*: an execution moves every balance by its own call's
  netting, at most once, and success is reported for that netting.
* *Seeding*: seedings that overlap leave the book once or one of them reports
  that they did not, and a clean report is still true when the dust has settled.

`PROJECT.json` lists the hazards line by line with the property that covers each.

## 2. Modules

```
AtomicNetting            the promise: net in one step
   ^ implemented by
NettingLedger            contracts of Netting.daml and Holding.daml
   ^ properties, mapping      ^ EXTENDS
NettingRefinement        SettlementWorkflow     settle_real, approval, failover
                              ^ plans for
                         NettingSolver          solve, solve_maximal, solve_fx
                              ^ EXTENDS    ^ EXTENDS
                         Planning       GreedyNetting    netting.py
                         a planner on a live book, its plan against the ledger

TokenRail                the promise: a call's netting in one step
   ^ implemented by           EXTENDS
TokenSettlement  -------------------> GreedyNetting

CommandClient                              one HTTP write: retry, reconcile
TradeSettlement                            bilateral DvP, agent and script
NettingCycles                              sessions and run_cycle
BookSeeding                                seeding, sweeping, resetting
MC*                                        constants and bounds for TLC

NettingTheorems                            sums over finite sets, greedy matching, proved
NettingLedgerProofs (of NettingRefinement and Planning), CommandClientProofs,
TradeSettlementProofs, SettlementWorkflowProofs, NettingCyclesProofs,
BookSeedingProofs, TokenSettlementProofs   theorems about the module they EXTEND
```

**AtomicNetting** has no batch, lock or allocation: a book, a balance per firm
and currency, and `Net(S)`, which closes the set `S` and moves its net.
`NetAcross` is netting by value at a quote all firms of the book signed.

**NettingLedger** has one action per choice. `obl`, `ref` and `batch` are the
contracts, and a slot of `holding` stands for the succession of contracts one
issued holding becomes: `Transfer`, `LockHolding` and `SettleTransfer` archive
and create, and keep currency and amount. `Discharge` is modelled with its
maturity guard, `SettleNetting` with its guards in the order of the code as
conjuncts (`RatesAgreed`, `Conserves`, `Efficient`, `WithinCreditLimits`,
`WithinAggregateLimits`, `AboveFloors`, `Fetchable`, `Funded`): they are all
in one transaction, so one failing leaves the state as it was. Amounts are
integers in the smallest unit and rates are integers over `Unit`; the
multiplication is exact. Facts carried by a batch that are copies of its
obligations are not duplicated (`Facts`); balance facts are (`BatchRec`), since
they can go stale. The batches are those the drivers build (`Build`): with the
limits the caller chose to carry, under any plan of `Plans`, right or wrong.
Not every step any party could compose by hand is in the model: a batch whose
facts contradict its obligations is left out, as are observers, regulators and
account identifiers.

**CommandClient** models `_post`. The participant is external: it may take any
time to decide a submission, refuse it, commit it at most once, or lose the
answer. `Reconciler` is the kind of `before_retry` closure the caller passes:
none, "the contracts are gone" (`settle_committed`) or "a contract with my
reference exists" (`_existing_reference`). The actions of a call are `Send`,
`Hear` (an answer arrives whole), `Fails` (a fault), and `Reconcile`, which
leads to success, `Retry` or `GiveUp` as in the code.

**SettlementWorkflow** composes the processes with the ledger: every write is
an action of NettingLedger taken by a process at a step, the write's report is
any that CommandClient allows, and a submission the caller gave up on stays in
`late` and may commit at any moment. `Others` is everybody else: `clear_book`,
`limits.clear_limits`, firms that accrue, time. The solver is the constant
`Solver`, a function, because it is deterministic; the run gives it the table
of what `SolveMaximal` of NettingSolver returns for each book and limits, so
that with the limit in force the plan really goes by way of a third firm.
`settle_with_approval` plans (`PlanForReview`), records
`Recommend` and `Approve`, settles, and marks the approval executed;
`settle_with_failover` settles and nets again without the first sender when a
definite failure is reported.

**TradeSettlement** models the trade from proposal to settlement, the
watcher (`Look`, `Evaluate`, `WriteReco`: three queries and a write), a human
who approves or rejects, and `orchestrateSettlement` line by line as the steps
of a `Runner`, each step one `submit`. The two queries of `findHolding` are one
step, and a script that dies leaves what it has written. `cmd_settle` checks
the approval of the trade it is given and then runs a script for a fixed trade
(`Live`), as the code does. `cmd_settle` starts the script of the earlier
package, `tradeguard/daml/TradeGuard/Orchestrate.daml`; the procedure is the
same as the one mapped here, which uses the current contracts. Beside the
script the owners transfer what is not locked, and renew any holding's contract
by `Disclose` and `Undisclose` (`Redisclose`). The coordinator, who locks for
every trade, may `Release` any lock, alone or through `Cancel`, which takes the
holdings to release as an argument and does not compare them with the trade. So
an allocated batch need not stay funded; its `Settle` is then refused, because
the contract ids the script kept are no longer active. A lock placed by hand,
and a batch allocated or settled by hand, are left out.

**NettingCycles** models the four choices and `run_cycle`/`open_cycle` step by
step. Each query may fail, and a failed query of `current_cycle` looks like an
empty ledger, as the code has it. `settle_real` is two steps: `Plan` reads the
book and chooses what to settle, `Settle` nets just that and reports so many
settled, or an error before or after the commit. In between obligations leave
the book by `clear_book` or by another settlement (`Leave`). If none of the plan
is left, `Settle` may also report it as settled though it netted nothing, which
is what `settle_committed` makes of a batch that is gone (`net_settle.py:793-799`).

**GreedyNetting** is `minimal_settlement`: payers and receivers with the largest
first (`LargestFirst`, any such order), and a recursive function whose step is one turn of the
code's loop (`MatchNext`). **NettingSolver** gives each linear program by its feasible flows
(`DirectFlows`, `Flows`) and its objective, and the result as the set of plans
with an optimal flow: whichever optimum the library picks is in it. All
constraints are network constraints, so with whole amounts a simplex solver
returns whole amounts. `SolveMaximal` weighs the value settled against the flow
with the code's own weight (the book plus one dollar), not by putting one
before the other. `SolveFx` rounds each obligation's value as the code does.
**Planning** puts a planner beside a ledger whose book, limits, rates and
floors are agreed and archived freely, and builds the batch the driver would
build (`BatchFor`); the properties hold it against NettingLedger's guards.

**TokenSettlement** has a holding per contract id, the choices of `TGHolding`
and `NettingSettlement` (`TGHolding_SplitTransfer` as part of executions only, and
not by itself), and the driver's calls step by step: `clear` and
`mint` of a seeding, `fund`, `create`, `choose`, `execute` of a settlement.
`Split` threads a holding through its sender's legs as the Daml fold does.
`Choose` takes any open settlement, because the answer to the create names no
contract and the driver takes the last it finds. The order in which a query
lists contracts is the ledger's, so commands over a set go in one fixed order.
`FundNext` looks up the first leg without a holding.
**TokenRail** is the abstract rail: balances, and `Settle(c)`, which moves the
net of call `c`'s book in one step. The refinement maps holdings to sums.

**BookSeeding** models a seeding or reset as a program of queries (`Program`),
each of which plans the writes that follow it (`Planned`) or verifies
(`Verified`, `Explained`). A write has the outcomes CommandClient allows, late
commits included. Contracts are kept in the order of their creation, which is
the order of queries; a sweep keeps the first match of each reference. The four
templates `clear_all` clears are one, the limit, since the same function clears
each of them in turn. `alone` remembers whom nobody interfered with.

## 3. Runs

| Run | Question | Result |
|---|---|---|
| `netting_chain` | Does the ledger, with two competing batches and a credit limit, implement atomic netting, net once, and keep locked cash and limits? | holds |
| `netting_cross` | Atomic netting across two currencies, with an agreed rate and an aggregate limit in force; does a liquidity floor hold? | holds |
| `client` | A settlement with its closure, a clear of the book and a seeded obligation: is success only reported for what happened, does every call return? | holds |
| `client_failed_but_settled` | Does "failed" mean nothing moved? (`console_server.py:314`) | violated |
| `workflow` | Is what settles what was approved; does success close the book? | holds |
| `workflow_stuck` | Does a failure leave nothing stuck? (`README.md:21`) | violated |
| `trade` | Approved and attested only, exact delivery out of the trade's own locks, marks tell the truth | holds |
| `cycle` | Is no session skipped, and no reported settlement recorded twice? | holds |
| `solver` | Are the planners' results taken by the ledger, within the limits, equal where they claim to be, and their diagnoses right? | holds |
| `solver_maximal` | Does the ledger take every maximal plan? (`solver.py:344-346`) | violated |
| `token` | Do executions implement the token rail; does "ok" mean the call's own netting; do locked tokens stay put? | holds |
| `seeding` | Do two overlapping seedings leave the book exactly once; does a clean report last; is every failure explained? | holds |

The three violations are disagreements between the code and its own
documentation, described under "findings" of `PROJECT.json`:

1. After a busy answer or a timeout the retry can be refused while the first
   submission is in flight; the caller is told of a definite failure.
2. Funding is issued and locked before the settlement and nobody releases it
   when the settlement is refused.
3. `solve_maximal` may route a residual through any firm; a plan that avoids a
   capped arc can move more gross than the obligations it settles, and
   `SettleNetting` refuses it although, by its docstring, the planner can never "fail".

Known departures that no run is spent on, because reading the code shows them:

* A batch is checked against the limits it carries, and the caller decides
  which; a limit in force that is not carried does not bind
  (`Netting.daml:78-79` and 424). `OutflowWithinCarriedLimits` says what holds.
* `settle_with_failover` and `run_cycle` settle without an approval
  (`src/README.md:22`).
* `run_cycle` takes an error of `settle_real` for a result with zero counts and
  records it, also when the netting committed (`cycle.py:99-102`, against
  `Netting.daml:165`). It may also record obligations as settled that were
  withdrawn, or settled by another process whose session counts them too, when
  `settle_committed` takes their absence for a commit. `RecordsAreOfReports` says
  what holds: all records together count no more than was reported, and each
  no more than left the book.
* The client's closure is asked before the backoff. A first submission that
  commits during the backoff is followed by the second (`real_client.py:181-196`),
  which the participant refuses; `CommitSeenWhenAsked` is about the decision.
* The exact comparison of values across currencies (`Netting.daml:380`) refuses
  plans rounded to cents when a rate does not divide evenly, and the efficiency
  guard per currency refuses books that owe one currency and settle another.
* `settle_real(maximal=False)` ignores aggregate limits that its batch carries,
  and states every obligation in USD (`net_settle.py:701`).
* Two limits on one pair of firms give the solver two constraints of one name,
  which its library refuses.
* The reasons `solve_maximal` gives for a deferral compare caps with what is
  owed gross (`solver.py:500-515`).
* A second settlement of one token book fails when a party's tokens are spread
  over several holdings, since one holding has to fund a sender.
* A seeding that reports `ok` beside errors may not stay true: a row whose
  discharge timed out is kept as already seeded, and goes when it commits.
* Three overlapping seedings can leave the book empty (`net_settle.py:192`
  promises "exactly `book`"). Two that both find a row missing both create it, and
  each sweep means to keep the first copy. The third, still clearing, discharges
  that copy after a sweep has read the book; it creates nothing, because the
  second copy is there, and then the sweep discharges that one (lines 177-182).
  `seeding` with three processes, one row, an empty ledger and no faults shows it
  in some forty steps. At least one of the three reports it (`OverlapIsReported`).
* `seed_fx_book` clears the book without looking at the answers and reports
  only what it created.

### Bounds

All bounds are in the cfg files, or named `SmallScope` in the MC modules.

* Netting: two obligations, two holdings, two batches. A second obligation is
  enough for a net that differs from each of its obligations, a second holding
  for a plan of two legs (limits on sums), a second batch for competition. The
  book comes before the cash and the cash before the batches; withdrawals and
  archivals happen at any time but once. `Plans` holds the net, the same net in
  two legs, an underpayment, no netting and (across currencies) a payment in a
  currency nobody owed, so each guard refuses some plan.
* Client: three calls; two attempts is the code's own limit.
* Workflow: one console, one failover process, three batches (the failover needs
  two), three holdings, one limit. The second obligation falls due at time 1,
  so what is due changes between the approval and the settlement.
* Trade: two trades over one asset, so that both want it, at two prices, so that
  `findHolding` can find the wrong cash; two scripts; five successions of
  holdings: one full settlement (two locks and a swap of both) and one more, or
  a lock for each script with a release between them. The asset and the cash take
  three each, enough for the asset to be locked for one trade, released and
  locked for the other. The step beyond the bound is still checked.
* Cycles: two processes, three sessions, one obligation, which two processes
  may both plan to settle, one
  command outstanding or one cancelled session. Three sessions allow a
  sequence of two and one opened by a race.
* Solver: four firms, so that two payers meet two receivers, and five
  obligations, all subsets of which are planned for. One limit for each arc and
  one of each other kind, in every combination. A dollar is two units, so the
  weight of the objective and the policy's weights are not lost in the scale; a
  rate is a fraction of 5, an odd number, so that nothing lies between two
  roundings (`Unit` = 5; ties of the library's rounding are not modelled).
* Token: a seeding, a settlement of one token and one of two, two at a time;
  one holding left from before; one choice exercised directly or one submission
  that outlives its caller. `MaxCid` = 8 ids are more than the runs need at
  once, but for a few direct splits.
* Seeding: two processes that seed a book of two rows or reset it, over four
  ledgers (empty; a row, a limit and a batch; a row not yet due; one with another
  amount and one that fell due), one fault and one step of somebody else. Two
  rows let a sweep be right about one and wrong about the other; two processes
  are enough for a second copy, which is what sweeps are for. A third could
  take the copy a sweep keeps (see above), so `SeedingsConverge` is a statement
  about two; `OverlapIsReported` is proved for any number.

`CHECK_DEADLOCK FALSE` is set in every run: a settled book, a call that
returned or a process that ended is the normal end.

### Fairness

Only CommandClient states fairness: weak fairness of each caller's own steps
(`Calls`), because `_post` is a loop with a finite timeout on every request
(`real_client.py:157-174`), so a process that runs goes on. Nothing is assumed
of the participant: `EveryCallReturns` holds although it may never answer. The
other modules state no liveness: the workflow and the script may die at any
step, and the code promises nothing then.

## 4. Proofs

TLC checks a small instance; the theorems below hold for all values of the
constants, under the named assumptions of the modules. Each of the properties
named is also an invariant or property of a run, unless the text says otherwise.

### Assumptions

* The constants have their types (`CommandTerms`, `TradeTerms`, `CallTerms`,
  `ObligationTerms` and the like), and the model value for "nothing" is not one
  of the things it stands in for.
* `FiniteLedger`, `FiniteRail`, `LedgerContents`: finitely many holdings, firms,
  currencies, obligations, sessions, processes and references. Sums and "how
  many copies" mean nothing otherwise. `LedgerContents` also asks for at least one process.
* `ContractIds`: a participant does not reuse contract ids, a closure that waits
  for contracts to disappear watches what its command consumes, and one that
  looks for a reference looks for what its command would create.
* `WorkflowTerms`: a solver plans for obligations of the book it is given.
* `Finiteness`: finitely many token parties, and each call's book is finite.
* `FundingTerms`: the custodian can issue what any leg of a plan needs (`Funding`,
  what `settle_real` asks it for).

### `NettingLedgerProofs`

* `TypeCorrect`: `TypeOK` is inductive. Its core is `SettlementKeepsType`: a
  settlement rewrites the slots of its allocations with swapped holdings and no
  others (`SwappedSlot`, from `AllocationShape`).
* `NettedOnce`: the invariant `NettedExactlyOnce` is inductive with `TypeOK`. A
  settlement requires every obligation live, so none of them is in an earlier
  settled batch (`SettlementNetsOnce`); every other action leaves the netted
  obligations and the settled batches alone (`OthersNetNothing`).
* `CashConserved`, `LockedCashIsSafe`: both follow from one description of what
  any step does to one holding slot (`SlotStep`, `EverySlotStep`).
  `CashNeverAltered`, that no cash is destroyed or changed, is proved only.
* `NettingIsAtomic`: every step of the ledger is a step of AtomicNetting or a
  stutter. The guards compare the firms and currencies the batch mentions, the
  promise speaks of all of them: `NetsCancel` and `ValuesCancel` show that the
  nets of any family of transfers cancel, `OutsidersUntouched` and
  `ConservesForAll` extend the guards to everybody. `PaidAlongLegs` pairs legs
  with the distinct slots that fund them, `CashSettled` says what a firm then
  holds, and `SettlementPays` joins them: what moves is the net. The invariant
  beside `TypeOK` is `NamedInv`: a batch names obligations and, as its parties,
  exactly their firms (`SettlementOnRail` is the hard step).
* `LimitsBind`: the guards bound sums over the legs of a batch, the property
  bounds what leaves a balance. `PaidByLegs` regroups the slots by receiver
  (`OutByReceiver`), since a firm may fund legs to several firms from several slots. The
  theorem is about both kinds of limit; `netting_chain` checks the property with a
  credit limit, and in `netting_cross` the aggregate limit only refuses plans.
* `FloorsHold`: if the facts a batch carries are those of the ledger, the cash
  after the settlement is the facts plus the net of the legs (`CashSettled`),
  which is what the guard compared with the floor.

### `NettingLedgerProofs`, the planners

A planner is a function from the book and the limits to the optima of a program.
What every optimum has in common is that it is a flow: `DirectFlows` and `Flows` fix
what each firm sends and receives, `WithinCaps` and `WithinAggregates` bound it. The
inductive invariant `PlanInv` ties a plan to the book and the limits it was made
from (`PlannedFrom`): once something is planned, nobody accrues, agrees or archives
in this module, so the plan is a result for the contracts as they are. TLC checked
`PlanInv` on the run's instance before it was proved. The theorems then follow from
`PlannedFrom`, along five lines:

* *From flows to legs.* The legs of a flow are its arcs in some order, each once
  (`LegSums`), and the legs of a plan are those of one flow per currency
  (`LegsOfSums`), so a sum over legs is a sum over arcs of one flow.
* *From flows to nets.* A direct flow takes from each payer and brings each
  receiver its net; a flow through any firms leaves each with its net after what it
  passes on. Either way the legs move exactly the net of the obligations they
  settle, also for the subset a maximal plan settles.
* *From bounds to guards.* The ledger sums legs where the program bounds arcs; the
  caps and aggregates of the program carry over because every arc between two firms
  is in the sum once.
* *Gross.* What a direct flow moves is what the payers owe net (`Efficient` for
  `WholePlansAccepted`), which is what the greedy matching moves (`GreedyIsMinimal`).
* *Deferring does not pay* (`MaximalReduces`). Whatever settles a set of obligations
  moves at least what their firms owe net (`FlowNeeds`), and a direct flow moves just
  that (`DirectNeeds`). Leaving obligations open lowers that least flow by at most
  their value (`DeferralSaves`), so the weight the maximal program gives to value, the
  whole book plus one dollar (`BIG`, `solver.py:436`), makes every deferral worse
  than none. What it settles instead is possible, because a direct flow of the strict
  program is also one between any firms (`DirectIsFlow`) and stays within the same
  limits (`WholeFits`).

`PlansTyped` also needs that an amount on a leg is positive, hence that arcs
without flow become no legs. `FxPlansRound` has no exact equation to rest on: each
obligation's value is off by at most half a unit (`RoundToUnit`), and a firm's drift
is the sum over the obligations it is a party to. `GreedyIsMinimal` adds
`MatchSettles` and `MatchIsShort`.

### `CommandClientProofs`

* `TypeCorrect`.
* `FirstRefusal`: `FirstRefusalIsFinal` is not inductive. The strengthening
  `FirstAttempts` says of a call in its first attempt where its only submission
  is: unsent, in the inbox, decided.
* `CommitSeen`: the strengthening `Consumed` says that what a committed command
  consumes stays gone. A closure that watches the consumed contracts therefore
  sees a commit that precedes its query, and none of the branches that submit
  again or report a failure is left. What commits after the query is not covered.
* `NothingLeftOpen` adds `Committed`: an answer "ok", heard or on its way, is of
  a committed command.
* `SuccessIsMade` adds `Origin`: what is active was there at the start or was
  made by a committed command.

### `TradeSettlementProofs`

* `TypeCorrect`: `TypeOK` needs that a script past its start and an agent with
  something in hand have a trade (`TypeInv`).
* `Governed`: the gate is passed long before the settlement, so `GovernedInv`
  says of a script past its gate, of an approval and of an agent about to write
  that each of them was reached through the attestation and is not taken back.
* `Executed`: a script that marks approvals has settled its trade
  (`HowTradesSettle`), and no trade leaves "settled".
* `OwnLocks`: `FundedInv` relates what a script remembers of a contract to its
  holding now (`Sound`): the holding is no older, and if the contract is still
  the active one, it is locked for the trade, and later checked, as it was then.
  Every release, transfer or renewal is a new contract (`HoldingsGrow`), so none of
  them can make the memory wrong, only stale, and `Settle` refuses a stale one.
* `DeliveredVersusPaid`: `Settle` compares nothing, so the step is judged by the
  same invariant: contracts that are still active are what `Allocate` verified.

### `SettlementWorkflowProofs`

* `ApprovedPlansOnly`: `FollowInv` says that a batch is its process's plan, and
  that from the check on the plan is the approved one; what the others do to the
  ledger is summed up in `BookMoves`, so each process step is treated alone.
* `SuccessClosed`: `ClosedInv` adds that a plan's obligations had accrued and that
  a process that marks or reports a success has none of them open. An obligation
  that left the book does not come back, whatever late write arrives.
* `WorkflowImplementsLedger`: every step of the workflow is a step of NettingLedger
  or leaves the ledger alone. NettingLedger lets a client settle only with cash in
  the currency of its legs and build a batch only from contracts it has read; the
  ledger's guards check neither (Netting.daml 477 compares amount and owner). That
  the processes keep to it is `DrivenInv`: the holdings a process has issued lie in
  the currencies of the legs in their positions, and stay so although their
  owners could transfer them (`Provisioned`, `StillFits`); the same of a submission
  given up on, whose batch may meanwhile be cancelled but never replaced
  (`LateFits`); and limits once read were agreed. `FundMove` sums up what each step
  of a process does to what it carries. TLC checked `DrivenInv` on the run's
  instance before it was proved.
* `WorkflowNetsOnce`, `WorkflowLockedCashIsSafe`, `WorkflowIsAtomic`,
  `WorkflowLimitsBind`: NettingLedger's theorems therefore hold beside any number of
  these processes, crashing, retrying and giving up. (`FloorsHold` carries over too,
  but the batches of these processes carry no floors.)

### `NettingCyclesProofs`

* `TypeCorrect`, with what is planned in the book or gone from it (`TypeInv`).
* `NoneSkipped`: `SkipInv` says that every number that may still be given, by a
  process about to create or by a command its caller gave up on, is one that may
  follow. The records it rests on are never removed (`Keeps`).
* `RecordedOnce`: `RecordsAreOfReports` is not inductive, because counts travel:
  `CountInv` bounds what is recorded plus what processes carry plus what is
  outstanding by what was reported, and `ClosedInv` each of these counts by what
  left the book.

### `BookSeedingProofs`

* `TypeCorrect`: the types of what is planned need that commands over a set of
  contracts can be put in the order of their creation (`InOrder`).
* `NothingFailsInSilence`: `NotedInv` adds that finitely many contracts are active.
  That a check which fails has something to name is a matter of counting: a
  reference that is not there exactly once is missing or there twice.
* `CleanReportStays`: `CleanInv` says, step by step of a program, which writes a
  process without errors may still have under way: archivals of limits, whose
  errors stay out of the report until the limits are verified, and creations of
  rows the ledger did not have, each once. Every verification closes one of them.
  TLC checked `CleanInv` on the run's instance with two faults before it was proved.
* `OverlapsAreSeen`: `SharedInv` says that a seeding writes no more, but the limit it
  agrees, once it has verified the obligations (`WritesOf`). So what the last one
  to verify them found is still there at the end, and the same of the batches; and
  the last one to clear the limits agrees its own after that (`LimitComes`). TLC
  checked `SharedInv` with two and with three processes before it was proved.

### `TokenSettlementProofs`

* `LockedStay`: holdings go only as the used ones of a `Replace`; what a
  settlement or a transfer uses is movable, what an unlock makes gets the
  least free id (`MadeIsThere`), and a reset creates nothing (`OnlyTheUsedGoes`).
* `ReportedOnce`: `ReportsAnExecution`, the first half of `OkMeansItsOwnNetting`.
  `ReportInv` adds that a call has looked up just the keys of its legs before it
  creates, and that it has no result while it runs; executed settlements stay
  executed, and only open ones are executed, so a new success differs from all
  earlier ones. That the legs agree too needs books whose legs differ in
  their keys or instruments, which the demonstration books do, and it stays with TLC.
* `LegsSettleTheBook`: what the nets of a book sum to is zero, so each instrument
  is matched, and the legs of all instruments in a row (`SeqTotalFlatten`) move every
  party's net position and no more.
* `TokensTyped`, `SeededFunding`: both follow from `TokenInv`, the inductive
  invariant: `ReportInv`, the types of the ledger (`LedgerOK`), and of everything a
  call or a late command carries (`CallOK`, `CommandOK`) where it came from:
  a mint is of what a party owes gross in some book, an execution's holdings were
  looked up for the legs of one call. Types are part of the argument: a holding
  stays positive only because a split never leaves zero or less. For
  `SeededFunding`, the net of a payer is no more than what it owes gross, and a
  threaded holding is refused only when its legs come to more than it is worth
  (`LeftIs`). TLC checked `TokenInv` on the run's instance before it was
  proved.
* `TokensRefineRail`: every step is one of five (`LedgerStep`): marks on
  settlements, a reset, a mint, a holding replaced by one of the same worth, or an `Execution`. The three choices that execute differ in how they come by
  their parts (`ThreadedIs`, `MultiIs`, `ExecuteIs`); what is shown of each is that the
  parts use distinct holdings and that their legs are all legs of the settlement,
  each once (`GatheredCover`). A balance is a sum over contract ids, and
  `ReplaceTotal` says what a transaction does to it, although new contracts may
  take ids that were in use before. `SplitWorth` values what one part makes,
  `ExecutionMoves` adds the parts up and `LegsSettleTheBook` says that the sum
  is the net of the book.

### `NettingTheorems`

The sums of the models are folds, recursive functions on the subsets of an index
set, and the library's induction rules take an operator, which the provers here
cannot instantiate. The module proves what is needed another way: a family of
subsets of a finite set has a smallest member (`Least`), so a smallest
counterexample can be taken apart. From that follow that a fold exists
(`SumExists`), that it does not depend on the order (`SumRemove`), and the usual
rules: exchange of sums (`SumSwap`), renaming, regrouping by a key, scaling,
monotonicity, and that a sum at its bound has every term at its bound
(`SumTight`). Sums over sequences (`SeqTotal`) and functions defined by a recursion
on a number (`Recursion`) are treated likewise.

* `MatchSettles`: the greedy matching pays and brings every party just its
  position, for any positions that sum to zero. The invariant of its loop
  (`MatchInv`, kept by `MatchNext`) says of each side that those passed are settled,
  the current one lacks what remains, and those to come have nothing yet.
  When one side is used up, the sums of both sides being equal leave nothing open on
  the other. Every turn passes somebody, so there are enough turns.
* `MatchIsShort`: it returns fewer legs than there are parties. Every leg settles a
  party for good, and the last one settles one of each side (`MatchFrugal`).

### What the proofs said about the model

* `SuccessMeansMade` was true on the instance and false in general: a reference
  that was there from the start also makes a creation report success. The
  property now says so.
* The promise of AtomicNetting asked for a positive factor of each currency a
  quote is used for, where the code asks for an agreed rate, whose inverse may
  round to zero; a quote now names the currencies it prices. The set of quotes had also bound its set difference
  less tightly than meant, and let in an empty set of rates.
* `SeedingsConverge` was meant for any number of seedings and holds for two. The
  attempt at an invariant found the case of three (see Known departures);
  `OverlapIsReported` is what holds of any number.
* The order of payers and receivers was a sorted permutation of a library, which
  has to compare strictly: for two parties that owe the same there was no such
  permutation, and nothing could be shown of the matching. TLC does not notice,
  because its own sort always returns something. `LargestFirst` admits ties, as
  Python's sort does. The legs of the linear programs (`LegsOf`) had the same defect.
* Token settlement lacked two assumptions: that books are finite, and that the
  value for "nothing" is neither a holding nor a call.
* `InOrder` and the first-order form of AtomicNetting's actions replace
  operators of the libraries that the provers cannot look into.

### Checked by TLC only

* `EveryCallReturns`: liveness under fairness.
* `DiagnosisExplains`: it speaks of programs that have no flow, and it rests on
  there being at most one limit for each pair of firms, as on the run's instance;
  with two the diagnosis adds what one arc can carry twice.
* The second half of `OkMeansItsOwnNetting`, that a call settled the legs of its
  own netting and not those of another book with the same senders: it is a
  statement about the demonstration books.
* `SeedingsConverge`, which is false for three processes and so is a statement
  about its instance.

## 5. Not modelled, and the plan

Not modelled: policy texts (a policy reaches the solver as weights, which
Planning takes as inputs), the cross-currency driver's single reads and writes
(its plans are in Planning, its batches in NettingLedger), ties in the solver
library's rounding and its refusal of two constraints of one name, `seed_fx_book`
and the fraud, breach and `fail_party` demonstrations (fixtures and test hooks),
reads that only report (`verify_via_standard_interface`, console pages), observers
and privacy, deployment, and earlier packages, which are superseded copies.

What is left, in order:

1. **Cross-currency driver** as a second kind of process of SettlementWorkflow.
2. `seed_fx_book` as a third program of BookSeeding.
