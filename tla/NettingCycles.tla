---------------------------- MODULE NettingCycles ----------------------------
(***************************************************************************)
(* The rail's operating rhythm: the NettingCycle contract (Netting.daml)   *)
(* and the two commands that drive it, run_cycle and open_cycle            *)
(* (agent/cycle.py).  They keep nothing but what is on the ledger: each    *)
(* step queries the cycles again, and takes the one with the highest       *)
(* number.  Several may run at once, and any may die at any step.          *)
(*                                                                         *)
(* A session is what one NettingCycle becomes through its choices.  A      *)
(* choice archives the contract it is exercised on, so a contract id is a  *)
(* session and the status it has there.  A session that is over keeps its  *)
(* last fields here, as the ledger's stream of transactions does.          *)
(* settle_real is two steps here, its plan and its SettleNetting, and      *)
(* between them obligations may leave the book in other ways;              *)
(* SettlementWorkflow has the rest of its interleavings.                   *)
(***************************************************************************)
EXTENDS Naturals, FiniteSets, FiniteSetsExt

CONSTANTS
  Session,     \* the NettingCycles that may come to exist
  NoSession,
  Process,     \* processes that run `agent.cycle`, any number of times
  Obligation,  \* the obligations that may accrue
  MaxLate      \* bound on commands given up on that may still commit

ASSUME FiniteRail ==
  IsFiniteSet(Session) /\ IsFiniteSet(Process) /\ IsFiniteSet(Obligation)
ASSUME CycleBounds == MaxLate \in Nat /\ NoSession \notin Session

VARIABLES
  cycle,       \* [Session -> the fields of its contract]
  book,        \* due obligations, live on the ledger
  closed,      \* obligations that left it: settled by a netting, or withdrawn
  reported,    \* history: how many settlements settle_real told of, in all
  late,        \* commands whose caller gave up
  proc         \* [Process -> local state of its command]

vars == <<cycle, book, closed, reported, late, proc>>

Active == {"CycleOpen", "CycleClosed", "CycleSettled"}
Status == {"none", "rolled", "cancelled"} \union Active

\* recorded and settledCount: what RecordSettlement wrote (the deferred count
\* and the values go with it).
CycleRec == [number: Nat, status: Status, recorded: BOOLEAN, settledCount: Nat]

Cid == [session: Session \union {NoSession}, status: Status]
NoCid == [session |-> NoSession, status |-> "none"]

Choice == {"Create", "CloseCycle", "RecordSettlement", "RollForward"}
Command == [choice: Choice, cid: Cid, number: Nat, sc: Nat]

Step == {"idle", "ensure", "open", "create", "opened", "close", "closed", "settle", "net",
         "reload", "record", "recorded", "roll", "rolled"}
Proc == [step: Step, whole: BOOLEAN,    \* inside run_cycle, or open_cycle alone
         cid: Cid, number: Nat, plan: SUBSET Obligation, sc: Nat]

TypeOK ==
  /\ cycle \in [Session -> CycleRec]
  /\ book \subseteq Obligation /\ closed \subseteq Obligation
  /\ book \intersect closed = {}
  /\ reported \in Nat
  /\ late \subseteq Command
  /\ proc \in [Process -> Proc]

Idle == [step |-> "idle", whole |-> FALSE, cid |-> NoCid, number |-> 0,
         plan |-> {}, sc |-> 0]

Init ==
  /\ cycle = [s \in Session |->
       [number |-> 0, status |-> "none", recorded |-> FALSE, settledCount |-> 0]]
  /\ book = {} /\ closed = {} /\ reported = 0
  /\ late = {}
  /\ proc = [p \in Process |-> Idle]

-----------------------------------------------------------------------------
(* The choices of NettingCycle.                                            *)

Opened(c, s, n) == [c EXCEPT ![s].number = n, ![s].status = "CycleOpen"]
Unborn == {s \in Session : cycle[s].status = "none"}
Exercisable(cid) == cid.session \in Session /\ cycle[cid.session].status = cid.status

CreateCycle(cmd) ==
  /\ cmd.choice = "Create"
  /\ \E s \in Unborn : cycle' = Opened(cycle, s, cmd.number)

CloseCycle(cmd) ==
  /\ cmd.choice = "CloseCycle" /\ Exercisable(cmd.cid) /\ cmd.cid.status = "CycleOpen"
  /\ cycle' = [cycle EXCEPT ![cmd.cid.session].status = "CycleClosed"]

RecordSettlement(cmd) ==
  /\ cmd.choice = "RecordSettlement" /\ Exercisable(cmd.cid)
  /\ cmd.cid.status = "CycleClosed"
  /\ cycle' = [cycle EXCEPT ![cmd.cid.session] =
       [@ EXCEPT !.status = "CycleSettled", !.recorded = TRUE,
                 !.settledCount = cmd.sc]]

\* Mutant: any active cycle can be rolled forward.
RollAny(cmd) ==
  /\ cmd.choice = "RollForward" /\ Exercisable(cmd.cid)
  /\ \E s \in Unborn :
       cycle' = Opened([cycle EXCEPT ![cmd.cid.session].status = "rolled"], s,
                       cycle[cmd.cid.session].number + 1)

RollForward(cmd) ==
  /\ cmd.choice = "RollForward" /\ Exercisable(cmd.cid)
  /\ cmd.cid.status = "CycleSettled"
  /\ \E s \in Unborn :
       cycle' = Opened([cycle EXCEPT ![cmd.cid.session].status = "rolled"], s,
                       cycle[cmd.cid.session].number + 1)

CancelCycle(s) ==
  /\ cycle[s].status \in Active
  /\ cycle' = [cycle EXCEPT ![s].status = "cancelled"]
  /\ UNCHANGED <<book, closed, reported, late, proc>>

Applies(cmd) ==
  CreateCycle(cmd) \/ CloseCycle(cmd) \/ RecordSettlement(cmd) \/ RollForward(cmd)

-----------------------------------------------------------------------------
At(p, s) == proc[p].step = s
Ends(p) == proc' = [proc EXCEPT ![p] = Idle]
Local == UNCHANGED <<cycle, book, closed, reported, late>>

\* current_cycle: an active contract with the highest number.  A query that
\* fails looks like a ledger without cycles.
CurrentCycle ==
  LET seen == {s \in Session : cycle[s].status \in Active}
      best == {s \in seen : \A t \in seen : cycle[t].number <= cycle[s].number}
  IN {NoCid} \union {[session |-> s, status |-> cycle[s].status] : s \in best}

Begin(p) ==
  /\ At(p, "idle") /\ Local
  /\ \/ proc' = [proc EXCEPT ![p].step = "ensure", ![p].whole = TRUE]
     \/ proc' = [proc EXCEPT ![p].step = "open"]

\* run_cycle goes on with the cycle it has: an Open one it closes, a Closed one
\* it settles, and anything else is an error.
GoOn(p, cid) ==
  CASE cid.status = "CycleOpen" -> proc' = [proc EXCEPT ![p].step = "close", ![p].cid = cid]
    [] cid.status = "CycleClosed" -> proc' = [proc EXCEPT ![p].step = "settle"]
    [] OTHER -> Ends(p)

InProgress(cid) == cid.status \in {"CycleOpen", "CycleClosed"}

Ensure(p) ==
  /\ At(p, "ensure") /\ Local
  /\ \E cid \in CurrentCycle :
       IF InProgress(cid) THEN GoOn(p, cid) ELSE proc' = [proc EXCEPT ![p].step = "open"]

\* Mutant: open_cycle looks for an open cycle only.
OpenNext(p) ==
  /\ At(p, "open") /\ Local
  /\ \E cid \in CurrentCycle :
       proc' = [proc EXCEPT ![p].step = "create",
         ![p].number = IF cid = NoCid THEN 1 ELSE cycle[cid.session].number + 1]

OpenCycle(p) ==
  /\ At(p, "open") /\ Local
  /\ \E cid \in CurrentCycle :
       IF InProgress(cid) THEN IF proc[p].whole THEN GoOn(p, cid) ELSE Ends(p)
       ELSE proc' = [proc EXCEPT ![p].step = "create",
              ![p].number = IF cid = NoCid THEN 1 ELSE cycle[cid.session].number + 1]

\* Mutant: after an error the outcome is offered to whatever cycle is current then.
WriteAgain(p, cmd, next) ==
  /\ UNCHANGED <<book, closed, reported>>
  /\ \/ /\ Applies(cmd) /\ UNCHANGED late
        /\ proc' = [proc EXCEPT ![p] = [Idle EXCEPT !.step = next, !.whole = proc[p].whole]]
     \/ /\ late' \in {late, late \union {cmd}} /\ UNCHANGED cycle
        /\ IF cmd.choice = "RecordSettlement"
           THEN proc' = [proc EXCEPT ![p].step = "reload"] ELSE Ends(p)

\* A write: it commits and the caller hears so; or the caller is told of an
\* error and gives up, whether it has committed, never does, or does later.
Write(p, cmd, next) ==
  /\ UNCHANGED <<book, closed, reported>>
  /\ \/ /\ Applies(cmd) /\ UNCHANGED late
        /\ proc' = [proc EXCEPT ![p] = [Idle EXCEPT !.step = next, !.whole = proc[p].whole]]
             \/ Ends(p)
     \/ late' \in {late, late \union {cmd}} /\ UNCHANGED cycle /\ Ends(p)

Exercise(p, choice) ==
  [choice |-> choice, cid |-> proc[p].cid, number |-> proc[p].number, sc |-> proc[p].sc]

WriteCreate(p) == At(p, "create") /\ Write(p, Exercise(p, "Create"), "opened")

AfterCreate(p) ==
  /\ At(p, "opened") /\ Local
  /\ \E cid \in CurrentCycle : IF proc[p].whole THEN GoOn(p, cid) ELSE Ends(p)

WriteClose(p) == At(p, "close") /\ Write(p, Exercise(p, "CloseCycle"), "closed")

AfterClose(p) ==
  /\ At(p, "closed") /\ Local
  /\ \E cid \in CurrentCycle :
       IF cid.status = "CycleClosed" THEN proc' = [proc EXCEPT ![p].step = "settle"] ELSE Ends(p)

\* Mutant: SettleNetting leaves the obligations live.
NetsOnly(S) ==
  /\ S \subseteq book
  /\ closed' = closed \union S /\ UNCHANGED book

\* Every obligation of the plan is discharged, or none.
Nets(S) ==
  /\ S \subseteq book
  /\ book' = book \ S /\ closed' = closed \union S

\* settle_real returns: n obligations settled.
Outcome(p, n) ==
  /\ proc' = [proc EXCEPT ![p].step = "reload", ![p].plan = {}, ![p].sc = n]
  /\ reported' = reported + n

\* settle_real reads the book and plans to settle some of it.  It may defer all
\* of it, and it may fail before it submits anything.
Plan(p) ==
  /\ At(p, "settle") /\ UNCHANGED <<cycle, book, closed, late>>
  /\ \/ \E S \in (SUBSET book) \ {{}} :
           /\ proc' = [proc EXCEPT ![p].step = "net", ![p].plan = S]
           /\ UNCHANGED reported
     \/ Outcome(p, 0)

\* An error carries no counts and is taken for a count of zero, although the
\* netting may have been committed.  A batch that is gone, with no obligation of
\* its plan left in the book, counts as settled (settle_committed): that is the
\* batch's own netting, or clear_book cancelled it after the obligations were
\* withdrawn or settled by another.
Settle(p) ==
  LET S == proc[p].plan IN
  /\ At(p, "net") /\ UNCHANGED <<cycle, late>>
  /\ \/ Nets(S) /\ (Outcome(p, Cardinality(S)) \/ Outcome(p, 0))
     \/ S \intersect book = {} /\ Outcome(p, Cardinality(S)) /\ UNCHANGED <<book, closed>>
     \/ Outcome(p, 0) /\ UNCHANGED <<book, closed>>

Reload(p, from, next) ==
  /\ At(p, from) /\ Local
  /\ \E cid \in CurrentCycle :
       IF cid = NoCid THEN Ends(p)
       ELSE proc' = [proc EXCEPT ![p].step = next, ![p].cid = cid]

BeforeRecord(p) == Reload(p, "reload", "record")
WriteRecord(p) == At(p, "record") /\ Write(p, Exercise(p, "RecordSettlement"), "recorded")
BeforeRoll(p) == Reload(p, "recorded", "roll")
WriteRoll(p) == At(p, "roll") /\ Write(p, Exercise(p, "RollForward"), "rolled")
Done(p) == At(p, "rolled") /\ Ends(p) /\ Local

Crash(p) == ~At(p, "idle") /\ Ends(p) /\ Local

CommitLate ==
  /\ \E cmd \in late : Applies(cmd) /\ late' = late \ {cmd}
  /\ UNCHANGED <<book, closed, reported, proc>>

Accrue ==
  /\ \E o \in Obligation \ (book \union closed) : book' = book \union {o}
  /\ UNCHANGED <<cycle, closed, reported, late, proc>>

\* An obligation leaves the book by no run of a cycle: clear_book discharges it,
\* or another settlement, late or of the console, nets it.
Leave ==
  /\ \E o \in book : book' = book \ {o} /\ closed' = closed \union {o}
  /\ UNCHANGED <<cycle, reported, late, proc>>

Runs(p) ==
  \/ Begin(p) \/ Ensure(p) \/ OpenCycle(p) \/ WriteCreate(p) \/ AfterCreate(p)
  \/ WriteClose(p) \/ AfterClose(p) \/ Plan(p) \/ Settle(p)
  \/ BeforeRecord(p) \/ WriteRecord(p) \/ BeforeRoll(p) \/ WriteRoll(p) \/ Done(p)
  \/ Crash(p)

Next ==
  \/ Accrue \/ Leave \/ CommitLate
  \/ \E s \in Session : CancelCycle(s)
  \/ \E p \in Process : Runs(p)

Spec == Init /\ [][Next]_vars

-----------------------------------------------------------------------------
(* Properties.                                                             *)

\* "No skipping a settlement" (Netting.daml 182): a session numbered n + 1
\* exists only after one numbered n was recorded as settled, although the
\* number is also given by open_cycle, which reads it one query before it
\* creates, with other processes, crashes and late commits in between.
NoSettlementSkipped ==
  \A s \in Session :
    cycle[s].number > 1 =>
      \E r \in Session : cycle[r].recorded /\ cycle[r].number = cycle[s].number - 1

\* What settle_real reports is recorded once: however late a record commits, and
\* whoever recorded or rolled the cycle meanwhile, the sessions together never
\* count more settlements than it told of, and none counts more than the
\* obligations that did leave the book.  (That they left by the netting reported
\* is not true of the code, see Settle.)
RecordsAreOfReports ==
  /\ MapThenSumSet(LAMBDA s : cycle[s].settledCount, Session) <= reported
  /\ \A s \in Session : cycle[s].settledCount <= Cardinality(closed)
=============================================================================
