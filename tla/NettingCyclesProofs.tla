-------------------------- MODULE NettingCyclesProofs --------------------------
(***************************************************************************)
(* Proofs about the rail's operating rhythm, for any number of sessions    *)
(* and of processes that drive them, crash, and are told nothing of what   *)
(* their commands become.                                                  *)
(***************************************************************************)
EXTENDS NettingCycles, NettingTheorems

-----------------------------------------------------------------------------
(* The inductive invariants.                                               *)

\* What a process plans to settle is in the book, or was.
TypeInv ==
  /\ TypeOK
  /\ \A p \in Process : proc[p].plan \subseteq book \union closed

\* A session that a number n > 1 follows was recorded as settled.
Follows(c, n) == n > 1 => \E r \in Session : c[r].recorded /\ c[r].number = n - 1

\* c is a history of the sessions in which none was skipped.
Unskipped(c) ==
  \A s \in Session :
    /\ c[s].status = "none" => c[s].number = 0 /\ ~c[s].recorded
    /\ c[s].status \in {"CycleSettled", "rolled"} => c[s].recorded
    /\ Follows(c, c[s].number)

\* The number a process is about to give, or that a command given up on may
\* still give, is one that may follow.
SkipInv ==
  /\ TypeInv
  /\ Unskipped(cycle)
  /\ \A p \in Process : proc[p].step = "create" => Follows(cycle, proc[p].number)
  /\ \A cmd \in late : cmd.choice = "Create" => Follows(cycle, cmd.number)

\* What the sessions report, and what the processes and the commands given up
\* on may still report.
Reported(c) == SumFunctionOnSet([s \in Session |-> c[s].settledCount], Session)
Carried(q) == SumFunctionOnSet([p \in Process |-> q[p].sc], Process)
Outstanding(L) == SumFunctionOnSet([cmd \in Command |-> cmd.sc], L)

CountInv ==
  /\ TypeInv /\ IsFiniteSet(late)
  /\ Reported(cycle) + Carried(proc) + Outstanding(late) <= reported

\* No count, wherever it is, exceeds what has left the book.
ClosedInv ==
  /\ \A s \in Session : cycle[s].settledCount <= Cardinality(closed)
  /\ \A p \in Process : proc[p].sc <= Cardinality(closed)
  /\ \A cmd \in late : cmd.sc <= Cardinality(closed)

-----------------------------------------------------------------------------
(* What a choice does to the cycles.                                       *)

\* The choices keep what was recorded, and number only what is unborn.
Keeps(c, d) ==
  \A s \in Session :
    /\ c[s].recorded => d[s].recorded
    /\ c[s].status # "none" => d[s].number = c[s].number

LEMMA StatusChange ==
  ASSUME NEW c \in [Session -> CycleRec], NEW s \in Session, NEW x \in Status
  PROVE  LET d == [c EXCEPT ![s].status = x]
         IN  /\ d \in [Session -> CycleRec]
             /\ \A t \in Session : /\ d[t].number = c[t].number
                                   /\ d[t].recorded = c[t].recorded
                                   /\ d[t].settledCount = c[t].settledCount
                                   /\ d[t].status = IF t = s THEN x ELSE c[t].status
<1> DEFINE r == [c[s] EXCEPT !.status = x]
           d == [c EXCEPT ![s] = r]
<1>1. r \in CycleRec
  BY DEF CycleRec
<1>2. /\ r.number = c[s].number /\ r.recorded = c[s].recorded
      /\ r.settledCount = c[s].settledCount /\ r.status = x
  BY DEF CycleRec
<1>3. [c EXCEPT ![s].status = x] = d
  OBVIOUS
<1> HIDE DEF r
<1>4. d \in [Session -> CycleRec] /\ d[s] = r /\ \A t \in Session \ {s} : d[t] = c[t]
  BY <1>1
<1> HIDE DEF d
<1>5. \A t \in Session : /\ d[t].number = c[t].number
                         /\ d[t].recorded = c[t].recorded
                         /\ d[t].settledCount = c[t].settledCount
                         /\ d[t].status = IF t = s THEN x ELSE c[t].status
  BY <1>2, <1>4
<1> QED
  BY <1>3, <1>4, <1>5

LEMMA OpenedSession ==
  ASSUME NEW c \in [Session -> CycleRec], NEW s \in Session, NEW n \in Nat
  PROVE  LET d == Opened(c, s, n)
         IN  /\ d \in [Session -> CycleRec]
             /\ \A t \in Session : /\ d[t].number = IF t = s THEN n ELSE c[t].number
                                   /\ d[t].recorded = c[t].recorded
                                   /\ d[t].settledCount = c[t].settledCount
                                   /\ d[t].status = IF t = s THEN "CycleOpen" ELSE c[t].status
<1> DEFINE r == [c[s] EXCEPT !.number = n, !.status = "CycleOpen"]
           d == [c EXCEPT ![s] = r]
<1>1. r \in CycleRec
  BY DEF CycleRec, Status, Active
<1>2. /\ r.number = n /\ r.recorded = c[s].recorded
      /\ r.settledCount = c[s].settledCount /\ r.status = "CycleOpen"
  BY DEF CycleRec
<1>3. Opened(c, s, n) = d
  BY DEF Opened
<1> HIDE DEF r
<1>4. d \in [Session -> CycleRec] /\ d[s] = r /\ \A t \in Session \ {s} : d[t] = c[t]
  BY <1>1
<1> HIDE DEF d
<1>5. \A t \in Session : /\ d[t].number = IF t = s THEN n ELSE c[t].number
                         /\ d[t].recorded = c[t].recorded
                         /\ d[t].settledCount = c[t].settledCount
                         /\ d[t].status = IF t = s THEN "CycleOpen" ELSE c[t].status
  BY <1>2, <1>4
<1> QED
  BY <1>3, <1>4, <1>5

WithRecord(c, s, n) ==
  [c EXCEPT ![s] = [c[s] EXCEPT !.status = "CycleSettled", !.recorded = TRUE,
                                !.settledCount = n]]

LEMMA RecordedSession ==
  ASSUME NEW c \in [Session -> CycleRec], NEW s \in Session, NEW n \in Nat
  PROVE  LET d == WithRecord(c, s, n)
         IN  /\ d \in [Session -> CycleRec]
             /\ \A t \in Session :
                  /\ d[t].number = c[t].number
                  /\ (d[t].recorded <=> t = s \/ c[t].recorded)
                  /\ d[t].settledCount = IF t = s THEN n ELSE c[t].settledCount
                  /\ d[t].status = IF t = s THEN "CycleSettled" ELSE c[t].status
<1> DEFINE r == [c[s] EXCEPT !.status = "CycleSettled", !.recorded = TRUE, !.settledCount = n]
           d == [c EXCEPT ![s] = r]
<1>1. r \in CycleRec
  BY DEF CycleRec, Status, Active
<1>2. /\ r.number = c[s].number /\ r.recorded = TRUE
      /\ r.settledCount = n /\ r.status = "CycleSettled"
  BY DEF CycleRec
<1>3. WithRecord(c, s, n) = d
  BY DEF WithRecord
<1> HIDE DEF r
<1>4. d \in [Session -> CycleRec] /\ d[s] = r /\ \A t \in Session \ {s} : d[t] = c[t]
  BY <1>1
<1> HIDE DEF d
<1>5. \A t \in Session :
        /\ d[t].number = c[t].number
        /\ (d[t].recorded <=> t = s \/ c[t].recorded)
        /\ d[t].settledCount = IF t = s THEN n ELSE c[t].settledCount
        /\ d[t].status = IF t = s THEN "CycleSettled" ELSE c[t].status
  BY <1>2, <1>4
<1> QED
  BY <1>3, <1>4, <1>5

LEMMA FollowsKept ==
  ASSUME NEW c \in [Session -> CycleRec], NEW d \in [Session -> CycleRec],
         Unskipped(c), Keeps(c, d), NEW n \in Nat, Follows(c, n)
  PROVE  Follows(d, n)
  BY DEF Unskipped, Keeps, Follows

LEMMA StatusSkip ==
  ASSUME NEW c \in [Session -> CycleRec], NEW s \in Session, NEW x \in Status,
         Unskipped(c), c[s].status # "none", x # "none",
         x \in {"CycleSettled", "rolled"} => c[s].status = "CycleSettled"
  PROVE  LET d == [c EXCEPT ![s].status = x]
         IN  d \in [Session -> CycleRec] /\ Unskipped(d) /\ Keeps(c, d)
<1> DEFINE d == [c EXCEPT ![s].status = x]
<1>1. /\ d \in [Session -> CycleRec]
      /\ \A t \in Session : /\ d[t].number = c[t].number
                            /\ d[t].recorded = c[t].recorded
                            /\ d[t].status = IF t = s THEN x ELSE c[t].status
  BY StatusChange
<1> HIDE DEF d
<1>2. Keeps(c, d)
  BY <1>1 DEF Keeps
<1>3. ASSUME NEW t \in Session
      PROVE  /\ d[t].status = "none" => d[t].number = 0 /\ ~d[t].recorded
             /\ d[t].status \in {"CycleSettled", "rolled"} => d[t].recorded
             /\ Follows(d, d[t].number)
  <2>1. Follows(c, c[t].number) /\ c[t].number \in Nat
    BY DEF Unskipped, CycleRec
  <2>2. Follows(d, d[t].number)
    BY <1>1, <1>2, <2>1, FollowsKept
  <2> QED
    BY <1>1, <2>2 DEF Unskipped
<1>4. Unskipped(d)
  BY <1>3 DEF Unskipped
<1> QED
  BY <1>1, <1>2, <1>4 DEF d

LEMMA OpenedSkip ==
  ASSUME NEW c \in [Session -> CycleRec], NEW s \in Session, NEW n \in Nat,
         Unskipped(c), c[s].status = "none", Follows(c, n)
  PROVE  LET d == Opened(c, s, n)
         IN  d \in [Session -> CycleRec] /\ Unskipped(d) /\ Keeps(c, d)
<1> DEFINE d == Opened(c, s, n)
<1>1. /\ d \in [Session -> CycleRec]
      /\ \A t \in Session : /\ d[t].number = IF t = s THEN n ELSE c[t].number
                            /\ d[t].recorded = c[t].recorded
                            /\ d[t].status = IF t = s THEN "CycleOpen" ELSE c[t].status
  BY OpenedSession
<1> HIDE DEF d
<1>2. Keeps(c, d)
  BY <1>1 DEF Keeps
<1>3. ASSUME NEW t \in Session
      PROVE  /\ d[t].status = "none" => d[t].number = 0 /\ ~d[t].recorded
             /\ d[t].status \in {"CycleSettled", "rolled"} => d[t].recorded
             /\ Follows(d, d[t].number)
  <2>1. Follows(c, c[t].number) /\ c[t].number \in Nat
    BY DEF Unskipped, CycleRec
  <2>2. Follows(d, n) /\ Follows(d, c[t].number)
    BY <1>1, <1>2, <2>1, FollowsKept
  <2>3. Follows(d, d[t].number)
    BY <1>1, <2>2
  <2> QED
    BY <1>1, <2>3 DEF Unskipped
<1>4. Unskipped(d)
  BY <1>3 DEF Unskipped
<1> QED
  BY <1>1, <1>2, <1>4 DEF d

LEMMA RecordedSkip ==
  ASSUME NEW c \in [Session -> CycleRec], NEW s \in Session, NEW n \in Nat,
         Unskipped(c), c[s].status = "CycleClosed"
  PROVE  LET d == WithRecord(c, s, n)
         IN  d \in [Session -> CycleRec] /\ Unskipped(d) /\ Keeps(c, d)
<1> DEFINE d == WithRecord(c, s, n)
<1>1. /\ d \in [Session -> CycleRec]
      /\ \A t \in Session : /\ d[t].number = c[t].number
                            /\ (d[t].recorded <=> t = s \/ c[t].recorded)
                            /\ d[t].settledCount = IF t = s THEN n ELSE c[t].settledCount
                            /\ d[t].status = IF t = s THEN "CycleSettled" ELSE c[t].status
  BY RecordedSession
<1> HIDE DEF d
<1>2. Keeps(c, d)
  BY <1>1 DEF Keeps
<1>3. ASSUME NEW t \in Session
      PROVE  /\ d[t].status = "none" => d[t].number = 0 /\ ~d[t].recorded
             /\ d[t].status \in {"CycleSettled", "rolled"} => d[t].recorded
             /\ Follows(d, d[t].number)
  <2>1. Follows(c, c[t].number) /\ c[t].number \in Nat
    BY DEF Unskipped, CycleRec
  <2>2. Follows(d, d[t].number)
    BY <1>1, <1>2, <2>1, FollowsKept
  <2> QED
    BY <1>1, <2>2 DEF Unskipped
<1>4. Unskipped(d)
  BY <1>3 DEF Unskipped
<1> QED
  BY <1>1, <1>2, <1>4 DEF d

\* A session whose settlement was recorded may be followed by the next number.
LEMMA NextNumber ==
  ASSUME NEW c \in [Session -> CycleRec], Unskipped(c), NEW s \in Session,
         c[s].status \in {"CycleSettled", "rolled"}
  PROVE  c[s].number + 1 \in Nat /\ Follows(c, c[s].number + 1)
<1>1. c[s].number \in Nat /\ c[s].recorded
  BY DEF Unskipped, CycleRec
<1>2. c[s].number = (c[s].number + 1) - 1
  BY <1>1
<1> QED
  BY <1>1, <1>2 DEF Follows

LEMMA CommandCid ==
  ASSUME NEW cmd \in Command
  PROVE  /\ cmd.number \in Nat /\ cmd.sc \in Nat
         /\ cmd.cid.status \in Status
  BY DEF Command, Cid

\* A command skips no settlement.
LEMMA AppliesSkip ==
  ASSUME cycle \in [Session -> CycleRec], NEW cmd \in Command, Unskipped(cycle), Applies(cmd),
         cmd.choice = "Create" => Follows(cycle, cmd.number)
  PROVE  cycle' \in [Session -> CycleRec] /\ Unskipped(cycle') /\ Keeps(cycle, cycle')
<1> DEFINE x == cmd.cid.session
<1>0. cmd.number \in Nat /\ cmd.sc \in Nat /\ {"CycleClosed", "rolled"} \subseteq Status
  BY CommandCid DEF Status, Active
<1>1. CASE CreateCycle(cmd)
  <2>1. PICK s \in Unborn : cycle' = Opened(cycle, s, cmd.number)
    BY <1>1 DEF CreateCycle
  <2> QED
    BY <1>0, <1>1, <2>1, OpenedSkip DEF CreateCycle, Unborn
<1>2. CASE CloseCycle(cmd)
  BY <1>0, <1>2, StatusSkip DEF CloseCycle, Exercisable
<1>3. CASE RecordSettlement(cmd)
  <2>1. /\ x \in Session /\ cycle[x].status = "CycleClosed"
        /\ cycle' = WithRecord(cycle, x, cmd.sc)
    BY <1>3 DEF RecordSettlement, Exercisable, WithRecord
  <2> QED
    BY <1>0, <2>1, RecordedSkip
<1>4. CASE RollForward(cmd)
  <2> DEFINE c == [cycle EXCEPT ![x].status = "rolled"]
             n == cycle[x].number + 1
  <2>1. x \in Session /\ cycle[x].status = "CycleSettled"
    BY <1>4 DEF RollForward, Exercisable
  <2>2. PICK s \in Unborn : cycle' = Opened(c, s, n)
    BY <1>4 DEF RollForward
  <2>3. s \in Session /\ cycle[s].status = "none" /\ s # x
    BY <2>1 DEF Unborn
  <2>4. c \in [Session -> CycleRec] /\ Unskipped(c) /\ Keeps(cycle, c)
    BY <1>0, <2>1, StatusSkip
  <2>5. c[s].status = "none"
    BY <2>3
  <2>6. n \in Nat /\ Follows(cycle, n)
    BY <2>1, NextNumber
  <2> HIDE DEF c, n
  <2>7. Follows(c, n)
    BY <2>4, <2>6, FollowsKept
  <2>8. cycle' \in [Session -> CycleRec] /\ Unskipped(cycle') /\ Keeps(c, cycle')
    BY <2>2, <2>3, <2>4, <2>5, <2>6, <2>7, OpenedSkip
  <2>9. \A t \in Session : cycle[t].status # "none" => c[t].status # "none"
    BY <2>1 DEF c
  <2>10. Keeps(cycle, cycle')
    BY <2>4, <2>8, <2>9 DEF Keeps
  <2> QED
    BY <2>8, <2>10
<1> QED
  BY <1>1, <1>2, <1>3, <1>4 DEF Applies

-----------------------------------------------------------------------------
(* What a step of a process does to the process.                           *)

ProcOK == proc \in [Process -> Proc]

LEMMA ProcBecomes ==
  ASSUME ProcOK, NEW p \in Process, NEW x \in Proc, proc' = [proc EXCEPT ![p] = x]
  PROVE  ProcOK' /\ proc'[p] = x /\ \A q \in Process \ {p} : proc'[q] = proc[q]
  BY DEF ProcOK

LEMMA IdleIsProc ==
  /\ Idle \in Proc /\ Idle.step = "idle" /\ Idle.sc = 0 /\ Idle.plan = {}
  /\ NoCid \in Cid
  BY DEF Idle, Proc, Step, NoCid, Cid, Status

\* A step of p: the others are left alone, and p carries no more than it did.
Moves(p) ==
  /\ ProcOK' /\ \A q \in Process \ {p} : proc'[q] = proc[q]
  /\ proc'[p].sc <= proc[p].sc
  /\ proc'[p].plan \subseteq proc[p].plan \union book

LEMMA EndsMoves ==
  ASSUME ProcOK, NEW p \in Process, Ends(p)
  PROVE  Moves(p) /\ proc'[p].step = "idle" /\ proc'[p].sc = 0 /\ proc'[p].plan = {}
<1>1. ProcOK' /\ proc'[p] = Idle /\ \A q \in Process \ {p} : proc'[q] = proc[q]
  BY IdleIsProc, ProcBecomes DEF Ends
<1>2. proc[p].sc \in Nat
  BY DEF ProcOK, Proc
<1> QED
  BY <1>1, <1>2, IdleIsProc DEF Moves

\* The steps that only note where the process stands.
LEMMA NoteMoves ==
  ASSUME ProcOK, NEW p \in Process, NEW x \in Proc, x.sc = proc[p].sc,
         x.plan \subseteq proc[p].plan \union book,
         proc' = [proc EXCEPT ![p] = x]
  PROVE  Moves(p) /\ proc'[p] = x
<1>1. ProcOK' /\ proc'[p] = x /\ \A q \in Process \ {p} : proc'[q] = proc[q]
  BY ProcBecomes
<1>2. proc[p].sc \in Nat
  BY DEF ProcOK, Proc
<1> QED
  BY <1>1, <1>2 DEF Moves

LEMMA StepMoves ==
  ASSUME ProcOK, NEW p \in Process, NEW s \in Step, proc' = [proc EXCEPT ![p].step = s]
  PROVE  Moves(p) /\ proc'[p].step = s
<1> DEFINE x == [proc[p] EXCEPT !.step = s]
<1>1. proc[p] \in Proc
  BY DEF ProcOK
<1>2. x \in Proc /\ x.step = s /\ x.sc = proc[p].sc /\ x.plan = proc[p].plan /\ proc' = [proc EXCEPT ![p] = x]
  BY <1>1 DEF Proc
<1> HIDE DEF x
<1> QED
  BY <1>2, NoteMoves

LEMMA CidMoves ==
  ASSUME ProcOK, NEW p \in Process, NEW s \in Step, NEW c \in Cid,
         proc' = [proc EXCEPT ![p].step = s, ![p].cid = c]
  PROVE  Moves(p) /\ proc'[p].step = s
<1> DEFINE x == [proc[p] EXCEPT !.step = s, !.cid = c]
<1>1. proc[p] \in Proc
  BY DEF ProcOK
<1>2. x \in Proc /\ x.step = s /\ x.sc = proc[p].sc /\ x.plan = proc[p].plan
  BY <1>1 DEF Proc
<1>3. proc' = [proc EXCEPT ![p] = x]
  OBVIOUS
<1> HIDE DEF x
<1> QED
  BY <1>2, <1>3, NoteMoves

LEMMA NumberMoves ==
  ASSUME ProcOK, NEW p \in Process, NEW s \in Step, NEW n \in Nat,
         proc' = [proc EXCEPT ![p].step = s, ![p].number = n]
  PROVE  Moves(p) /\ proc'[p].number = n
<1> DEFINE x == [proc[p] EXCEPT !.step = s, !.number = n]
<1>1. proc[p] \in Proc
  BY DEF ProcOK
<1>2. x \in Proc /\ x.number = n /\ x.sc = proc[p].sc /\ x.plan = proc[p].plan
  BY <1>1 DEF Proc
<1>3. proc' = [proc EXCEPT ![p] = x]
  OBVIOUS
<1> HIDE DEF x
<1> QED
  BY <1>2, <1>3, NoteMoves

LEMMA PlanMoves ==
  ASSUME ProcOK, NEW p \in Process, NEW s \in Step, NEW S \in SUBSET Obligation,
         S \subseteq book, proc' = [proc EXCEPT ![p].step = s, ![p].plan = S]
  PROVE  Moves(p) /\ proc'[p].step = s
<1> DEFINE x == [proc[p] EXCEPT !.step = s, !.plan = S]
<1>1. proc[p] \in Proc
  BY DEF ProcOK
<1>2. x \in Proc /\ x.step = s /\ x.sc = proc[p].sc /\ x.plan = S
  BY <1>1 DEF Proc
<1>3. proc' = [proc EXCEPT ![p] = x]
  OBVIOUS
<1> HIDE DEF x
<1> QED
  BY <1>2, <1>3, NoteMoves

LEMMA SeenCid ==
  ASSUME cycle \in [Session -> CycleRec], NEW cid \in CurrentCycle
  PROVE  /\ cid \in Cid
         /\ cid = NoCid \/ (cid.session \in Session /\ cid.status = cycle[cid.session].status
                             /\ cid.status \in Active)
<1>1. CASE cid = NoCid
  BY <1>1, IdleIsProc
<1>2. CASE cid # NoCid
  <2>1. PICK s \in Session : /\ cycle[s].status \in Active
                             /\ cid = [session |-> s, status |-> cycle[s].status]
    BY <1>2 DEF CurrentCycle
  <2>2. cid.session = s /\ cid.status = cycle[s].status /\ cycle[s].status \in Status
    BY <2>1 DEF Status
  <2>3. cid \in Cid
    BY <2>1, <2>2 DEF Cid
  <2> QED
    BY <2>1, <2>2, <2>3
<1> QED
  BY <1>1, <1>2

LEMMA GoOnMoves ==
  ASSUME ProcOK, NEW p \in Process, NEW cid \in Cid, GoOn(p, cid)
  PROVE  Moves(p) /\ proc'[p].step # "create"
<1>1. {"close", "settle"} \subseteq Step
  BY DEF Step
<1>2. CASE cid.status = "CycleOpen"
  BY <1>1, <1>2, CidMoves DEF GoOn
<1>3. CASE cid.status = "CycleClosed"
  BY <1>1, <1>3, StepMoves DEF GoOn
<1>4. CASE cid.status \notin {"CycleOpen", "CycleClosed"}
  BY <1>4, EndsMoves DEF GoOn
<1> QED
  BY <1>2, <1>3, <1>4

\* A step that changes nothing but the process, and gives only a number that may
\* follow.
Noted(p) ==
  Local /\ Moves(p) /\ (proc'[p].step = "create" => Follows(cycle, proc'[p].number))

LEMMA OpenNoted ==
  ASSUME TypeInv, Unskipped(cycle), NEW p \in Process, OpenCycle(p)
  PROVE  Noted(p)
<1>0. ProcOK /\ cycle \in [Session -> CycleRec] /\ Local /\ "create" \in Step
  BY DEF TypeInv, TypeOK, ProcOK, OpenCycle, Step
<1>1. PICK cid \in CurrentCycle :
        IF InProgress(cid) THEN IF proc[p].whole THEN GoOn(p, cid) ELSE Ends(p)
        ELSE proc' = [proc EXCEPT ![p].step = "create",
               ![p].number = IF cid = NoCid THEN 1 ELSE cycle[cid.session].number + 1]
  BY DEF OpenCycle
<1>2. cid \in Cid
  BY <1>0, SeenCid
<1>3. CASE InProgress(cid)
  BY <1>0, <1>1, <1>2, <1>3, GoOnMoves, EndsMoves DEF Noted
<1>4. CASE ~ InProgress(cid) /\ cid = NoCid
  <2>1. proc' = [proc EXCEPT ![p].step = "create", ![p].number = 1]
    BY <1>1, <1>4
  <2>2. Follows(cycle, 1)
    BY DEF Follows
  <2> QED
    BY <1>0, <2>1, <2>2, NumberMoves DEF Noted
<1>5. CASE ~ InProgress(cid) /\ cid # NoCid
  <2> DEFINE n == cycle[cid.session].number + 1
  <2>1. proc' = [proc EXCEPT ![p].step = "create", ![p].number = n]
    BY <1>1, <1>5
  <2>2. cid.session \in Session /\ cycle[cid.session].status = "CycleSettled"
    BY <1>0, <1>5, SeenCid DEF InProgress, Active
  <2>3. n \in Nat /\ Follows(cycle, n)
    BY <1>0, <2>2, NextNumber
  <2> HIDE DEF n
  <2> QED
    BY <1>0, <2>1, <2>3, NumberMoves DEF Noted
<1> QED
  BY <1>3, <1>4, <1>5

LEMMA BeginNoted ==
  ASSUME TypeInv, NEW p \in Process, Begin(p)
  PROVE  Noted(p)
<1>0. ProcOK /\ {"ensure", "open"} \subseteq Step
  BY DEF TypeInv, TypeOK, ProcOK, Step
<1>1. CASE proc' = [proc EXCEPT ![p].step = "ensure", ![p].whole = TRUE]
  <2> DEFINE x == [proc[p] EXCEPT !.step = "ensure", !.whole = TRUE]
  <2>1. proc[p] \in Proc
    BY <1>0 DEF ProcOK
  <2>2. x \in Proc /\ x.step = "ensure" /\ x.sc = proc[p].sc /\ x.plan = proc[p].plan
    BY <1>0, <2>1 DEF Proc
  <2>3. proc' = [proc EXCEPT ![p] = x]
    BY <1>1
  <2> HIDE DEF x
  <2> QED
    BY <1>0, <2>2, <2>3, NoteMoves DEF Noted, Begin
<1> QED
  BY <1>0, <1>1, StepMoves DEF Begin, Noted

LEMMA ReloadNoted ==
  ASSUME TypeInv, NEW p \in Process, NEW from, NEW s \in Step, s # "create", Reload(p, from, s)
  PROVE  Noted(p)
<1>0. ProcOK /\ cycle \in [Session -> CycleRec]
  BY DEF TypeInv, TypeOK, ProcOK
<1>1. PICK cid \in CurrentCycle :
        IF cid = NoCid THEN Ends(p) ELSE proc' = [proc EXCEPT ![p].step = s, ![p].cid = cid]
  BY DEF Reload
<1>2. cid \in Cid
  BY <1>0, SeenCid
<1> QED
  BY <1>0, <1>1, <1>2, CidMoves, EndsMoves DEF Noted, Reload

LEMMA OthersNoted ==
  ASSUME TypeInv, NEW p \in Process,
         Ensure(p) \/ AfterCreate(p) \/ AfterClose(p) \/ BeforeRecord(p) \/ BeforeRoll(p)
           \/ Done(p) \/ Crash(p)
  PROVE  Noted(p)
<1>0. ProcOK /\ cycle \in [Session -> CycleRec]
  BY DEF TypeInv, TypeOK, ProcOK
<1>1. CASE Ensure(p)
  <2>1. PICK cid \in CurrentCycle :
          IF InProgress(cid) THEN GoOn(p, cid) ELSE proc' = [proc EXCEPT ![p].step = "open"]
    BY <1>1 DEF Ensure
  <2>2. cid \in Cid /\ "open" \in Step
    BY <1>0, SeenCid DEF Step
  <2> QED
    BY <1>0, <1>1, <2>1, <2>2, GoOnMoves, StepMoves DEF Noted, Ensure
<1>2. CASE AfterCreate(p)
  <2>1. PICK cid \in CurrentCycle : IF proc[p].whole THEN GoOn(p, cid) ELSE Ends(p)
    BY <1>2 DEF AfterCreate
  <2>2. cid \in Cid
    BY <1>0, SeenCid
  <2> QED
    BY <1>0, <1>2, <2>1, <2>2, GoOnMoves, EndsMoves DEF Noted, AfterCreate
<1>3. CASE AfterClose(p)
  <2>1. proc' = [proc EXCEPT ![p].step = "settle"] \/ Ends(p)
    BY <1>3 DEF AfterClose
  <2>2. "settle" \in Step
    BY DEF Step
  <2> QED
    BY <1>0, <1>3, <2>1, <2>2, StepMoves, EndsMoves DEF Noted, AfterClose
<1>4. CASE BeforeRecord(p)
  <2>1. "record" \in Step
    BY DEF Step
  <2> QED
    BY <1>4, <2>1, ReloadNoted DEF BeforeRecord
<1>5. CASE BeforeRoll(p)
  <2>1. "roll" \in Step
    BY DEF Step
  <2> QED
    BY <1>5, <2>1, ReloadNoted DEF BeforeRoll
<1>6. CASE Done(p) \/ Crash(p)
  BY <1>0, <1>6, EndsMoves DEF Noted, Done, Crash
<1> QED
  BY <1>1, <1>2, <1>3, <1>4, <1>5, <1>6

\* A write: its command is applied, or may be later, or is lost; in any case the
\* process is left with nothing to report.
Wrote(p, cmd) ==
  /\ UNCHANGED <<book, closed, reported>>
  /\ cmd \in Command /\ cmd.sc = proc[p].sc
  /\ cmd.choice = "Create" => proc[p].step = "create" /\ cmd.number = proc[p].number
  /\ ProcOK' /\ \A q \in Process \ {p} : proc'[q] = proc[q]
  /\ proc'[p].sc = 0 /\ proc'[p].plan = {} /\ proc'[p].step # "create"
  /\ \/ Applies(cmd) /\ UNCHANGED late
     \/ UNCHANGED cycle /\ late' \in {late, late \union {cmd}}

LEMMA WriteShape ==
  ASSUME TypeInv, NEW p \in Process, NEW ch \in Choice, NEW s \in Step, s # "create",
         ch = "Create" => proc[p].step = "create", Write(p, Exercise(p, ch), s)
  PROVE  \E cmd \in Command : Wrote(p, cmd)
<1> DEFINE cmd == Exercise(p, ch)
           x == [Idle EXCEPT !.step = s, !.whole = proc[p].whole]
<1>0. ProcOK /\ proc[p] \in Proc
  BY DEF TypeInv, TypeOK, ProcOK
<1>1. /\ cmd \in Command /\ cmd.sc = proc[p].sc /\ cmd.choice = ch
      /\ cmd.number = proc[p].number
  BY <1>0 DEF Exercise, Command, Proc
<1>2. x \in Proc /\ x.sc = 0 /\ x.plan = {} /\ x.step = s
  BY <1>0, IdleIsProc DEF Proc, Idle
<1>3. proc' = [proc EXCEPT ![p] = x] \/ Ends(p)
  BY DEF Write
<1>4. /\ UNCHANGED <<book, closed, reported>>
      /\ \/ Applies(cmd) /\ UNCHANGED late
         \/ UNCHANGED cycle /\ late' \in {late, late \union {cmd}}
  BY DEF Write
<1> HIDE DEF cmd, x
<1>5. /\ ProcOK' /\ \A q \in Process \ {p} : proc'[q] = proc[q]
      /\ proc'[p].sc = 0 /\ proc'[p].plan = {} /\ proc'[p].step # "create"
  <2>1. CASE proc' = [proc EXCEPT ![p] = x]
    BY <1>0, <1>2, <2>1, ProcBecomes
  <2>2. CASE Ends(p)
    BY <1>0, <2>2, EndsMoves DEF Moves
  <2> QED
    BY <1>3, <2>1, <2>2
<1> QED
  BY <1>1, <1>4, <1>5 DEF Wrote

\* settle_real returns: what it reports has left the book.
Settled(p) ==
  \E n \in Nat :
    /\ reported' = reported + n /\ n <= Cardinality(closed')
    /\ closed \subseteq closed' /\ book' \union closed' = book \union closed
    /\ book' \intersect closed' = {}
    /\ UNCHANGED <<cycle, late>>
    /\ ProcOK' /\ \A q \in Process \ {p} : proc'[q] = proc[q]
    /\ proc'[p].sc = n /\ proc'[p].plan = {} /\ proc'[p].step = "reload"

\* What is closed is finite, and it only grows.
LEMMA FiniteClosed ==
  ASSUME NEW C \in SUBSET Obligation, NEW S, S \subseteq C
  PROVE  /\ IsFiniteSet(S) /\ Cardinality(S) \in Nat
         /\ Cardinality(C) \in Nat /\ Cardinality(S) <= Cardinality(C)
<1>1. IsFiniteSet(C)
  BY FiniteRail, FS_Subset
<1> QED
  BY <1>1, FS_Subset, FS_CardinalityType

LEMMA OutcomeShape ==
  ASSUME ProcOK, NEW p \in Process, NEW n \in Nat, Outcome(p, n)
  PROVE  /\ ProcOK' /\ \A q \in Process \ {p} : proc'[q] = proc[q]
         /\ proc'[p].sc = n /\ proc'[p].plan = {} /\ proc'[p].step = "reload"
         /\ reported' = reported + n
<1> DEFINE x == [proc[p] EXCEPT !.step = "reload", !.plan = {}, !.sc = n]
<1>1. proc[p] \in Proc /\ "reload" \in Step
  BY DEF ProcOK, Step
<1>2. x \in Proc /\ x.sc = n /\ x.plan = {} /\ x.step = "reload"
  BY <1>1 DEF Proc
<1>3. proc' = [proc EXCEPT ![p] = x] /\ reported' = reported + n
  BY DEF Outcome
<1> HIDE DEF x
<1> QED
  BY <1>2, <1>3, ProcBecomes

LEMMA PlanShape ==
  ASSUME TypeInv, NEW p \in Process, Plan(p)
  PROVE  Noted(p) \/ Settled(p)
<1>0. ProcOK /\ "net" \in Step /\ closed \in SUBSET Obligation /\ book \subseteq Obligation
  BY DEF TypeInv, TypeOK, ProcOK, Step
<1>1. ASSUME NEW S \in SUBSET book, proc' = [proc EXCEPT ![p].step = "net", ![p].plan = S],
             UNCHANGED reported
      PROVE  Noted(p)
  <2>1. UNCHANGED <<cycle, book, closed, late>> /\ S \in SUBSET Obligation
    BY <1>0 DEF Plan
  <2>2. Moves(p) /\ proc'[p].step = "net"
    BY <1>0, <1>1, <2>1, PlanMoves
  <2> QED
    BY <1>1, <2>1, <2>2 DEF Noted, Local
<1>2. ASSUME Outcome(p, 0) PROVE Settled(p)
  <2>1. UNCHANGED <<cycle, book, closed, late>> /\ book \intersect closed = {}
    BY DEF Plan, TypeInv, TypeOK
  <2>2. 0 <= Cardinality(closed)
    BY <1>0, FiniteClosed
  <2> QED
    BY <1>0, <1>2, <2>1, <2>2, OutcomeShape DEF Settled
<1> QED
  BY <1>1, <1>2 DEF Plan

LEMMA SettleShape ==
  ASSUME TypeInv, NEW p \in Process, Settle(p)
  PROVE  Settled(p)
<1> DEFINE S == proc[p].plan
<1>0. /\ ProcOK /\ S \subseteq book \union closed /\ book \intersect closed = {}
      /\ book \subseteq Obligation /\ closed \subseteq Obligation /\ UNCHANGED <<cycle, late>>
  BY DEF TypeInv, TypeOK, ProcOK, Settle
<1>1. \/ Nets(S) /\ (Outcome(p, Cardinality(S)) \/ Outcome(p, 0))
      \/ S \intersect book = {} /\ Outcome(p, Cardinality(S)) /\ UNCHANGED <<book, closed>>
      \/ Outcome(p, 0) /\ UNCHANGED <<book, closed>>
  BY DEF Settle
<1> HIDE DEF S
<1>2. /\ closed \subseteq closed' /\ book' \union closed' = book \union closed
      /\ book' \intersect closed' = {} /\ closed' \in SUBSET Obligation
  BY <1>0, <1>1 DEF Nets
<1>3. S \subseteq closed' => Cardinality(S) \in Nat /\ Cardinality(S) <= Cardinality(closed')
  BY <1>2, FiniteClosed
<1>4. 0 <= Cardinality(closed')
  BY <1>2, FiniteClosed
<1>5. ASSUME NEW n \in Nat, Outcome(p, n), n <= Cardinality(closed') PROVE Settled(p)
  BY <1>0, <1>2, <1>5, OutcomeShape DEF Settled
<1>6. CASE Outcome(p, 0)
  BY <1>4, <1>5, <1>6
<1>7. CASE Outcome(p, Cardinality(S)) /\ S \subseteq closed'
  BY <1>3, <1>5, <1>7
<1> QED
  BY <1>0, <1>1, <1>6, <1>7 DEF Nets

LEMMA ProcessStep ==
  ASSUME TypeInv, Unskipped(cycle), NEW p \in Process, Runs(p)
  PROVE  Noted(p) \/ Settled(p) \/ \E cmd \in Command : Wrote(p, cmd)
<1>0. {"opened", "closed", "recorded", "rolled"} \subseteq Step
      /\ {"Create", "CloseCycle", "RecordSettlement", "RollForward"} = Choice
  BY DEF Step, Choice
<1>1. CASE WriteCreate(p)
  BY <1>0, <1>1, WriteShape DEF WriteCreate, At
<1>2. CASE WriteClose(p)
  BY <1>0, <1>2, WriteShape DEF WriteClose
<1>3. CASE WriteRecord(p)
  BY <1>0, <1>3, WriteShape DEF WriteRecord
<1>4. CASE WriteRoll(p)
  BY <1>0, <1>4, WriteShape DEF WriteRoll
<1> QED
  BY <1>1, <1>2, <1>3, <1>4, BeginNoted, OpenNoted, OthersNoted, PlanShape,
     SettleShape DEF Runs

-----------------------------------------------------------------------------
(* Sums of counts.                                                         *)

\* The sum as the property states it.
LEMMA CountsAreSum ==
  ASSUME NEW c, NEW S, IsFiniteSet(S)
  PROVE  MapThenSumSet(LAMBDA s : c[s].settledCount, S)
           = SumFunctionOnSet([s \in S |-> c[s].settledCount], S)
<1> DEFINE f == [s \in S |-> c[s].settledCount]
           P(g) == g = [T \in SUBSET S |->
                         IF T = {} THEN 0 ELSE c[Pick(T)].settledCount + g[T \ {Pick(T)}]]
           h == CHOOSE g : P(g)
<1>1. MapThenSumSet(LAMBDA s : c[s].settledCount, S) = h[S]
  BY DEF MapThenSumSet, MapThenFoldSet, Pick
<1>2. \A T \in SUBSET S : T # {} => f[Pick(T)] = c[Pick(T)].settledCount
  BY PickIn
<1> HIDE DEF f
<1>3. \A g : P(g) <=> IsSum(f, g, S)
  BY <1>2 DEF IsSum
<1>4. \E g : P(g)
  BY <1>3, SumExists
<1>5. P(h)
  BY <1>4
<1> HIDE DEF h, P
<1>6. PICK g : IsSum(f, g, S) /\ \A T \in SUBSET S : SumFunctionOnSet(f, T) = g[T]
  BY SumChosen
<1>7. h = g
  BY <1>3, <1>5, <1>6, SumUnique
<1> QED
  BY <1>1, <1>6, <1>7 DEF f

LEMMA ReportedNat ==
  ASSUME NEW c \in [Session -> CycleRec]
  PROVE  Reported(c) \in Nat
<1>1. \A s \in Session : [t \in Session |-> c[t].settledCount][s] \in Nat
  BY DEF CycleRec
<1> QED
  BY <1>1, FiniteRail, SumNat DEF Reported

LEMMA ReportedSame ==
  ASSUME NEW c \in [Session -> CycleRec], NEW d \in [Session -> CycleRec],
         \A s \in Session : d[s].settledCount = c[s].settledCount
  PROVE  Reported(d) = Reported(c)
<1>1. [s \in Session |-> d[s].settledCount] = [s \in Session |-> c[s].settledCount]
  OBVIOUS
<1> QED
  BY <1>1 DEF Reported

LEMMA ReportedChange ==
  ASSUME NEW c \in [Session -> CycleRec], NEW d \in [Session -> CycleRec],
         NEW s \in Session, NEW n \in Nat,
         \A t \in Session : d[t].settledCount = IF t = s THEN n ELSE c[t].settledCount
  PROVE  Reported(d) <= Reported(c) + n
<1> DEFINE f == [t \in Session |-> c[t].settledCount]
           h == [t \in Session |-> d[t].settledCount]
<1>1. \A t \in Session : f[t] \in Nat /\ h[t] \in Nat
  BY DEF CycleRec
<1>2. h[s] = n /\ \A t \in Session \ {s} : h[t] = f[t]
  OBVIOUS
<1>3. Reported(c) = SumFunctionOnSet(f, Session) /\ Reported(d) = SumFunctionOnSet(h, Session)
  BY DEF Reported
<1> HIDE DEF f, h
<1>4. SumFunctionOnSet(h, Session) = SumFunctionOnSet(f, Session) - f[s] + h[s]
  <2>1. IsFiniteSet(Session) /\ \A t \in Session : f[t] \in Int /\ h[t] \in Int
    BY <1>1, FiniteRail
  <2>2. \A t \in Session \ {s} : h[t] = f[t]
    BY <1>2
  <2> QED
    BY <2>1, <2>2, SumChange
<1>5. SumFunctionOnSet(f, Session) \in Nat
  BY <1>3, ReportedNat
<1> QED
  BY <1>1, <1>2, <1>3, <1>4, <1>5

LEMMA CarriedNat ==
  ASSUME NEW q \in [Process -> Proc]
  PROVE  Carried(q) \in Nat
<1>1. \A p \in Process : [r \in Process |-> q[r].sc][p] \in Nat
  BY DEF Proc
<1> QED
  BY <1>1, FiniteRail, SumNat DEF Carried

LEMMA CarriedChange ==
  ASSUME NEW q \in [Process -> Proc], NEW r \in [Process -> Proc], NEW p \in Process,
         \A o \in Process \ {p} : r[o] = q[o]
  PROVE  Carried(r) = Carried(q) - q[p].sc + r[p].sc
<1> DEFINE f == [o \in Process |-> q[o].sc]
           h == [o \in Process |-> r[o].sc]
<1>1. \A o \in Process : f[o] \in Int /\ h[o] \in Int
  BY DEF Proc
<1>2. f[p] = q[p].sc /\ h[p] = r[p].sc /\ \A o \in Process \ {p} : h[o] = f[o]
  OBVIOUS
<1>3. Carried(q) = SumFunctionOnSet(f, Process) /\ Carried(r) = SumFunctionOnSet(h, Process)
  BY DEF Carried
<1> HIDE DEF f, h
<1>4. SumFunctionOnSet(h, Process) = SumFunctionOnSet(f, Process) - f[p] + h[p]
  <2>1. IsFiniteSet(Process)
    BY FiniteRail
  <2>2. \A o \in Process \ {p} : h[o] = f[o]
    BY <1>2
  <2> QED
    BY <1>1, <2>1, <2>2, SumChange
<1> QED
  BY <1>2, <1>3, <1>4

LEMMA OutstandingNat ==
  ASSUME NEW L \in SUBSET Command, IsFiniteSet(L)
  PROVE  Outstanding(L) \in Nat
<1> DEFINE f == [cmd \in Command |-> cmd.sc]
<1>1. \A cmd \in L : f[cmd] \in Nat
  BY CommandCid
<1> HIDE DEF f
<1>2. SumFunctionOnSet(f, L) \in Nat
  BY <1>1, SumNat
<1> QED
  BY <1>2 DEF Outstanding, f

LEMMA OutstandingLess ==
  ASSUME NEW L \in SUBSET Command, IsFiniteSet(L), NEW cmd \in L
  PROVE  /\ IsFiniteSet(L \ {cmd}) /\ Outstanding(L \ {cmd}) \in Nat
         /\ Outstanding(L) = cmd.sc + Outstanding(L \ {cmd})
<1> DEFINE f == [c \in Command |-> c.sc]
<1>1. \A c \in L : f[c] \in Int
  BY CommandCid
<1>2. f[cmd] = cmd.sc
  OBVIOUS
<1> HIDE DEF f
<1>3. SumFunctionOnSet(f, L) = f[cmd] + SumFunctionOnSet(f, L \ {cmd})
  BY <1>1, SumRemove
<1>4. IsFiniteSet(L \ {cmd}) /\ L \ {cmd} \in SUBSET Command
  BY FS_RemoveElement
<1> QED
  BY <1>2, <1>3, <1>4, OutstandingNat DEF Outstanding, f

LEMMA OutstandingMore ==
  ASSUME NEW L \in SUBSET Command, IsFiniteSet(L), NEW cmd \in Command
  PROVE  /\ IsFiniteSet(L \union {cmd}) /\ Outstanding(L \union {cmd}) \in Nat
         /\ Outstanding(L \union {cmd}) <= Outstanding(L) + cmd.sc
<1>0. cmd.sc \in Nat /\ Outstanding(L) \in Nat
  BY CommandCid, OutstandingNat
<1>1. IsFiniteSet(L \union {cmd}) /\ L \union {cmd} \in SUBSET Command
  BY FS_AddElement
<1>2. CASE cmd \in L
  <2>1. L \union {cmd} = L
    BY <1>2
  <2> QED
    BY <1>0, <1>1, <2>1
<1>3. CASE cmd \notin L
  <2>1. (L \union {cmd}) \ {cmd} = L
    BY <1>3
  <2>2. Outstanding(L \union {cmd}) = cmd.sc + Outstanding(L)
    BY <1>1, <2>1, OutstandingLess
  <2> QED
    BY <1>0, <1>1, <2>2
<1> QED
  BY <1>2, <1>3

\* A command reports no more than it carries.
LEMMA AppliesCount ==
  ASSUME cycle \in [Session -> CycleRec], NEW cmd \in Command, Applies(cmd)
  PROVE  /\ cycle' \in [Session -> CycleRec] /\ Reported(cycle') <= Reported(cycle) + cmd.sc
         /\ \A s \in Session : cycle'[s].settledCount \in {cycle[s].settledCount, cmd.sc}
<1> DEFINE x == cmd.cid.session
<1>0. /\ cmd.number \in Nat /\ cmd.sc \in Nat /\ {"CycleClosed", "rolled"} \subseteq Status
      /\ Reported(cycle) \in Nat
  BY CommandCid, ReportedNat DEF Status, Active
<1>1. CASE CreateCycle(cmd)
  <2>1. PICK s \in Session : cycle' = Opened(cycle, s, cmd.number)
    BY <1>1 DEF CreateCycle, Unborn
  <2>2. /\ cycle' \in [Session -> CycleRec]
        /\ \A t \in Session : cycle'[t].settledCount = cycle[t].settledCount
    BY <1>0, <2>1, OpenedSession
  <2> QED
    BY <1>0, <2>2, ReportedSame
<1>2. CASE CloseCycle(cmd)
  <2>1. x \in Session /\ cycle' = [cycle EXCEPT ![x].status = "CycleClosed"]
    BY <1>2 DEF CloseCycle, Exercisable
  <2>2. /\ cycle' \in [Session -> CycleRec]
        /\ \A t \in Session : cycle'[t].settledCount = cycle[t].settledCount
    BY <1>0, <2>1, StatusChange
  <2> QED
    BY <1>0, <2>2, ReportedSame
<1>3. CASE RecordSettlement(cmd)
  <2>1. x \in Session /\ cycle' = WithRecord(cycle, x, cmd.sc)
    BY <1>3 DEF RecordSettlement, Exercisable, WithRecord
  <2>2. /\ cycle' \in [Session -> CycleRec]
        /\ \A t \in Session :
             cycle'[t].settledCount = IF t = x THEN cmd.sc ELSE cycle[t].settledCount
    <3> QED
      BY <1>0, <2>1, RecordedSession
  <2> QED
    BY <1>0, <2>1, <2>2, ReportedChange
<1>4. CASE RollForward(cmd)
  <2> DEFINE c == [cycle EXCEPT ![x].status = "rolled"]
             n == cycle[x].number + 1
  <2>1. x \in Session
    BY <1>4 DEF RollForward, Exercisable
  <2>2. PICK s \in Session : cycle' = Opened(c, s, n)
    BY <1>4 DEF RollForward, Unborn
  <2>3. n \in Nat
    BY <2>1 DEF CycleRec
  <2>4. /\ c \in [Session -> CycleRec]
        /\ \A t \in Session : c[t].settledCount = cycle[t].settledCount
    BY <1>0, <2>1, StatusChange
  <2> HIDE DEF c, n
  <2>5. /\ cycle' \in [Session -> CycleRec]
        /\ \A t \in Session : cycle'[t].settledCount = c[t].settledCount
    BY <2>2, <2>3, <2>4, OpenedSession
  <2> QED
    BY <1>0, <2>4, <2>5, ReportedSame
<1> QED
  BY <1>1, <1>2, <1>3, <1>4 DEF Applies

-----------------------------------------------------------------------------
(* The invariants are inductive.                                           *)

LEMMA InitInvs == Init => SkipInv /\ CountInv /\ ClosedInv
<1> SUFFICES ASSUME Init PROVE SkipInv /\ CountInv /\ ClosedInv
  OBVIOUS
<1>1. TypeInv
  <2>1. cycle \in [Session -> CycleRec]
    BY DEF Init, CycleRec, Status
  <2> QED
    BY <2>1, IdleIsProc DEF Init, TypeInv, TypeOK
<1>2. Unskipped(cycle)
  BY DEF Init, Unskipped, Follows
<1>3. SkipInv
  BY <1>1, <1>2, IdleIsProc DEF Init, SkipInv
<1>4. CountInv
  <2>1. Reported(cycle) = 0
    <3>1. \A s \in Session : [t \in Session |-> cycle[t].settledCount][s] = 0
      BY DEF Init
    <3> QED
      BY <3>1, FiniteRail, SumZero DEF Reported
  <2>2. Carried(proc) = 0
    <3>1. \A p \in Process : [q \in Process |-> proc[q].sc][p] = 0
      BY IdleIsProc DEF Init
    <3> QED
      BY <3>1, FiniteRail, SumZero DEF Carried
  <2>3. Outstanding(late) = 0 /\ IsFiniteSet(late)
    BY SumEmpty, FS_EmptySet DEF Init, Outstanding
  <2> QED
    BY <1>1, <2>1, <2>2, <2>3 DEF Init, CountInv
<1>5. ClosedInv
  <2>1. Cardinality(closed) = 0
    BY FS_EmptySet DEF Init
  <2> QED
    BY <2>1, IdleIsProc DEF Init, ClosedInv
<1> QED
  BY <1>3, <1>4, <1>5

\* The steps that leave book and processes alone.
LEMMA TypeOfOthers ==
  ASSUME TypeInv, cycle' \in [Session -> CycleRec], late' \subseteq Command,
         UNCHANGED <<book, closed, reported>>, ProcOK',
         \A p \in Process : proc'[p].plan \subseteq proc[p].plan \union book
  PROVE  TypeInv'
  BY DEF TypeInv, TypeOK, ProcOK

LEMMA CancelEffect ==
  ASSUME TypeInv, NEW s \in Session, CancelCycle(s)
  PROVE  /\ TypeInv' /\ UNCHANGED <<closed, reported, late, proc>>
         /\ \A t \in Session : cycle'[t].settledCount = cycle[t].settledCount
         /\ Unskipped(cycle) => Unskipped(cycle') /\ Keeps(cycle, cycle')
<1>1. cycle \in [Session -> CycleRec] /\ "cancelled" \in Status
  BY DEF TypeInv, TypeOK, Status
<1>2. cycle' = [cycle EXCEPT ![s].status = "cancelled"] /\ cycle[s].status # "none"
  BY DEF CancelCycle, Active
<1>3. /\ cycle' \in [Session -> CycleRec]
      /\ \A t \in Session : cycle'[t].settledCount = cycle[t].settledCount
  BY <1>1, <1>2, StatusChange
<1>4. Unskipped(cycle) => Unskipped(cycle') /\ Keeps(cycle, cycle')
  BY <1>1, <1>2, StatusSkip
<1>5. TypeInv'
  BY <1>3 DEF TypeInv, TypeOK, CancelCycle
<1> QED
  BY <1>3, <1>4, <1>5 DEF CancelCycle

LEMMA BookChange ==
  ASSUME TypeInv, Accrue \/ Leave
  PROVE  TypeInv' /\ UNCHANGED <<cycle, reported, late, proc>> /\ closed \subseteq closed'
  BY DEF TypeInv, TypeOK, Accrue, Leave

LEMMA SettledType ==
  ASSUME TypeInv, NEW p \in Process, Settled(p)
  PROVE  TypeInv'
  BY DEF TypeInv, TypeOK, Settled, ProcOK

LEMMA SkipStep == SkipInv /\ [Next]_vars => SkipInv'
<1> SUFFICES ASSUME SkipInv, [Next]_vars PROVE SkipInv'
  OBVIOUS
<1>0. /\ TypeInv /\ ProcOK /\ Unskipped(cycle) /\ cycle \in [Session -> CycleRec]
      /\ late \subseteq Command
  BY DEF SkipInv, TypeInv, TypeOK, ProcOK
\* What could be numbered before still can.
<1>a. ASSUME cycle' \in [Session -> CycleRec], Keeps(cycle, cycle'), NEW n \in Nat,
             Follows(cycle, n)
      PROVE  Follows(cycle', n)
  BY <1>0, <1>a, FollowsKept
<1>b. ASSUME cycle' \in [Session -> CycleRec], Keeps(cycle, cycle'),
             NEW L \in SUBSET Command, L \subseteq late
      PROVE  \A c \in L : c.choice = "Create" => Follows(cycle', c.number)
  BY <1>a, <1>b, CommandCid DEF SkipInv
<1>c. ASSUME cycle' \in [Session -> CycleRec], Keeps(cycle, cycle'),
             NEW p \in Process, proc'[p] = proc[p]
      PROVE  proc'[p].step = "create" => Follows(cycle', proc'[p].number)
  <2>1. proc[p].number \in Nat
    BY <1>0 DEF ProcOK, Proc
  <2> QED
    BY <1>a, <1>c, <2>1 DEF SkipInv
<1>d. Keeps(cycle, cycle)
  BY DEF Keeps
<1>1. CASE UNCHANGED vars
  BY <1>1 DEF SkipInv, TypeInv, TypeOK, vars
<1>2. CASE Accrue \/ Leave
  BY <1>0, <1>2, BookChange DEF SkipInv
<1>3. ASSUME NEW s \in Session, CancelCycle(s)
      PROVE  SkipInv'
  <2>1. TypeInv' /\ UNCHANGED <<late, proc>> /\ Unskipped(cycle') /\ Keeps(cycle, cycle')
    BY <1>0, <1>3, CancelEffect
  <2>2. cycle' \in [Session -> CycleRec]
    BY <2>1 DEF TypeInv, TypeOK
  <2> QED
    BY <1>0, <1>b, <1>c, <2>1, <2>2 DEF SkipInv
<1>4. CASE CommitLate
  <2>1. PICK cmd \in late : Applies(cmd) /\ late' = late \ {cmd}
    BY <1>4 DEF CommitLate
  <2>2. cmd \in Command /\ (cmd.choice = "Create" => Follows(cycle, cmd.number))
    BY <1>0 DEF SkipInv
  <2>3. cycle' \in [Session -> CycleRec] /\ Unskipped(cycle') /\ Keeps(cycle, cycle')
    BY <1>0, <2>1, <2>2, AppliesSkip
  <2>4. UNCHANGED <<book, closed, reported, proc>> /\ late' \subseteq late /\ late' \in SUBSET Command
    BY <1>0, <1>4, <2>1 DEF CommitLate
  <2>5. TypeInv'
    BY <1>0, <2>3, <2>4, TypeOfOthers DEF ProcOK
  <2> QED
    BY <1>b, <1>c, <2>3, <2>4, <2>5 DEF SkipInv
<1>5. ASSUME NEW p \in Process, Noted(p)
      PROVE  SkipInv'
  <2>1. TypeInv'
    BY <1>0, <1>5 DEF TypeInv, TypeOK, Noted, Moves, Local, ProcOK
  <2>2. ASSUME NEW q \in Process
        PROVE  proc'[q].step = "create" => Follows(cycle', proc'[q].number)
    <3>1. CASE q = p
      BY <1>5, <3>1 DEF Noted, Local
    <3>2. CASE q # p
      BY <1>0, <1>5, <1>c, <1>d, <3>2 DEF Noted, Local, Moves
    <3> QED
      BY <3>1, <3>2
  <2> QED
    BY <1>5, <2>1, <2>2 DEF SkipInv, Noted, Local
<1>6. ASSUME NEW p \in Process, Settled(p)
      PROVE  SkipInv'
  <2>1. TypeInv'
    BY <1>0, <1>6, SettledType
  <2>2. ASSUME NEW q \in Process
        PROVE  proc'[q].step = "create" => Follows(cycle', proc'[q].number)
    <3>1. CASE q = p
      BY <1>6, <3>1 DEF Settled
    <3>2. CASE q # p
      BY <1>0, <1>6, <1>c, <1>d, <3>2 DEF Settled
    <3> QED
      BY <3>1, <3>2
  <2> QED
    BY <1>6, <2>1, <2>2 DEF SkipInv, Settled
<1>7. ASSUME NEW p \in Process, NEW cmd \in Command, Wrote(p, cmd)
      PROVE  SkipInv'
  <2>1. cmd.choice = "Create" => Follows(cycle, cmd.number)
    BY <1>7 DEF Wrote, SkipInv
  <2>2. cycle' \in [Session -> CycleRec] /\ Unskipped(cycle') /\ Keeps(cycle, cycle')
    BY <1>0, <1>7, <1>d, <2>1, AppliesSkip DEF Wrote
  <2>3. late' \subseteq late \union {cmd} /\ late' \subseteq Command
    BY <1>0, <1>7 DEF Wrote
  <2>4. TypeInv'
    BY <1>0, <1>7, <2>2, <2>3, TypeOfOthers DEF Wrote
  <2>5. ASSUME NEW q \in Process
        PROVE  proc'[q].step = "create" => Follows(cycle', proc'[q].number)
    <3>1. CASE q = p
      BY <1>7, <3>1 DEF Wrote
    <3>2. CASE q # p
      BY <1>7, <1>c, <2>2, <3>2 DEF Wrote
    <3> QED
      BY <3>1, <3>2
  <2>6. ASSUME NEW c \in late', c.choice = "Create"
        PROVE  Follows(cycle', c.number)
    <3>1. c \in Command /\ c.number \in Nat /\ Follows(cycle, c.number)
      BY <2>1, <2>3, <2>6, CommandCid DEF SkipInv
    <3> QED
      BY <1>a, <2>2, <3>1
  <2> QED
    BY <2>2, <2>4, <2>5, <2>6 DEF SkipInv
<1> QED
  BY <1>0, <1>1, <1>2, <1>3, <1>4, <1>5, <1>6, <1>7, ProcessStep DEF Next

LEMMA CountStep == SkipInv /\ CountInv /\ [Next]_vars => CountInv'
<1> SUFFICES ASSUME SkipInv, CountInv, [Next]_vars PROVE CountInv'
  OBVIOUS
<1>0. /\ TypeInv /\ TypeInv' /\ ProcOK /\ Unskipped(cycle) /\ late \subseteq Command
      /\ IsFiniteSet(late)
  BY SkipStep DEF SkipInv, TypeInv, TypeOK, ProcOK, CountInv
<1>1. /\ cycle \in [Session -> CycleRec] /\ cycle' \in [Session -> CycleRec]
      /\ proc \in [Process -> Proc] /\ proc' \in [Process -> Proc]
      /\ reported \in Nat /\ reported' \in Nat
  BY <1>0 DEF TypeInv, TypeOK
<1>2. /\ Reported(cycle) \in Nat /\ Carried(proc) \in Nat /\ Outstanding(late) \in Nat
      /\ Reported(cycle') \in Nat /\ Carried(proc') \in Nat
      /\ Reported(cycle) + Carried(proc) + Outstanding(late) <= reported
  BY <1>0, <1>1, ReportedNat, CarriedNat, OutstandingNat DEF CountInv
<1>a. \A p \in Process : proc[p].sc \in Nat /\ proc'[p].sc \in Nat
  BY <1>1 DEF Proc
<1>3. ASSUME \A s \in Session : cycle'[s].settledCount = cycle[s].settledCount,
             UNCHANGED <<reported, late, proc>>
      PROVE  CountInv'
  <2>1. Reported(cycle') = Reported(cycle)
    BY <1>1, <1>3, ReportedSame
  <2> QED
    BY <1>0, <1>3, <2>1 DEF CountInv
<1>4. CASE UNCHANGED vars \/ Accrue \/ Leave \/ \E s \in Session : CancelCycle(s)
  BY <1>0, <1>3, <1>4, BookChange, CancelEffect DEF vars
<1>5. CASE CommitLate
  <2>1. PICK cmd \in late : Applies(cmd) /\ late' = late \ {cmd}
    BY <1>5 DEF CommitLate
  <2>2. UNCHANGED <<reported, proc>> /\ cmd \in Command
    BY <1>0, <1>5 DEF CommitLate
  <2>3. Reported(cycle') <= Reported(cycle) + cmd.sc
    BY <1>1, <2>1, <2>2, AppliesCount
  <2>4. /\ IsFiniteSet(late') /\ Outstanding(late') \in Nat
        /\ Outstanding(late) = cmd.sc + Outstanding(late')
    BY <1>0, <2>1, OutstandingLess
  <2>5. cmd.sc \in Nat
    BY <2>2, CommandCid
  <2>6. Carried(proc') = Carried(proc) /\ reported' = reported
    BY <2>2
  <2>7. Reported(cycle') + Carried(proc') + Outstanding(late') <= reported'
    BY <1>1, <1>2, <2>3, <2>4, <2>5, <2>6
  <2> QED
    BY <1>0, <2>4, <2>7 DEF CountInv
<1>6. ASSUME NEW p \in Process, Noted(p)
      PROVE  CountInv'
  <2>1. Carried(proc') = Carried(proc) - proc[p].sc + proc'[p].sc
    BY <1>1, <1>6, CarriedChange DEF Noted, Moves
  <2>2. UNCHANGED <<cycle, reported, late>> /\ proc'[p].sc <= proc[p].sc
    BY <1>6 DEF Noted, Local, Moves
  <2>3. Carried(proc') <= Carried(proc)
    BY <1>2, <1>a, <2>1, <2>2
  <2>4. Reported(cycle') = Reported(cycle) /\ Outstanding(late') = Outstanding(late)
    BY <2>2
  <2>5. Reported(cycle') + Carried(proc') + Outstanding(late') <= reported'
    BY <1>1, <1>2, <2>2, <2>3, <2>4
  <2> QED
    BY <1>0, <2>2, <2>5 DEF CountInv
<1>7. ASSUME NEW p \in Process, Settled(p)
      PROVE  CountInv'
  <2>1. PICK n \in Nat : reported' = reported + n /\ proc'[p].sc = n
    BY <1>7 DEF Settled
  <2>2. Carried(proc') = Carried(proc) - proc[p].sc + proc'[p].sc
    BY <1>1, <1>7, CarriedChange DEF Settled
  <2>3. UNCHANGED <<cycle, late>>
    BY <1>7 DEF Settled
  <2>4. Carried(proc') <= Carried(proc) + n
    BY <1>2, <1>a, <2>1, <2>2
  <2>5. Reported(cycle') = Reported(cycle) /\ Outstanding(late') = Outstanding(late)
    BY <2>3
  <2>6. Reported(cycle') + Carried(proc') + Outstanding(late') <= reported'
    BY <1>1, <1>2, <2>1, <2>4, <2>5
  <2> QED
    BY <1>0, <2>3, <2>6 DEF CountInv
<1>8. ASSUME NEW p \in Process, NEW cmd \in Command, Wrote(p, cmd)
      PROVE  CountInv'
  <2>1. /\ Carried(proc') = Carried(proc) - proc[p].sc + proc'[p].sc
        /\ proc'[p].sc = 0 /\ cmd.sc = proc[p].sc /\ reported' = reported
    BY <1>1, <1>8, CarriedChange DEF Wrote
  <2>2. cmd.sc \in Nat /\ Carried(proc') + cmd.sc = Carried(proc)
    BY <1>2, <1>a, <2>1
  <2>3. CASE Applies(cmd) /\ UNCHANGED late
    <3>1. Reported(cycle') <= Reported(cycle) + cmd.sc
      BY <1>1, <2>3, AppliesCount
    <3>2. Outstanding(late') = Outstanding(late)
      BY <2>3
    <3>3. Reported(cycle') + Carried(proc') + Outstanding(late') <= reported'
      BY <1>1, <1>2, <2>1, <2>2, <3>1, <3>2
    <3> QED
      BY <1>0, <2>3, <3>3 DEF CountInv
  <2>4. CASE UNCHANGED cycle /\ late' = late
    <3>1. Reported(cycle') = Reported(cycle) /\ Outstanding(late') = Outstanding(late)
      BY <2>4
    <3>2. Reported(cycle') + Carried(proc') + Outstanding(late') <= reported'
      BY <1>1, <1>2, <2>1, <2>2, <3>1
    <3> QED
      BY <1>0, <2>4, <3>2 DEF CountInv
  <2>5. CASE UNCHANGED cycle /\ late' = late \union {cmd}
    <3>1. /\ IsFiniteSet(late') /\ Outstanding(late') \in Nat
          /\ Outstanding(late') <= Outstanding(late) + cmd.sc
      BY <1>0, <2>5, OutstandingMore
    <3>2. Reported(cycle') = Reported(cycle)
      BY <2>5
    <3>3. Reported(cycle') + Carried(proc') + Outstanding(late') <= reported'
      BY <1>1, <1>2, <2>1, <2>2, <3>1, <3>2
    <3> QED
      BY <1>0, <3>1, <3>3 DEF CountInv
  <2> QED
    BY <1>8, <2>3, <2>4, <2>5 DEF Wrote
<1> QED
  BY <1>0, <1>4, <1>5, <1>6, <1>7, <1>8, ProcessStep DEF Next

\* Counts that were covered still are when more has closed.
LEMMA CoveredStays ==
  ASSUME TypeInv, TypeInv', closed \subseteq closed', NEW n \in Nat, n <= Cardinality(closed)
  PROVE  n <= Cardinality(closed')
<1>1. closed' \in SUBSET Obligation
  BY DEF TypeInv, TypeOK
<1>2. Cardinality(closed) \in Nat /\ Cardinality(closed') \in Nat
      /\ Cardinality(closed) <= Cardinality(closed')
  BY <1>1, FiniteClosed
<1> QED
  BY <1>2

LEMMA ClosedStep == SkipInv /\ ClosedInv /\ [Next]_vars => ClosedInv'
<1> SUFFICES ASSUME SkipInv, ClosedInv, [Next]_vars PROVE ClosedInv'
  OBVIOUS
<1>0. /\ TypeInv /\ TypeInv' /\ Unskipped(cycle)
      /\ cycle \in [Session -> CycleRec] /\ proc \in [Process -> Proc] /\ late \subseteq Command
      /\ proc' \in [Process -> Proc]
  BY SkipStep DEF SkipInv, TypeInv, TypeOK
<1>1. /\ \A s \in Session : cycle[s].settledCount \in Nat
      /\ \A p \in Process : proc[p].sc \in Nat /\ proc'[p].sc \in Nat
      /\ \A cmd \in late : cmd.sc \in Nat
  BY <1>0, CommandCid DEF CycleRec, Proc
<1> DEFINE K(n) == n \in Nat /\ n <= Cardinality(closed)
           K1(n) == n <= Cardinality(closed')
<1>2. /\ \A s \in Session : K(cycle[s].settledCount)
      /\ \A p \in Process : K(proc[p].sc)
      /\ \A cmd \in late : K(cmd.sc)
  BY <1>1 DEF ClosedInv
<1>3. ASSUME closed \subseteq closed', NEW n, K(n) PROVE K1(n)
  BY <1>0, <1>3, CoveredStays
<1>4. SUFFICES /\ \A s \in Session : K1(cycle'[s].settledCount)
               /\ \A p \in Process : K1(proc'[p].sc)
               /\ \A cmd \in late' : K1(cmd.sc)
  BY DEF ClosedInv
<1>5. CASE closed \subseteq closed' /\ UNCHANGED <<late, proc>>
           /\ \A s \in Session : cycle'[s].settledCount = cycle[s].settledCount
  BY ONLY <1>2, <1>3, <1>5
<1>6. CASE UNCHANGED vars \/ Accrue \/ Leave \/ \E s \in Session : CancelCycle(s)
  BY <1>0, <1>5, <1>6, BookChange, CancelEffect DEF vars
<1>7. CASE CommitLate
  <2>1. PICK cmd \in late : Applies(cmd) /\ late' = late \ {cmd} /\ UNCHANGED <<closed, proc>>
    BY <1>7 DEF CommitLate
  <2>2. \A s \in Session : cycle'[s].settledCount \in {cycle[s].settledCount, cmd.sc}
    BY <1>0, <2>1, AppliesCount
  <2> QED
    BY ONLY <1>2, <1>3, <2>1, <2>2
<1>8. ASSUME NEW p \in Process, Noted(p) PROVE ClosedInv'
  <2>1. /\ UNCHANGED <<cycle, closed, late>> /\ proc'[p].sc <= proc[p].sc
        /\ \A q \in Process \ {p} : proc'[q] = proc[q]
    BY <1>8 DEF Noted, Local, Moves
  <2>2. Cardinality(closed) \in Nat
    BY <1>0, FiniteClosed DEF TypeInv, TypeOK
  <2>3. K(proc'[p].sc)
    BY <1>1, <1>2, <2>1, <2>2
  <2>4. \A q \in Process : K(proc'[q].sc)
    BY ONLY <1>2, <2>1, <2>3
  <2> QED
    BY ONLY <1>2, <1>3, <2>1, <2>4 DEF ClosedInv
<1>9. ASSUME NEW p \in Process, Settled(p) PROVE ClosedInv'
  <2>1. PICK n \in Nat :
          /\ n <= Cardinality(closed') /\ closed \subseteq closed' /\ UNCHANGED <<cycle, late>>
          /\ proc'[p].sc = n /\ \A q \in Process \ {p} : proc'[q] = proc[q]
    BY <1>9 DEF Settled
  <2>2. \A q \in Process : K1(proc'[q].sc)
    BY ONLY <1>2, <1>3, <2>1
  <2> QED
    BY ONLY <1>2, <1>3, <2>1, <2>2 DEF ClosedInv
<1>10. ASSUME NEW p \in Process, NEW cmd \in Command, Wrote(p, cmd) PROVE ClosedInv'
  <2>1. /\ closed' = closed /\ cmd.sc = proc[p].sc /\ proc'[p].sc = 0
        /\ \A q \in Process \ {p} : proc'[q] = proc[q]
        /\ \/ Applies(cmd) /\ UNCHANGED late
           \/ UNCHANGED cycle /\ late' \subseteq late \union {cmd}
    BY <1>10 DEF Wrote
  <2>2. K(cmd.sc) /\ K(0)
    <3>1. Cardinality(closed) \in Nat
      BY <1>0, FiniteClosed DEF TypeInv, TypeOK
    <3> QED
      BY <1>2, <2>1, <3>1
  <2>3. \A s \in Session : cycle'[s].settledCount \in {cycle[s].settledCount, cmd.sc}
    BY <1>0, <2>1, AppliesCount
  <2>4. /\ \A q \in Process : K(proc'[q].sc)
        /\ \A s \in Session : K(cycle'[s].settledCount)
        /\ \A c \in late' : K(c.sc)
    BY ONLY <1>2, <2>1, <2>2, <2>3
  <2> QED
    BY ONLY <1>3, <2>1, <2>4 DEF ClosedInv
<1> QED
  BY <1>0, <1>6, <1>7, <1>8, <1>9, <1>10, ProcessStep DEF Next, ClosedInv

-----------------------------------------------------------------------------
(* The theorems.                                                           *)

\* Every state of the rail is well typed, and what was closed is never in the
\* book again.
THEOREM TypeCorrect == Spec => []TypeOK
<1>1. SkipInv => TypeOK
  BY DEF SkipInv, TypeInv
<1>2. Init => SkipInv
  BY InitInvs
<1> QED
  BY <1>1, <1>2, SkipStep, PTL DEF Spec

\* For any number of sessions, processes and commands given up on: a session
\* numbered n + 1 exists only after one numbered n was recorded as settled, in
\* whatever order queries, creations and late commits come (open_cycle;
\* "no skipping a settlement", Netting.daml 182).
THEOREM NoneSkipped == Spec => []NoSettlementSkipped
<1>1. SkipInv => NoSettlementSkipped
  BY DEF SkipInv, Unskipped, Follows, NoSettlementSkipped
<1>2. Init => SkipInv
  BY InitInvs
<1> QED
  BY <1>1, <1>2, SkipStep, PTL DEF Spec

\* However late a record commits and on whichever cycle: the sessions together
\* count no more settlements than settle_real reported, so that no outcome is
\* recorded twice, and no session counts more than has left the book (run_cycle).
THEOREM RecordedOnce == Spec => []RecordsAreOfReports
<1>1. SkipInv /\ CountInv /\ ClosedInv => RecordsAreOfReports
  <2> SUFFICES ASSUME SkipInv, CountInv, ClosedInv PROVE RecordsAreOfReports
    OBVIOUS
  <2>1. /\ Reported(cycle) \in Nat /\ Carried(proc) \in Nat /\ Outstanding(late) \in Nat
        /\ reported \in Nat
    BY ReportedNat, CarriedNat, OutstandingNat DEF CountInv, TypeInv, TypeOK
  <2>2. Reported(cycle) <= reported
    BY <2>1 DEF CountInv
  <2>3. MapThenSumSet(LAMBDA s : cycle[s].settledCount, Session) = Reported(cycle)
    BY FiniteRail, CountsAreSum DEF Reported
  <2> QED
    BY <2>2, <2>3 DEF RecordsAreOfReports, ClosedInv
<1>2. Init => SkipInv /\ CountInv /\ ClosedInv
  BY InitInvs
<1> QED
  BY <1>1, <1>2, SkipStep, CountStep, ClosedStep, PTL DEF Spec

================================================================================
