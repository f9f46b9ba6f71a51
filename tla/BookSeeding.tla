----------------------------- MODULE BookSeeding -----------------------------
(***************************************************************************)
(* Replacing the live book: seed_partial_book, _seed_obligation_book,      *)
(* clear_book (agent/net_settle.py), _clear_verified (agent/limits.py) and *)
(* the console's reset_demo.  Each is a procedure of queries and of writes *)
(* planned from the last query, and several run at once: the console, the  *)
(* CLI and other consoles.  A write is one RealLedgerClient call, reported *)
(* as CommandClient allows: after a fault it may have committed, may still *)
(* commit after the caller has gone on, or never.                          *)
(*                                                                         *)
(* The four constraint templates are cleared one after another by one and  *)
(* the same function; the limit stands for all of them.                    *)
(***************************************************************************)
EXTENDS Naturals, FiniteSets, SequencesExt

CONSTANTS
  Process,
  Reference,   \* the references of the book to seed, one row each
  Junk,        \* a reference outside the book, and that of what is no obligation
  Initials,    \* the sequences of contracts the ledger may hold at the start
  Foreign,     \* the contracts others may create meanwhile
  MaxFaults,   \* bound: failed queries, unanswered writes and crashes
  MaxForeign   \* bound: steps of others

Contract == [type : {"obligation", "batch", "limit"}, ref : Reference \union {Junk},
             same : BOOLEAN,  \* parties, instrument and amount as in the book
             maturity : {"none", "past", "future"}]

ASSUME LedgerContents ==
  /\ Process # {} /\ IsFiniteSet(Reference) /\ Junk \notin Reference
  /\ Initials \subseteq Seq(Contract) /\ Foreign \subseteq Contract
  /\ MaxFaults \in Nat /\ MaxForeign \in Nat

Row(r) == [type |-> "obligation", ref |-> r, same |-> TRUE, maturity |-> "none"]
Limit == [type |-> "limit", ref |-> Junk, same |-> TRUE, maturity |-> "none"]

Seeding == <<"read obligations", "read batches", "sweep", "create", "sweep",
             "verify obligations", "verify batches">>
ClearingBook == <<"read obligations", "read batches", "verify obligations", "verify batches">>
ClearingLimits == <<"read limits", "verify limits">>

\* seed_partial_book and reset_demo, as the queries they make.
Program == [seed |-> ClearingLimits \o Seeding \o <<"agree">>,
            reset |-> ClearingBook \o ClearingLimits]

VARIABLES
  made,    \* the contracts ever created, in the order of queries
  live,    \* the indices of the active ones
  late,    \* the writes whose callers have gone on, still undecided
  kind,    \* [Process -> DOMAIN Program \union {"idle", "dead"}]
  step,    \* [Process -> Nat]: the query to make next
  todo,    \* [Process -> Seq(Write)]: the writes planned from the last query
  errors,  \* [Process -> BOOLEAN]: the report lists an error
  ok,      \* [Process -> BOOLEAN]: nothing verified so far was wrong
  alone,   \* the processes nobody has interfered with since they started
  faults,  \* the faults so far
  foreign  \* the steps of others so far

ledger == <<made, live>>
vars == <<made, live, late, kind, step, todo, errors, ok, alone, faults, foreign>>

Archive(i) == [choice |-> "archive", cid |-> i]
Create(c) == [choice |-> "create", payload |-> c]
Write == {Archive(i) : i \in DOMAIN made} \union {Create(c) : c \in Contract}

SeedTypeOK ==
  /\ made \in Seq(Contract) /\ live \subseteq DOMAIN made
  /\ late \subseteq Write
  /\ kind \in [Process -> DOMAIN Program \union {"idle", "dead"}]
  /\ step \in [Process -> Nat]
  /\ todo \in [Process -> Seq(Write)]
  /\ errors \in [Process -> BOOLEAN] /\ ok \in [Process -> BOOLEAN]
  /\ alone \subseteq Process
  /\ faults \in 0..MaxFaults /\ foreign \in 0..MaxForeign

Init ==
  /\ made \in Initials /\ live = DOMAIN made /\ late = {}
  /\ kind = [p \in Process |-> "idle"] /\ step = [p \in Process |-> 1]
  /\ todo = [p \in Process |-> <<>>]
  /\ errors = [p \in Process |-> FALSE] /\ ok = [p \in Process |-> TRUE]
  /\ alone = {} /\ faults = 0 /\ foreign = 0

-----------------------------------------------------------------------------
(* What a query shows.                                                     *)

Live(type) == {i \in live : made[i].type = type}
Book == Live("obligation")
Matches(i) == made[i].ref \in Reference /\ made[i].same /\ made[i].maturity = "none"
Copies(r) == {i \in Book : made[i].ref = r}

\* Mutant: the sweep does not remember which references it has seen.
KeepsEveryCopy == {i \in Book : Matches(i)}

\* What a sweep keeps: the first match of each reference.
Kept ==
  {i \in Book : Matches(i) /\ \A j \in Copies(made[i].ref) : Matches(j) => i <= j}

Missing == {r \in Reference : ~\E i \in Copies(r) : Matches(i)}

Exact ==
  /\ \A r \in Reference : Cardinality(Copies(r)) = 1
  /\ \A i \in Book : Matches(i)

\* Mutant: references are compared as sets, so a second copy has no name.
NamedAsSet ==
  \/ \E r \in Reference : Copies(r) = {}
  \/ \E i \in Book : made[i].ref \notin Reference \/ ~Matches(i)

\* Some reference is missing, there once too often, or has the wrong payload.
Named ==
  \/ \E r \in Reference : Copies(r) = {}
  \/ \E i \in Book : made[i].ref \notin Reference
  \/ \E r \in Reference : Cardinality(Copies(r)) > 1
  \/ \E i \in Book : made[i].ref \in Reference /\ ~Matches(i)

\* The oldest first.
InOrder(S) ==
  [n \in 1..Cardinality(S) |-> CHOOSE i \in S : Cardinality({j \in S : j < i}) = n - 1]

Archives(S) == [n \in 1..Cardinality(S) |-> Archive(InOrder(S)[n])]

\* Mutant: the arguments of a row are swapped.
CreatesSwapped(R) ==
  LET order == SetToSeq(R)
  IN [n \in DOMAIN order |-> Create([Row(order[n]) EXCEPT !.maturity = order[n]])]

Creates(R) ==
  LET order == SetToSeq(R) IN [n \in DOMAIN order |-> Create(Row(order[n]))]

Planned(query) ==
  CASE query = "read obligations" -> Archives(Book)
    [] query = "read batches" -> Archives(Live("batch"))
    [] query = "read limits" -> Archives(Live("limit"))
    [] query = "sweep" -> Archives(Book \ Kept)
    [] query = "create" -> Creates(Missing)
    [] query = "agree" -> <<Create(Limit)>>
    [] OTHER -> <<>>

\* Mutant: a verification that misses no row of the book is satisfied.
ExtrasUnseen(p, query) ==
  CASE query = "verify obligations" -> IF kind[p] = "seed" THEN Missing = {} ELSE Book = {}
    [] query = "verify batches" -> Live("batch") = {}
    [] query = "verify limits" -> Live("limit") = {}
    [] OTHER -> TRUE

Verified(p, query) ==
  CASE query = "verify obligations" -> IF kind[p] = "seed" THEN Exact ELSE Book = {}
    [] query = "verify batches" -> Live("batch") = {}
    [] query = "verify limits" -> Live("limit") = {}
    [] OTHER -> TRUE

\* The report says what is wrong.
Explained(p, query) ==
  IF query = "verify obligations" /\ kind[p] = "seed" THEN Named ELSE ~Verified(p, query)

-----------------------------------------------------------------------------
(* The ledger decides a write.                                             *)

CanCommit(w) ==
  w.choice = "archive" =>
    /\ w.cid \in live
    /\ made[w.cid].type = "obligation" => made[w.cid].maturity # "future"

Commit(w) ==
  /\ CanCommit(w)
  /\ IF w.choice = "archive"
     THEN live' = live \ {w.cid} /\ UNCHANGED made
     ELSE made' = Append(made, w.payload) /\ live' = live \union {Len(made) + 1}

CommitLate(w) ==
  /\ w \in late /\ Commit(w)
  /\ late' = late \ {w}
  /\ UNCHANGED <<kind, step, todo, errors, ok, alone, faults, foreign>>

NeverCommits(w) ==
  /\ w \in late /\ late' = late \ {w}
  /\ UNCHANGED <<made, live, kind, step, todo, errors, ok, alone, faults, foreign>>

\* Obligations accrue, batches are proposed, limits agreed; a batch is settled
\* or an obligation netted by somebody else.
Others ==
  /\ foreign < MaxForeign /\ foreign' = foreign + 1
  /\ \/ \E c \in Foreign : Commit(Create(c))
     \/ \E i \in live : made[i].type # "limit" /\ Commit(Archive(i))
  /\ alone' = {}
  /\ UNCHANGED <<late, kind, step, todo, errors, ok, faults>>

-----------------------------------------------------------------------------
(* A process.                                                              *)

Active(p) == kind[p] \in DOMAIN Program
Ended(p) == Active(p) /\ step[p] > Len(Program[kind[p]]) /\ todo[p] = <<>>
Running(p) == Active(p) /\ ~Ended(p)
Query(p) == Program[kind[p]][step[p]]

Start(p, k) ==
  /\ kind[p] = "idle" /\ kind' = [kind EXCEPT ![p] = k]
  /\ alone' = IF late = {} /\ ~\E q \in Process : Running(q) THEN {p} ELSE {}
  /\ UNCHANGED <<made, live, late, step, todo, errors, ok, faults, foreign>>

Alone(p) == alone' = alone \intersect {p}

\* The obligations and the batches are both read before anything is cleared.
Reads(p) ==
  /\ Running(p) /\ step[p] <= Len(Program[kind[p]])
  /\ todo[p] = <<>> \/ Query(p) = "read batches"
  /\ todo' = [todo EXCEPT ![p] = @ \o Planned(Query(p))]
  /\ ok' = [ok EXCEPT ![p] = @ /\ Verified(p, Query(p))]
  /\ errors' = [errors EXCEPT ![p] = @ \/ Explained(p, Query(p))]
  /\ step' = [step EXCEPT ![p] = @ + 1]
  /\ Alone(p)
  /\ UNCHANGED <<made, live, late, kind, faults, foreign>>

ClearsLimit(w) == w.choice = "archive" /\ made[w.cid].type = "limit"
AgreesLimit(w) == w = Create(Limit)

Writing(p) ==
  /\ Active(p) /\ todo[p] # <<>>
  /\ step[p] <= Len(Program[kind[p]]) => Query(p) # "read batches"
  /\ todo' = [todo EXCEPT ![p] = Tail(@)]
  /\ Alone(p)
  /\ UNCHANGED <<kind, step, foreign>>

\* The errors of a clearing of limits stay in its own report; a limit that is
\* not agreed makes the seeding fail.
NotesError(p, w) ==
  /\ errors' = [errors EXCEPT ![p] = @ \/ ~ClearsLimit(w)]
  /\ ok' = [ok EXCEPT ![p] = @ /\ ~AgreesLimit(w)]

NotesNothing == UNCHANGED <<errors, ok>>

Succeeds(p) ==
  /\ Writing(p) /\ Commit(Head(todo[p]))
  /\ NotesNothing /\ UNCHANGED <<late, faults>>

Refused(p) ==
  /\ Writing(p) /\ ~CanCommit(Head(todo[p]))
  /\ NotesError(p, Head(todo[p]))
  /\ UNCHANGED <<made, live, late, faults>>

\* _existing_reference: the first obligation with the reference is taken for
\* the created one if its fields agree; the maturity is not compared.
Reconciled(w) ==
  /\ w.choice = "create" /\ w.payload.type = "obligation"
  /\ LET found == {i \in live' : made'[i].type = "obligation" /\ made'[i].ref = w.payload.ref}
     IN found # {} /\ made'[CHOOSE i \in found : \A j \in found : i <= j].same

\* Mutant: a timeout is not counted as an error.
TimeoutIsNoError(p, w) == NotesNothing

\* The answer is lost, twice if need be; the caller learns the outcome of a
\* create by its reference, if that query does not fail as well.
Unanswered(p, w) == NotesError(p, w) \/ (Reconciled(w) /\ NotesNothing)

Fault(p) ==
  LET w == Head(todo[p]) IN
  /\ faults < MaxFaults /\ faults' = faults + 1
  /\ Writing(p)
  /\ \/ Commit(w) /\ UNCHANGED late
     \/ late' = late \union {w} /\ UNCHANGED ledger
  /\ Unanswered(p, w)

\* A query that fails ends the process, except in _clear_verified, which
\* reports it and, if it was the first, archives nothing.
QueryFails(p) ==
  /\ faults < MaxFaults /\ faults' = faults + 1
  /\ Running(p) /\ todo[p] = <<>> /\ Query(p) \in Range(ClearingLimits)
  /\ step' = [step EXCEPT ![p] = IF Query(p) = "read limits" THEN @ + 2 ELSE @ + 1]
  /\ ok' = [ok EXCEPT ![p] = FALSE] /\ errors' = [errors EXCEPT ![p] = TRUE]
  /\ Alone(p)
  /\ UNCHANGED <<made, live, late, kind, todo, foreign>>

Dies(p) ==
  /\ faults < MaxFaults /\ faults' = faults + 1
  /\ Running(p) /\ kind' = [kind EXCEPT ![p] = "dead"]
  /\ todo' = [todo EXCEPT ![p] = <<>>]
  /\ Alone(p)
  /\ UNCHANGED <<made, live, late, step, errors, ok, foreign>>

Next ==
  \/ \E w \in late : CommitLate(w) \/ NeverCommits(w)
  \/ Others
  \/ \E p \in Process :
       \/ \E k \in DOMAIN Program : Start(p, k)
       \/ Reads(p) \/ Succeeds(p) \/ Refused(p) \/ Fault(p) \/ QueryFails(p) \/ Dies(p)

Spec == Init /\ [][Next]_vars

-----------------------------------------------------------------------------
(* Properties.                                                             *)

\* What the report of an ended process says; reset_demo's own "ok" also asks
\* for no errors.
ReportsOk(p) == ok[p] /\ (kind[p] = "reset" => ~errors[p])

Describes(p) ==
  /\ Live("batch") = {}
  /\ IF kind[p] = "seed" THEN Exact /\ Cardinality(Live("limit")) = 1
     ELSE Book = {} /\ Live("limit") = {}

\* A seeding or a reset that ran by itself and reports success without errors
\* leaves nothing behind that could still change the ledger: what it reports
\* stays true until somebody else writes, although each write is allowed to
\* commit after its caller has gone on.
CleanReportLasts ==
  \A p \in alone : Ended(p) /\ ReportsOk(p) /\ ~errors[p] => Describes(p)

\* Two seedings of one book that overlap in any way, each clearing and sweeping
\* what the other creates, leave the book exactly once and a limit agreed when
\* both have ended, if no write was lost and what they found was due: "replace
\* the live book with exactly `book`" (net_settle.py 192).  Three need not: when
\* two have both created a row, the third may still archive the copy that a
\* sweep keeps, before that sweep archives the other one.
SeedingsConverge ==
  (\A p \in Process : Ended(p) /\ kind[p] = "seed")
    /\ faults = 0 /\ foreign = 0 /\ (\A i \in DOMAIN made : made[i].maturity # "future")
    => Exact /\ Live("limit") # {} /\ Live("batch") = {}

\* However many overlap and whatever they found, a seeding knows when they went
\* wrong: unless one of them reports a failure, the book is there exactly, no
\* batch is open and a limit is agreed, even if each of them verified while the
\* others were still writing.
OverlapIsReported ==
  (\A p \in Process : Ended(p) /\ kind[p] = "seed" /\ ok[p]) /\ faults = 0 /\ foreign = 0
    => Exact /\ Live("limit") # {} /\ Live("batch") = {}

\* A report that is not a success always has an error to show, whichever query
\* or write went wrong and whoever interfered.
FailureIsExplained ==
  \A p \in Process : Ended(p) /\ ~ok[p] => errors[p]
=============================================================================
