--------------------------- MODULE TokenSettlement ---------------------------
(***************************************************************************)
(* Settlement over token-standard holdings: TGHolding and                  *)
(* NettingSettlement (TokenSettlement.daml), and the operator's calls that *)
(* seed a book and settle it (agent/token_settle.py, and the console's     *)
(* token-seed, token-settle and token-settle-cross).                       *)
(*                                                                         *)
(* A call reads the ledger, remembers contract ids and then submits, one   *)
(* request after the other; other calls run in between.  The driver        *)
(* discards contracts it does not know, so a contract id is given out      *)
(* again once the ledger and every caller have forgotten it.               *)
(***************************************************************************)
EXTENDS Integers, FiniteSetsExt, SequencesExt, GreedyNetting

CONSTANTS
  Party, Instrument,
  Call,        \* the calls the operator makes
  Kind,        \* [Call -> {"seed", "single", "cross"}]
  Book,        \* [Call -> SUBSET Debt]
  Leftover,    \* the holdings that earlier seedings and settlements left
  MaxCid,      \* bound: contract ids in use at a time
  MaxRunning,  \* bound: calls that run at a time
  MaxOdd,      \* bound: choices exercised directly, and submissions that outlive
               \* the call that made them
  None

Cid == 1 .. MaxCid
Amount == Nat \ {0}
Debt == [payer: Party, payee: Party, amount: Amount, instrument: Instrument]
TGHolding == [owner: Party, instrument: Instrument, amount: Amount, locked: BOOLEAN]

ASSUME CallTerms ==
  /\ Kind \in [Call -> {"seed", "single", "cross"}]
  /\ Book \in [Call -> SUBSET Debt]
  /\ \A c \in Call :
       Kind[c] = "single" => Cardinality({d.instrument : d \in Book[c]}) = 1
ASSUME Finiteness == IsFiniteSet(Party) /\ \A c \in Call : IsFiniteSet(Book[c])
ASSUME NoneIsNothing == None \notin TGHolding /\ None \notin Call
ASSUME EarlierHoldings == Leftover \in Seq(TGHolding) /\ Len(Leftover) <= MaxCid
ASSUME Bounds == {MaxCid, MaxRunning, MaxOdd} \subseteq Nat

VARIABLES
  hold,        \* [Cid -> TGHolding or None]
  settlement,  \* [Call -> {"none", "open", "executed", "cancelled"}]: what it created
  pc,          \* [Call -> Step]
  todo,        \* [Call -> set of commands]: what a seeding has yet to submit
  funding,     \* [Call -> function from <<sender, instrument>> to Cid]
  chosen,      \* [Call -> Call or None]: the settlement it is about to execute
  result,      \* [Call -> {"none", "ok", "failed"}]: what the caller is told
  late,        \* commands that may commit after their call gave up on them
  odd          \* how often something of what MaxOdd bounds has happened

ledger == <<hold, settlement>>
driver == <<pc, todo, funding, chosen, result>>
vars == <<hold, settlement, pc, todo, funding, chosen, result, late, odd>>

Step == {"start", "clear", "mint", "fund", "create", "choose", "execute", "done"}

-----------------------------------------------------------------------------
(* The book.                                                               *)

Total(D) == MapThenSumSet(LAMBDA d : d.amount, D)

Instruments(c) == {d.instrument : d \in Book[c]}

Gross(c, p, i) == Total({d \in Book[c] : d.payer = p /\ d.instrument = i})

NetPositions(c, i) ==
  [p \in Party |->
     Total({d \in Book[c] : d.payee = p /\ d.instrument = i}) - Gross(c, p, i)]

\* Every instrument is netted on its own.
LegsIn(c, i) ==
  LET legs == Match(NetPositions(c, i)) IN
  [n \in DOMAIN legs |-> [sender |-> legs[n].sender, receiver |-> legs[n].receiver,
                          amount |-> legs[n].amount, instrument |-> i]]
Legs ==
  [c \in Call |->
     LET order == SetToSeq(Instruments(c))
     IN FlattenSeq([n \in DOMAIN order |-> LegsIn(c, order[n])])]

Key(leg) == <<leg.sender, leg.instrument>>
Keys(legs) == {Key(legs[n]) : n \in DOMAIN legs}
Senders(legs) == {legs[n].sender : n \in DOMAIN legs}

\* The driver's demonstration books leave something to settle.
ASSUME BooksLeaveLegs == \A c \in Call : Kind[c] # "seed" => Legs[c] # <<>>

-----------------------------------------------------------------------------
(* The contracts.  A command is one transaction.                           *)

Remembered ==
  UNION {{funding[c][k] : k \in DOMAIN funding[c]} : c \in Call}
    \union {m.cid : m \in {m \in UNION {todo[c] : c \in Call} \union late : m.op = "archive"}}
    \union UNION {{m.funding[k] : k \in DOMAIN m.funding} :
                    m \in {m \in late : m.op = "execute"}}

Rank(S, n) == Cardinality({m \in S : m <= n})

\* The holdings in used are archived and those in made created.
Replace(used, made) ==
  LET free == {k \in Cid \ Remembered : hold[k] = None} IN
  /\ Len(made) <= Cardinality(free)
  /\ hold' = [k \in Cid |->
                IF k \in free /\ Rank(free, k) <= Len(made) THEN made[Rank(free, k)]
                ELSE IF k \in used THEN None ELSE hold[k]]

\* Mutant: the lock is not looked at.
MovableIfThere(h) == h # None

Movable(h) == h # None /\ ~h.locked

\* Mutant: any instrument will do.
AnyInstrument(h, leg) == TRUE

Matches(h, leg) == h.instrument = leg.instrument

\* Mutant: an exactly funded split fails.
CoversStrictly(amount, part) == amount > part

Covers(amount, part) == amount >= part

Refused == -1

\* settleSenderLegs: what is left of h after it paid the legs one by one, each
\* from the remainder of the one before.  With nothing left there is no
\* remainder, and no further leg is covered.
Left(h, legs) ==
  LET left[n \in 0 .. Len(legs)] ==
        IF n = 0 THEN h.amount
        ELSE LET before == left[n - 1] IN
             IF before # Refused /\ Matches(h, legs[n]) /\ Covers(before, legs[n].amount)
             THEN before - legs[n].amount ELSE Refused
  IN left[Len(legs)]

\* Mutant: a split that uses up the holding still creates a remainder.
KeepsEmptyRemainder(h, left) == <<[h EXCEPT !.amount = left]>>

\* Mutant: the remainder is not created.
DropsRemainder(h, left) == <<>>

Remainder(h, left) == IF left = 0 THEN <<>> ELSE <<[h EXCEPT !.amount = left]>>

\* What a holding becomes when it pays the legs.
Split(h, legs) ==
  [n \in DOMAIN legs |-> [h EXCEPT !.owner = legs[n].receiver, !.amount = legs[n].amount]]
    \o Remainder(h, Left(h, legs))

\* A part of an execution: the legs that one holding of their sender pays.
Pays(part) ==
  LET h == hold[part.cid] IN
  /\ Movable(h)
  /\ \A n \in DOMAIN part.legs : part.legs[n].sender = h.owner
  /\ Left(h, part.legs) # Refused

Settle(c, parts) ==
  /\ settlement[c] = "open"
  /\ \A m, n \in DOMAIN parts : parts[m].cid = parts[n].cid => m = n
  /\ \A n \in DOMAIN parts : Pays(parts[n])
  /\ Replace({parts[n].cid : n \in DOMAIN parts},
             FlattenSeq([n \in DOMAIN parts |-> Split(hold[parts[n].cid], parts[n].legs)]))
  /\ settlement' = [settlement EXCEPT ![c] = "executed"]

LegsFrom(c, K) ==
  LET at == {n \in DOMAIN Legs[c] : Key(Legs[c][n]) \in K}
  IN [r \in 1 .. Cardinality(at) |-> Legs[c][CHOOSE n \in at : Rank(at, n) = r]]

\* NettingSettlement_Execute: one holding for each leg.
Execute(c, cids) ==
  /\ Len(cids) = Len(Legs[c])
  /\ Settle(c, [n \in DOMAIN cids |-> [cid |-> cids[n], legs |-> <<Legs[c][n]>>]])

\* NettingSettlement_ExecuteThreaded: one holding for each sender.
ExecuteThreaded(c, f) ==
  LET order == SetToSeq(DOMAIN f) IN
  /\ {k[1] : k \in DOMAIN f} = Senders(Legs[c])
  /\ Settle(c, [n \in DOMAIN order |->
                  [cid |-> f[order[n]],
                   legs |-> LegsFrom(c, {k \in Keys(Legs[c]) : k[1] = order[n][1]})]])

\* NettingSettlement_ExecuteMulti: one for each sender and instrument.
ExecuteMulti(c, f) ==
  LET order == SetToSeq(DOMAIN f) IN
  /\ DOMAIN f = Keys(Legs[c])
  /\ \A k \in DOMAIN f : hold[f[k]] # None => hold[f[k]].instrument = k[2]
  /\ Settle(c, [n \in DOMAIN order |->
                  [cid |-> f[order[n]],
                   legs |-> LegsFrom(c, {order[n]})]])

Create(c) ==
  /\ settlement[c] = "none" /\ settlement' = [settlement EXCEPT ![c] = "open"]
  /\ UNCHANGED hold

Cancel(c) ==
  /\ settlement[c] = "open" /\ settlement' = [settlement EXCEPT ![c] = "cancelled"]
  /\ UNCHANGED hold

Archive(k) == hold[k] # None /\ Replace({k}, <<>>) /\ UNCHANGED settlement

Mint(h) == Replace({}, <<h>>) /\ UNCHANGED settlement

Commit(m) ==
  \/ m.op = "archive" /\ Archive(m.cid)
  \/ m.op = "cancel" /\ Cancel(m.of)
  \/ m.op = "mint" /\ Mint(m.holding)
  \/ m.op = "create" /\ Create(m.of)
  \/ m.op = "execute" /\ m.by = "single" /\ ExecuteThreaded(m.of, m.funding)
  \/ m.op = "execute" /\ m.by = "cross" /\ ExecuteMulti(m.of, m.funding)

Odd == odd < MaxOdd /\ odd' = odd + 1

-----------------------------------------------------------------------------
(* Choices the registry exercises directly.                                *)

Act == Odd /\ UNCHANGED <<driver, late>>

Lock(k) ==
  /\ Act /\ hold[k] # None /\ ~hold[k].locked
  /\ Replace({k}, <<[hold[k] EXCEPT !.locked = TRUE]>>)
  /\ UNCHANGED settlement

Unlock(k) ==
  /\ hold[k] # None /\ hold[k].locked
  /\ Replace({k}, <<[hold[k] EXCEPT !.locked = FALSE]>>)
  /\ UNCHANGED <<settlement, driver, late, odd>>

TransferTo(k, p) ==
  /\ Act /\ Movable(hold[k])
  /\ Replace({k}, <<[hold[k] EXCEPT !.owner = p]>>)
  /\ UNCHANGED settlement

ExecuteDirectly(c) ==
  /\ Act
  /\ settlement[c] = "open"
  /\ \E cids \in [DOMAIN Legs[c] -> {k \in Cid : hold[k] # None}] : Execute(c, cids)

-----------------------------------------------------------------------------
(* The calls.                                                              *)

Go(c, step) == pc' = [pc EXCEPT ![c] = step]

\* The locals of a call go with it; a call that succeeds reports its settlement.
Return(c, r) ==
  /\ Go(c, "done") /\ result' = [result EXCEPT ![c] = r]
  /\ funding' = [funding EXCEPT ![c] = <<>>]
  /\ chosen' = [chosen EXCEPT ![c] = IF r = "ok" THEN @ ELSE None]

Answered(m) == Commit(m) /\ UNCHANGED <<late, odd>>

\* What the client makes of a submission it has no good answer to: the command
\* was refused or never arrives, or it committed, or it may yet commit.
Unanswered(m) ==
  \/ Answered(m)
  \/ UNCHANGED <<ledger, late, odd>>
  \/ late' = late \union {m} /\ Odd /\ UNCHANGED ledger

Arrive ==
  \E m \in late :
    /\ Commit(m) /\ late' = late \ {m}
    /\ UNCHANGED <<driver, odd>>

Begin(c) ==
  /\ pc[c] = "start"
  /\ Cardinality({d \in Call : pc[d] \notin {"start", "done"}}) < MaxRunning
  /\ UNCHANGED <<ledger, late, odd>>

Archives == {[op |-> "archive", cid |-> k] : k \in {k \in Cid : hold[k] # None}}
Cancels == {[op |-> "cancel", of |-> c] : c \in {c \in Call : settlement[c] = "open"}}

\* clear_tg_holdings takes what it finds, or nothing if it cannot read where
\* the ledger ends; if it cannot read the contracts the call fails.
BeginSeed(c) ==
  /\ Kind[c] = "seed" /\ Begin(c)
  /\ \/ /\ \E found \in {Archives \union Cancels, {}} : todo' = [todo EXCEPT ![c] = found]
        /\ Go(c, "clear") /\ UNCHANGED <<funding, chosen, result>>
     \/ Return(c, "failed") /\ UNCHANGED todo

\* The commands are submitted in some fixed order, that of the ledger's answer or
\* of the book.
First(commands) == CHOOSE m \in commands : TRUE

\* A contract that cannot be archived is passed over.
Clear(c) ==
  /\ pc[c] = "clear" /\ todo[c] # {}
  /\ Unanswered(First(todo[c]))
  /\ todo' = [todo EXCEPT ![c] = @ \ {First(@)}]
  /\ UNCHANGED <<pc, funding, chosen, result>>

Mints(c) ==
  {[op |-> "mint", holding |-> [owner |-> d.payer, instrument |-> d.instrument,
                                amount |-> Gross(c, d.payer, d.instrument), locked |-> FALSE]] :
     d \in Book[c]}

BeginMint(c) ==
  /\ pc[c] = "clear" /\ todo[c] = {}
  /\ todo' = [todo EXCEPT ![c] = Mints(c)] /\ Go(c, "mint")
  /\ UNCHANGED <<ledger, funding, chosen, result, late, odd>>

\* mint_book(_multi) goes on after a failure; the console reports it at the end.
MintNext(c) ==
  /\ pc[c] = "mint" /\ todo[c] # {}
  /\ todo' = [todo EXCEPT ![c] = @ \ {First(@)}]
  /\ \/ Answered(First(todo[c])) /\ UNCHANGED result
     \/ Unanswered(First(todo[c])) /\ result' = [result EXCEPT ![c] = "failed"]
  /\ UNCHANGED <<pc, funding, chosen>>

EndSeed(c) ==
  /\ pc[c] = "mint" /\ todo[c] = {}
  /\ Return(c, IF result[c] = "none" THEN "ok" ELSE result[c])
  /\ UNCHANGED <<ledger, todo, late, odd>>

BeginSettle(c) ==
  /\ Kind[c] # "seed" /\ Begin(c)
  /\ Go(c, "fund") /\ UNCHANGED <<todo, funding, chosen, result>>

\* The holdings _holding_cid_for may find: the largest of the owner and
\* instrument, whether or not it is locked.
Largest(key) ==
  LET own == {k \in Cid : hold[k] # None /\ <<hold[k].owner, hold[k].instrument>> = key}
  IN {k \in own : \A other \in own : hold[other].amount <= hold[k].amount}

\* One query for each key, in the order of the legs.
FundNext(c) ==
  LET wanting == {n \in DOMAIN Legs[c] : Key(Legs[c][n]) \notin DOMAIN funding[c]} IN
  /\ pc[c] = "fund"
  /\ \E n \in wanting :
       LET key == Key(Legs[c][n]) IN
       /\ \A m \in wanting : n <= m
       /\ \/ /\ \E k \in Largest(key) :
                  funding' = [funding EXCEPT ![c] =
                    [x \in DOMAIN @ \union {key} |-> IF x = key THEN k ELSE @[x]]]
             /\ IF \A m \in wanting : Key(Legs[c][m]) = key
                THEN Go(c, "create") ELSE UNCHANGED pc
             /\ UNCHANGED <<chosen, result>>
          \/ Return(c, "failed")
       /\ UNCHANGED <<ledger, todo, late, odd>>

CreateSettlement(c) ==
  LET m == [op |-> "create", of |-> c] IN
  /\ pc[c] = "create"
  /\ \/ Answered(m) /\ Go(c, "choose") /\ UNCHANGED <<funding, chosen, result>>
     \/ Unanswered(m) /\ Return(c, "failed")
  /\ UNCHANGED todo

\* The answer to a create names no contract, so the call takes one of the
\* settlements it finds, which need not be its own.
Choose(c) ==
  /\ pc[c] = "choose"
  /\ \/ /\ \E d \in Call : settlement[d] = "open" /\ chosen' = [chosen EXCEPT ![c] = d]
        /\ Go(c, "execute") /\ UNCHANGED <<funding, result>>
     \/ Return(c, "failed")
  /\ UNCHANGED <<ledger, todo, late, odd>>

ExecuteChosen(c) ==
  LET m == [op |-> "execute", by |-> Kind[c], of |-> chosen[c], funding |-> funding[c]] IN
  /\ pc[c] = "execute"
  /\ \/ Answered(m) /\ Return(c, "ok")
     \/ Unanswered(m) /\ Return(c, "failed")
  /\ UNCHANGED todo

-----------------------------------------------------------------------------

Init ==
  /\ hold = [k \in Cid |-> IF k \in DOMAIN Leftover THEN Leftover[k] ELSE None]
  /\ settlement = [c \in Call |-> "none"]
  /\ pc = [c \in Call |-> "start"]
  /\ todo = [c \in Call |-> {}]
  /\ funding = [c \in Call |-> <<>>]
  /\ chosen = [c \in Call |-> None]
  /\ result = [c \in Call |-> "none"]
  /\ late = {}
  /\ odd = 0

Next ==
  \/ \E c \in Call :
       \/ BeginSeed(c) \/ Clear(c) \/ BeginMint(c) \/ MintNext(c) \/ EndSeed(c)
       \/ BeginSettle(c) \/ FundNext(c) \/ CreateSettlement(c) \/ Choose(c) \/ ExecuteChosen(c)
       \/ ExecuteDirectly(c)
  \/ \E k \in Cid : Lock(k) \/ Unlock(k) \/ \E p \in Party : TransferTo(k, p)
  \/ Arrive

Spec == Init /\ [][Next]_vars

-----------------------------------------------------------------------------
(* Properties.                                                             *)

TokenTypeOK ==
  /\ hold \in [Cid -> TGHolding \union {None}]
  /\ settlement \in [Call -> {"none", "open", "executed", "cancelled"}]
  /\ pc \in [Call -> Step]
  /\ \A c \in Call :
       /\ DOMAIN funding[c] \subseteq Keys(Legs[c])
       /\ \A k \in DOMAIN funding[c] : funding[c][k] \in Cid
  /\ chosen \in [Call -> Call \union {None}]
  /\ result \in [Call -> {"none", "ok", "failed"}]
  /\ odd \in 0 .. MaxOdd

Balance(p, i) ==
  LET own == {k \in Cid : hold[k] # None /\ hold[k].owner = p /\ hold[k].instrument = i}
  IN MapThenSumSet(LAMBDA k : hold[k].amount, own)

Rail ==
  INSTANCE TokenRail WITH
    balance <- [p \in Party |-> [i \in Instrument |-> Balance(p, i)]],
    settled <- {c \in Call : settlement[c] = "executed"}

\* However the holdings are split, whichever holding funds whom, and whichever
\* call executes whose settlement in whatever order or late: an execution moves
\* every balance by the net of the settlement's own book, at once and only once,
\* and otherwise tokens only appear by minting for a book
\* (TokenSettlement.daml 170-174, 250-252).
RefinesTokenRail == Rail!RSpec

\* A settle call that reports success has executed a settlement that all its
\* holdings were looked up for, and no two of them report the same execution,
\* although a call takes whichever settlement it finds open
\* (token_settle.py 177-178, 188-195).
ReportsAnExecution ==
  \A c \in Call :
    Kind[c] # "seed" /\ result[c] = "ok" =>
      /\ settlement[chosen[c]] = "executed"
      /\ Senders(Legs[chosen[c]]) = Senders(Legs[c])
      /\ Kind[c] = "cross" => Keys(Legs[chosen[c]]) = Keys(Legs[c])
      /\ \A d \in Call \ {c} : result[d] = "ok" /\ Kind[d] # "seed" => chosen[d] # chosen[c]

\* With books whose legs differ in their keys, the legs it has executed are the
\* ones it reports.
OkMeansItsOwnNetting ==
  /\ ReportsAnExecution
  /\ \A c \in Call :
       Kind[c] # "seed" /\ result[c] = "ok" => Legs[chosen[c]] = Legs[c]

\* Tokens locked into a settlement do not pay for another one: while a lock
\* lasts its holding stays as it is, unless a reset archives it, and then
\* nobody gains (TokenSettlement.daml 95-100).
LockedTokensStayPut ==
  [][\A k \in Cid :
       hold[k] # None /\ hold[k].locked /\ hold'[k] = None =>
         \/ \E n \in Cid : hold[n] = None /\ hold'[n] = [hold[k] EXCEPT !.locked = FALSE]
         \/ \A n \in Cid \ {k} : hold'[n] = hold[n]]_vars

\* What mint_book gives a payer in an instrument funds all its legs of the
\* book's netting from one holding, if nothing else took or locked it in between
\* ("so every residual leg is fundable", token_settle.py 94-95).
SeededFundingSuffices ==
  \A c \in Call :
    LET asMinted(k) ==
          LET h == hold[funding[c][k]] IN
          h = [owner |-> k[1], instrument |-> k[2], amount |-> Gross(c, k[1], k[2]),
               locked |-> FALSE]
    IN pc[c] = "execute" /\ Legs[chosen[c]] = Legs[c] /\ (\A k \in DOMAIN funding[c] : asMinted(k))
         => \A k \in DOMAIN funding[c] :
              Left(hold[funding[c][k]], LegsFrom(c, {k})) # Refused
=============================================================================
