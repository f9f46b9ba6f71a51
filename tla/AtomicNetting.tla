---------------------------- MODULE AtomicNetting ----------------------------
(***************************************************************************)
(* What the netting rail promises, without batches, holdings, locks or     *)
(* allocations: a book of obligations and a cash balance per firm and      *)
(* currency.  One netting is ONE step that closes a set of due obligations *)
(* and moves every firm's cash by exactly what those obligations net to    *)
(* ("all in ONE transaction", Netting.daml 13-17).  A netting across       *)
(* currencies conserves each firm's VALUE at a quote all of them signed.   *)
(* NettingLedger is shown to implement this module.                        *)
(***************************************************************************)
EXTENDS Integers, FiniteSets, Functions

CONSTANTS
  Firm,      \* the firms that owe and hold cash
  Currency,  \* the currencies of obligations and cash
  Obl,       \* obligation contracts
  OblTerms,  \* [Obl -> [payer, payee, amount, currency, maturity]]
  Quote,     \* agreed quotes: [factor: [Currency -> Nat],
             \*   priced: SUBSET Currency, signers: SUBSET Firm]
  MaxTime    \* bound on ledger time

VARIABLES
  now,       \* ledger time
  book,      \* [Obl -> {"none", "live", "withdrawn", "netted"}]
  balance    \* [Firm -> [Currency -> Nat]]

avars == <<now, book, balance>>

\* What is owed over a set D of obligations, and which of S are in c.
Owed(D) == SumFunctionOnSet([o \in D |-> OblTerms[o].amount], D)
In(S, c) == {o \in S : OblTerms[o].currency = c}

\* What firm f should receive (negative: pay) in currency c for the book S.
NetOf(S, f, c) ==
    Owed({o \in In(S, c) : OblTerms[o].payee = f})
  - Owed({o \in In(S, c) : OblTerms[o].payer = f})

Due(S) == \A o \in S : book[o] = "live" /\ OblTerms[o].maturity <= now

Close(S, how) == book' = [o \in Obl |-> IF o \in S THEN how ELSE book[o]]

Gain(f, c) == balance'[f][c] - balance[f][c]
Loss(f, c) == IF Gain(f, c) < 0 THEN -Gain(f, c) ELSE 0
Outflow(c) == SumFunctionOnSet([f \in Firm |-> Loss(f, c)], Firm)

\* The value at quote q of an amount n[c] in each currency.
Worth(n, q) == SumFunctionOnSet([c \in Currency |-> n[c] * q.factor[c]], Currency)

Tick == now < MaxTime /\ now' = now + 1 /\ UNCHANGED <<book, balance>>

Accrue(o) == book[o] = "none" /\ Close({o}, "live") /\ UNCHANGED <<now, balance>>

\* The operator may drop a due obligation without a settlement (clear_book).
Withdraw(o) == Due({o}) /\ Close({o}, "withdrawn") /\ UNCHANGED <<now, balance>>

\* The custodian issues cash to a firm, or moves it between two firms at the
\* request of both: no obligation changes.
Mint(f, c) ==
  /\ UNCHANGED <<now, book>>
  /\ Gain(f, c) > 0
  /\ \A g \in Firm, d \in Currency : <<g, d>> # <<f, c>> => Gain(g, d) = 0

Move(f, g, c) ==
  /\ f # g
  /\ UNCHANGED <<now, book>>
  /\ Gain(f, c) < 0 /\ Gain(f, c) + Gain(g, c) = 0
  /\ \A h \in Firm, d \in Currency : d # c \/ h \notin {f, g} => Gain(h, d) = 0

\* One netting in one step: S is closed and cash moves by its net.
Net(S) ==
  /\ S # {} /\ Due(S) /\ Close(S, "netted")
  /\ \A f \in Firm, c \in Currency : Gain(f, c) = NetOf(S, f, c)
  /\ UNCHANGED now

\* One netting across currencies: every firm of the book signed the quote,
\* each firm gains the value its obligations net to, and no more cash moves in
\* a currency than was owed in it.  A priced currency may still be worth
\* nothing: the inverse of a rate large enough rounds to zero.
NetAcross(S, q) ==
  /\ S # {} /\ Due(S) /\ Close(S, "netted")
  /\ \A o \in S : {OblTerms[o].payer, OblTerms[o].payee} \subseteq q.signers
  /\ \A c \in Currency : In(S, c) # {} \/ Outflow(c) > 0 => c \in q.priced
  /\ \A f \in Firm :
       Worth([c \in Currency |-> Gain(f, c)], q) = Worth([c \in Currency |-> NetOf(S, f, c)], q)
  /\ \A c \in Currency : Outflow(c) <= Owed(In(S, c))
  /\ UNCHANGED now

AInit ==
  /\ now = 0
  /\ book = [o \in Obl |-> "none"]
  /\ balance = [f \in Firm |-> [c \in Currency |-> 0]]

ANext ==
  \/ Tick
  \/ \E o \in Obl : Accrue(o) \/ Withdraw(o)
  \/ \E f \in Firm, c \in Currency : Mint(f, c)
  \/ \E f, g \in Firm, c \in Currency : Move(f, g, c)
  \/ \E S \in SUBSET Obl : Net(S) \/ \E q \in Quote : NetAcross(S, q)

ASpec == AInit /\ [][ANext]_avars
=============================================================================
