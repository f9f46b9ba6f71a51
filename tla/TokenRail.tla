------------------------------ MODULE TokenRail ------------------------------
(***************************************************************************)
(* What settlement over token holdings promises, without contracts, funding *)
(* or clients: balances per party and instrument, and for each call a       *)
(* netting of its book that happens in one step, at most once, and moves    *)
(* every balance by exactly what the book nets to ("all legs settle in ONE  *)
(* transaction or none do", TokenSettlement.daml 170-174).  Tokens are made *)
(* only to fund a book and unmade only by a reset.                          *)
(***************************************************************************)
EXTENDS Integers, FiniteSetsExt

CONSTANTS
  Party, Instrument,
  Call,   \* the calls of the settlement driver
  Book    \* [Call -> SUBSET [payer, payee, amount, instrument]]

VARIABLES
  balance,  \* [Party -> [Instrument -> Nat]]
  settled   \* the calls whose netting has taken place

rvars == <<balance, settled>>

Total(D) == MapThenSumSet(LAMBDA d : d.amount, D)

Gross(c, p, i) == Total({d \in Book[c] : d.payer = p /\ d.instrument = i})

\* What p should receive (negative: pay) in i for the book of c.
Net(c, p, i) == Total({d \in Book[c] : d.payee = p /\ d.instrument = i}) - Gross(c, p, i)

\* A set of changes of balance.
Change(Gain(_, _)) ==
  {g \in {[party |-> p, instrument |-> i, gain |-> Gain(p, i)] : p \in Party, i \in Instrument} :
     g.gain # 0}

Changed == Change(LAMBDA p, i : balance'[p][i] - balance[p][i])

Settle(c) ==
  /\ c \notin settled /\ settled' = settled \union {c}
  /\ Changed = Change(LAMBDA p, i : Net(c, p, i))

\* One party gets what it owes gross in an instrument, or its tokens are unmade.
FundOrBurn(g) ==
  g.gain < 0 \/ \E c \in Call : g.gain = Gross(c, g.party, g.instrument)

\* The registry moves tokens of one party to another.
Give(g, h) == g.instrument = h.instrument /\ g.gain + h.gain = 0

OtherChange ==
  /\ settled' = settled
  /\ LET changed == Changed IN
     \/ \E g \in changed : changed = {g} /\ FundOrBurn(g)
     \/ \E g, h \in changed : changed = {g, h} /\ Give(g, h)

RInit ==
  /\ balance \in [Party -> [Instrument -> Nat]]
  /\ settled = {}

RNext == OtherChange \/ \E c \in Call : Settle(c)

RSpec == RInit /\ [][RNext]_rvars
=============================================================================
