------------------------ MODULE TokenSettlementProofs ------------------------
(***************************************************************************)
(* For any books, holdings, parties and number of calls: the matching of   *)
(* net positions settles them, settlement over holdings implements the     *)
(* rail, locked tokens stay put, what is minted for a book funds all its   *)
(* legs, and every success reports an execution of its own.                *)
(***************************************************************************)
EXTENDS TokenSettlement, NettingTheorems

-----------------------------------------------------------------------------
(* The netting of a book.                                                    *)

\* Total, which folds over a set, is a sum.
LEMMA TotalIsSum ==
  ASSUME NEW D, IsFiniteSet(D), NEW f, \A d \in D : f[d] = d.amount
  PROVE  Total(D) = SumFunctionOnSet(f, D)
<1>. DEFINE A(g) == [T \in SUBSET D |-> IF T = {} THEN 0 ELSE Pick(T).amount + g[T \ {Pick(T)}]]
            B(g) == [T \in SUBSET D |-> IF T = {} THEN 0 ELSE f[Pick(T)] + g[T \ {Pick(T)}]]
            h == CHOOSE g : g = A(g)
<1>1. Total(D) = h[D]
  BY DEF Total, MapThenSumSet, MapThenFoldSet, Pick
<1>2. ASSUME NEW g  PROVE A(g) = B(g)
  <2>1. \A T \in SUBSET D : T # {} => Pick(T) \in D
    BY PickIn
  <2>2. \A T \in SUBSET D : T # {} => f[Pick(T)] = Pick(T).amount
    BY <2>1
  <2>. QED BY <2>2
<1>3. PICK g : IsSum(f, g, D) /\ \A T \in SUBSET D : SumFunctionOnSet(f, T) = g[T]
  BY SumChosen
<1>4. g = A(g)
  BY <1>2, <1>3 DEF IsSum
<1>5. h = A(h)
  <2>. HIDE DEF A
  <2>. QED BY <1>4
<1>6. IsSum(f, h, D)
  <2>1. h = B(h)
    <3>. HIDE DEF A, B, h
    <3>. QED BY <1>2, <1>5
  <2>. HIDE DEF h
  <2>. QED BY <2>1 DEF IsSum
<1>7. h = g
  <2>. HIDE DEF h
  <2>. QED BY <1>3, <1>6, SumUnique
<1>. QED BY <1>1, <1>3, <1>7

\* And so is a balance.
LEMMA BalanceIsSum ==
  ASSUME NEW p, NEW i, NEW own,
         own = {k \in Cid : hold[k] # None /\ hold[k].owner = p /\ hold[k].instrument = i},
         IsFiniteSet(own), NEW f, \A k \in own : f[k] = hold[k].amount
  PROVE  Balance(p, i) = SumFunctionOnSet(f, own)
<1>. DEFINE A(g) == [T \in SUBSET own |->
                       IF T = {} THEN 0 ELSE hold[Pick(T)].amount + g[T \ {Pick(T)}]]
            B(g) == [T \in SUBSET own |-> IF T = {} THEN 0 ELSE f[Pick(T)] + g[T \ {Pick(T)}]]
            h == CHOOSE g : g = A(g)
<1>1. Balance(p, i) = h[own]
  BY DEF Balance, MapThenSumSet, MapThenFoldSet, Pick
<1>2. ASSUME NEW g  PROVE A(g) = B(g)
  <2>1. \A T \in SUBSET own : T # {} => Pick(T) \in own
    BY PickIn
  <2>2. \A T \in SUBSET own : T # {} => f[Pick(T)] = hold[Pick(T)].amount
    BY <2>1
  <2>. QED BY <2>2
<1>3. PICK g : IsSum(f, g, own) /\ \A T \in SUBSET own : SumFunctionOnSet(f, T) = g[T]
  BY ONLY IsFiniteSet(own), SumChosen
<1>4. g = A(g)
  BY <1>2, <1>3 DEF IsSum
<1>5. h = A(h)
  <2>. HIDE DEF A
  <2>. QED BY <1>4
<1>6. IsSum(f, h, own)
  <2>1. h = B(h)
    <3>. HIDE DEF A, B, h
    <3>. QED BY <1>2, <1>5
  <2>. HIDE DEF h
  <2>. QED BY <2>1 DEF IsSum
<1>7. h = g
  <2>. HIDE DEF h
  <2>. QED BY ONLY IsFiniteSet(own), <1>3, <1>6, SumUnique
<1>. QED BY <1>1, <1>3, <1>7

LEMMA RailTotalIs ==
  ASSUME NEW D
  PROVE  Rail!Total(D) = Total(D)
BY DEF Total, Rail!Total, MapThenSumSet, Rail!MapThenSumSet, MapThenFoldSet,
       Rail!MapThenFoldSet

Incoming(c, p, i) == Total({d \in Book[c] : d.payee = p /\ d.instrument = i})

Moved(c, i) == [d \in Book[c] |-> IF d.instrument = i THEN d.amount ELSE 0]

LEMMA BookTyped ==
  ASSUME NEW c \in Call
  PROVE  IsFiniteSet(Book[c]) /\ IsFiniteSet(Party)
         /\ \A d \in Book[c] : /\ d.payer \in Party /\ d.payee \in Party
                               /\ d.amount \in Nat \ {0} /\ d.instrument \in Instrument
<1>1. Book[c] \in SUBSET Debt
  BY CallTerms
<1>. QED BY <1>1, Finiteness DEF Debt, Amount

\* What a part of a book comes to.
LEMMA PartOfBook ==
  ASSUME NEW c \in Call, NEW W \in SUBSET Book[c],
         NEW f, \A d \in Book[c] : f[d] = IF d \in W THEN d.amount ELSE 0
  PROVE  /\ Total(W) = SumFunctionOnSet(f, Book[c]) /\ Total(W) \in Nat
<1>. DEFINE D == Book[c]
            g == [d \in D |-> d.amount]
            h == [d \in D |-> IF d \in W THEN g[d] ELSE 0]
<1>1. IsFiniteSet(D) /\ IsFiniteSet(W) /\ \A d \in D : g[d] \in Nat \ {0}
  BY BookTyped, FS_Subset
<1>2. \A d \in W : g[d] = d.amount
  OBVIOUS
<1>3. ASSUME NEW d \in D  PROVE h[d] = f[d] /\ f[d] \in Nat
  <2>1. f[d] = IF d \in W THEN d.amount ELSE 0
    OBVIOUS
  <2>2. g[d] = d.amount /\ g[d] \in Nat
    BY <1>1
  <2>3. h[d] = IF d \in W THEN g[d] ELSE 0
    OBVIOUS
  <2>. HIDE DEF g, h, D
  <2>. QED BY <2>1, <2>2, <2>3
<1>. HIDE DEF g
<1>4. Total(W) = SumFunctionOnSet(g, W)
  BY <1>1, <1>2, TotalIsSum
<1>5. SumFunctionOnSet(g, W) = SumFunctionOnSet(h, D)
  <2>. HIDE DEF D
  <2>1. W \in SUBSET D /\ \A d \in W : g[d] \in Int
    BY <1>1 DEF D
  <2>. QED BY <1>1, <2>1, SumPart
<1>. HIDE DEF h, D
<1>6. SumFunctionOnSet(h, D) = SumFunctionOnSet(f, D)
  BY <1>1, <1>3, SumSame
<1>7. SumFunctionOnSet(f, D) \in Nat
  BY <1>1, <1>3, SumNat
<1>. QED BY <1>4, <1>5, <1>6, <1>7 DEF D

\* The net positions of a book in an instrument sum to nothing.
LEMMA NetsSumToZero ==
  ASSUME NEW c \in Call, NEW i
  PROVE  /\ Positions(NetPositions(c, i)) /\ DOMAIN NetPositions(c, i) = Party
         /\ SumFunctionOnSet(NetPositions(c, i), Party) = 0
         /\ \A p \in Party : /\ Gross(c, p, i) \in Nat /\ Incoming(c, p, i) \in Nat
                             /\ NetPositions(c, i)[p] = Incoming(c, p, i) - Gross(c, p, i)
<1>. DEFINE D == Book[c]
            a == Moved(c, i)
            from == [d \in D |-> d.payer]
            to == [d \in D |-> d.payee]
            out == [p \in Party |-> [d \in D |-> IF from[d] = p THEN a[d] ELSE 0]]
            in == [p \in Party |-> [d \in D |-> IF to[d] = p THEN a[d] ELSE 0]]
            gross == [p \in Party |-> Gross(c, p, i)]
            incoming == [p \in Party |-> Incoming(c, p, i)]
            net == NetPositions(c, i)
<1>1. IsFiniteSet(D) /\ IsFiniteSet(Party)
  BY BookTyped
<1>2. Keyed(a, from, D, Party) /\ Keyed(a, to, D, Party)
  BY BookTyped DEF Keyed, Moved
<1>3. PartsOf(a, out, from, Party, D) /\ PartsOf(a, in, to, Party, D)
  BY DEF PartsOf
<1>4. ASSUME NEW p \in Party
      PROVE  /\ Gross(c, p, i) \in Nat /\ Incoming(c, p, i) \in Nat
             /\ Gross(c, p, i) = SumFunctionOnSet(out[p], D)
             /\ Incoming(c, p, i) = SumFunctionOnSet(in[p], D)
  <2>1. \A d \in D : out[p][d] = IF d \in {e \in D : e.payer = p /\ e.instrument = i}
                                 THEN d.amount ELSE 0
    BY DEF Moved
  <2>2. \A d \in D : in[p][d] = IF d \in {e \in D : e.payee = p /\ e.instrument = i}
                                THEN d.amount ELSE 0
    BY DEF Moved
  <2>. DEFINE V == {e \in D : e.payer = p /\ e.instrument = i}
              W == {e \in D : e.payee = p /\ e.instrument = i}
              f == out[p]
              g == in[p]
  <2>3. V \in SUBSET Book[c] /\ W \in SUBSET Book[c] /\ D = Book[c]
    OBVIOUS
  <2>4. Gross(c, p, i) = Total(V) /\ Incoming(c, p, i) = Total(W)
    BY DEF Gross, Incoming
  <2>. HIDE DEF V, W, D, f, g
  <2>5. Total(V) = SumFunctionOnSet(f, D) /\ Total(V) \in Nat
    BY <2>1, <2>3, PartOfBook DEF V, f
  <2>6. Total(W) = SumFunctionOnSet(g, D) /\ Total(W) \in Nat
    BY <2>2, <2>3, PartOfBook DEF W, g
  <2>. QED BY <2>4, <2>5, <2>6 DEF f, g
<1>5. TotalsOf(gross, out, Party, D) /\ TotalsOf(incoming, in, Party, D)
  <2>. HIDE DEF out, in, D
  <2>. QED BY <1>4 DEF TotalsOf
<1>6. ASSUME NEW p \in Party
      PROVE  /\ incoming[p] \in Int /\ gross[p] \in Int
             /\ net[p] = incoming[p] - gross[p]
             /\ net[p] = Incoming(c, p, i) - Gross(c, p, i)
  <2>1. net[p] = Incoming(c, p, i) - Gross(c, p, i)
    BY DEF NetPositions, Incoming
  <2>2. incoming[p] = Incoming(c, p, i) /\ gross[p] = Gross(c, p, i)
    OBVIOUS
  <2>. HIDE DEF incoming, gross, net, out, in
  <2>. QED BY <1>4, <2>1, <2>2
<1>7. DOMAIN net = Party
  BY DEF NetPositions
<1>. HIDE DEF D, a, from, to, out, in, gross, incoming, net
<1>8. SumFunctionOnSet(gross, Party) = SumFunctionOnSet(a, D)
  BY ONLY <1>1, <1>2, <1>3, <1>5, SumByNamedKey
<1>9. SumFunctionOnSet(incoming, Party) = SumFunctionOnSet(a, D)
  BY ONLY <1>1, <1>2, <1>3, <1>5, SumByNamedKey
<1>10. SumFunctionOnSet(net, Party) = SumFunctionOnSet(incoming, Party) - SumFunctionOnSet(gross, Party)
  BY ONLY <1>1, <1>6, SumMinus
<1>11. SumFunctionOnSet(gross, Party) \in Int
  BY ONLY <1>1, <1>6, SumInt
<1>12. SumFunctionOnSet(net, Party) = 0
  BY <1>8, <1>9, <1>10, <1>11
<1>13. Positions(net)
  BY <1>1, <1>6, <1>7 DEF Positions
<1>. QED BY <1>4, <1>6, <1>7, <1>12, <1>13 DEF net

\* What the matching of a book's positions in an instrument does.
LEMMA MatchOfBook ==
  ASSUME NEW c \in Call, NEW i, NEW net, net = NetPositions(c, i)
  PROVE  /\ Match(net) \in Seq(MatchLeg(net))
         /\ \A p \in Party : /\ SeqTotal(Paid(net)[p], Match(net)) = Owes(net)[p]
                             /\ SeqTotal(Got(net)[p], Match(net)) = DueTo(net)[p]
<1>1. /\ Positions(net) /\ DOMAIN net = Party
      /\ SumFunctionOnSet(net, DOMAIN net) = 0
  BY NetsSumToZero
<1>2. /\ Match(net) \in Seq(MatchLeg(net))
      /\ \A p \in DOMAIN net : /\ SeqTotal(Paid(net)[p], Match(net)) = Owes(net)[p]
                               /\ SeqTotal(Got(net)[p], Match(net)) = DueTo(net)[p]
  BY ONLY <1>1, MatchSettles
<1>. QED BY <1>1, <1>2

TokenLeg == [sender: Party, receiver: Party, amount: Amount, instrument: Instrument]

\* What a leg takes from and brings to a party in an instrument.
Sends(p, i) ==
  [l \in TokenLeg |-> IF l.sender = p /\ l.instrument = i THEN l.amount ELSE 0]

Receives(p, i) ==
  [l \in TokenLeg |-> IF l.receiver = p /\ l.instrument = i THEN l.amount ELSE 0]

LEMMA SendsTyped ==
  ASSUME NEW p, NEW i
  PROVE  Sends(p, i) \in [TokenLeg -> Nat] /\ Receives(p, i) \in [TokenLeg -> Nat]
         /\ Sends(p, i) \in [TokenLeg -> Int] /\ Receives(p, i) \in [TokenLeg -> Int]
<1>1. \A l \in TokenLeg : l.amount \in Nat
  BY DEF TokenLeg, Amount
<1>. QED BY <1>1 DEF Sends, Receives

\* The legs in one instrument.
LEMMA LegsInTotals ==
  ASSUME NEW c \in Call, NEW i \in Instrument, NEW p \in Party, NEW j,
         NEW net, net = NetPositions(c, i)
  PROVE  /\ LegsIn(c, i) \in Seq(TokenLeg)
         /\ SeqTotal(Sends(p, j), LegsIn(c, i)) = IF i = j THEN Owes(net)[p] ELSE 0
         /\ SeqTotal(Receives(p, j), LegsIn(c, i)) = IF i = j THEN DueTo(net)[p] ELSE 0
<1>. DEFINE m == Match(net)
            q == LegsIn(c, i)
            L == MatchLeg(net)
<1>1. /\ m \in Seq(L)
      /\ SeqTotal(Paid(net)[p], m) = Owes(net)[p]
      /\ SeqTotal(Got(net)[p], m) = DueTo(net)[p]
  BY MatchOfBook
<1>2. DOMAIN net = Party
  BY NetsSumToZero
<1>3. \A l \in L : l.sender \in Party /\ l.receiver \in Party /\ l.amount \in Nat \ {0}
  BY <1>2 DEF MatchLeg, Payers, Receivers
<1>4. q = [n \in DOMAIN m |-> [sender |-> m[n].sender, receiver |-> m[n].receiver,
                               amount |-> m[n].amount, instrument |-> i]]
  BY DEF LegsIn
<1>. DEFINE D == 1 .. Len(m)
<1>. HIDE DEF m, q, L
<1>5. DOMAIN m = D /\ Len(m) \in Nat /\ \A n \in D : m[n] \in L
  BY <1>1
<1>6. q \in Seq(TokenLeg) /\ Len(q) = Len(m) /\ IsFiniteSet(D)
  <2>1. ASSUME NEW n \in D
        PROVE  [sender |-> m[n].sender, receiver |-> m[n].receiver,
                amount |-> m[n].amount, instrument |-> i] \in TokenLeg
    BY <1>3, <1>5 DEF TokenLeg, Amount
  <2>2. q \in [D -> TokenLeg]
    BY <1>4, <1>5, <2>1
  <2>. PICK k \in Nat : k = Len(m)
    BY <1>5
  <2>3. q \in [1 .. k -> TokenLeg]
    BY <2>2
  <2>4. q \in Seq(TokenLeg) /\ Len(q) = k
    BY ONLY <2>3, k \in Nat
  <2>. QED BY <2>4, FS_Interval
<1>7. ASSUME NEW n \in D
      PROVE  /\ q[n] \in TokenLeg
             /\ q[n].sender = m[n].sender /\ q[n].receiver = m[n].receiver
             /\ q[n].amount = m[n].amount /\ q[n].instrument = i
  <2>1. q[n] = [sender |-> m[n].sender, receiver |-> m[n].receiver,
                amount |-> m[n].amount, instrument |-> i]
    BY <1>4, <1>5
  <2>2. q[n] \in TokenLeg
    BY <1>6
  <2>. QED BY <2>1, <2>2
<1>8. ASSUME NEW n \in D
      PROVE  /\ Sends(p, j)[q[n]] = IF i = j THEN Paid(net)[p][m[n]] ELSE 0
             /\ Receives(p, j)[q[n]] = IF i = j THEN Got(net)[p][m[n]] ELSE 0
  <2>1. /\ Sends(p, j)[q[n]] = IF q[n].sender = p /\ q[n].instrument = j THEN q[n].amount ELSE 0
        /\ Receives(p, j)[q[n]]
             = IF q[n].receiver = p /\ q[n].instrument = j THEN q[n].amount ELSE 0
    BY <1>7 DEF Sends, Receives
  <2>2. /\ Paid(net)[p][m[n]] = IF m[n].sender = p THEN m[n].amount ELSE 0
        /\ Got(net)[p][m[n]] = IF m[n].receiver = p THEN m[n].amount ELSE 0
    BY <1>2, <1>5 DEF Paid, Got, L
  <2>. QED BY <1>7, <2>1, <2>2
<1>9. ASSUME NEW v, NEW w, \A n \in D : v[q[n]] = IF i = j THEN w[m[n]] ELSE 0
      PROVE  SeqTotal(v, q) = IF i = j THEN SeqTotal(w, m) ELSE 0
  <2>. DEFINE f == [n \in D |-> v[q[n]]]
              g == [n \in D |-> w[m[n]]]
  <2>1. \A n \in D : f[n] = IF i = j THEN g[n] ELSE 0
    BY <1>9
  <2>2. SeqTotal(v, q) = SumFunctionOnSet(f, D) /\ SeqTotal(w, m) = SumFunctionOnSet(g, D)
    BY <1>6 DEF SeqTotal
  <2>. HIDE DEF f, g, D
  <2>3. CASE i = j
    <3>1. \A n \in D : f[n] = g[n]
      BY <2>1, <2>3
    <3>2. SumFunctionOnSet(f, D) = SumFunctionOnSet(g, D)
      BY <1>6, <3>1, SumSame
    <3>. QED BY <2>2, <2>3, <3>2
  <2>4. CASE i # j
    <3>1. \A n \in D : f[n] = 0
      BY <2>1, <2>4
    <3>2. SumFunctionOnSet(f, D) = 0
      BY <1>6, <3>1, SumZero
    <3>. QED BY <2>2, <2>4, <3>2
  <2>. QED BY <2>3, <2>4
<1>. DEFINE v == Sends(p, j)
            w == Receives(p, j)
            x == Paid(net)[p]
            y == Got(net)[p]
<1>10. /\ \A n \in D : v[q[n]] = IF i = j THEN x[m[n]] ELSE 0
       /\ \A n \in D : w[q[n]] = IF i = j THEN y[m[n]] ELSE 0
  BY <1>8
<1>. HIDE DEF v, w, x, y
<1>11. /\ SeqTotal(v, q) = IF i = j THEN SeqTotal(x, m) ELSE 0
       /\ SeqTotal(w, q) = IF i = j THEN SeqTotal(y, m) ELSE 0
  BY <1>9, <1>10
<1>. QED BY <1>1, <1>6, <1>11 DEF m, q, v, w, x, y

LEMMA InstrumentsFinite ==
  ASSUME NEW c \in Call
  PROVE  IsFiniteSet(Instruments(c)) /\ Instruments(c) \subseteq Instrument
<1>1. IsFiniteSet(Book[c]) /\ \A d \in Book[c] : d.instrument \in Instrument
  BY BookTyped
<1>2. [d \in Book[c] |-> d.instrument] \in Surjection(Book[c], Instruments(c))
  BY DEF Surjection, Instruments
<1>. QED BY <1>1, <1>2, FS_Surjection DEF Instruments

\* What a party gives up for the netting of a book, and what it gets.
NetOut(c, p, i) ==
  IF NetPositions(c, i)[p] < 0 THEN -NetPositions(c, i)[p] ELSE 0

NetIn(c, p, i) ==
  IF NetPositions(c, i)[p] > 0 THEN NetPositions(c, i)[p] ELSE 0

\* The legs of a book, instrument by instrument.
NetRun(c) ==
  LET order == SetToSeq(Instruments(c)) IN [n \in DOMAIN order |-> LegsIn(c, order[n])]

LEMMA NetRunTyped ==
  ASSUME NEW c \in Call
  PROVE  /\ NetRun(c) \in Seq(Seq(TokenLeg)) /\ Len(NetRun(c)) = Len(SetToSeq(Instruments(c)))
         /\ \A n \in 1 .. Len(NetRun(c)) :
              NetRun(c)[n] = LegsIn(c, SetToSeq(Instruments(c))[n])
         /\ Legs[c] = FlattenSeq(NetRun(c))
<1>. DEFINE order == SetToSeq(Instruments(c))
            I == Instruments(c)
            ss == NetRun(c)
<1>1. IsFiniteSet(I) /\ I \subseteq Instrument
  BY InstrumentsFinite
<1>2. order \in Seq(I)
  BY <1>1, SetToSeqLists
<1>3. ss = [n \in DOMAIN order |-> LegsIn(c, order[n])]
  BY DEF NetRun
<1>4. Legs[c] = FlattenSeq(ss)
  BY DEF Legs, NetRun
<1>5. \A i \in I : LegsIn(c, i) \in Seq(TokenLeg)
  <2>. SUFFICES ASSUME NEW i \in I  PROVE LegsIn(c, i) \in Seq(TokenLeg)
    OBVIOUS
  <2>1. PICK d \in Book[c] : d.instrument = i
    BY DEF Instruments
  <2>2. d.payer \in Party /\ i \in Instrument
    BY <1>1, <2>1, BookTyped
  <2>. QED BY <2>2, LegsInTotals
<1>. HIDE DEF order, I, ss
<1>. PICK k \in Nat : k = Len(order)
  BY <1>2
<1>6. \A n \in 1 .. k : order[n] \in I
  BY <1>2
<1>7. ss = [n \in 1 .. k |-> LegsIn(c, order[n])]
  BY <1>2, <1>3
<1>8. \A n \in 1 .. k : LegsIn(c, order[n]) \in Seq(TokenLeg)
  BY <1>5, <1>6
<1>9. ss \in [1 .. k -> Seq(TokenLeg)]
  BY <1>7, <1>8
<1>10. ss \in Seq(Seq(TokenLeg)) /\ Len(ss) = k
  <2>. DEFINE Q == Seq(TokenLeg)
  <2>1. ss \in [1 .. k -> Q]
    BY <1>9
  <2>. HIDE DEF Q
  <2>2. ss \in Seq(Q) /\ Len(ss) = k
    BY ONLY <2>1, k \in Nat
  <2>. QED BY <2>2 DEF Q
<1>11. \A n \in 1 .. Len(ss) : ss[n] = LegsIn(c, order[n])
  BY <1>7, <1>10
<1>. QED BY <1>4, <1>10, <1>11 DEF order, ss

\* The legs of a book's netting, taken together, take from a party and bring it
\* just its net position in every instrument.
THEOREM LegsSettleTheBook ==
  ASSUME NEW c \in Call, NEW p \in Party, NEW i
  PROVE  /\ Legs[c] \in Seq(TokenLeg)
         /\ SeqTotal(Sends(p, i), Legs[c]) = NetOut(c, p, i)
         /\ SeqTotal(Receives(p, i), Legs[c]) = NetIn(c, p, i)
<1>. DEFINE order == SetToSeq(Instruments(c))
            I == Instruments(c)
            ss == NetRun(c)
            k == Cardinality(I)
<1>1. IsFiniteSet(I) /\ I \subseteq Instrument
  BY InstrumentsFinite
<1>2. /\ k \in Nat /\ Len(order) = k /\ order \in [1 .. k -> I]
      /\ \A m, n \in 1 .. k : m # n => order[m] # order[n]
      /\ \A x \in I : \E n \in 1 .. k : order[n] = x
  BY <1>1, SetToSeqLists
<1>3. /\ ss \in Seq(Seq(TokenLeg)) /\ Len(ss) = k
      /\ \A n \in 1 .. k : ss[n] = LegsIn(c, order[n])
      /\ Legs[c] = FlattenSeq(ss)
  BY <1>2, NetRunTyped
<1>. DEFINE out == Sends(p, i)
            in == Receives(p, i)
            f == [n \in 1 .. Len(ss) |-> SeqTotal(out, ss[n])]
            g == [n \in 1 .. Len(ss) |-> SeqTotal(in, ss[n])]
<1>4. out \in [TokenLeg -> Int] /\ in \in [TokenLeg -> Int]
  BY SendsTyped
<1>. HIDE DEF out, in
<1>5. /\ FlattenSeq(ss) \in Seq(TokenLeg)
      /\ SeqTotal(out, FlattenSeq(ss)) = SumFunctionOnSet(f, 1 .. Len(ss))
      /\ SeqTotal(in, FlattenSeq(ss)) = SumFunctionOnSet(g, 1 .. Len(ss))
  BY <1>3, <1>4, SeqTotalFlatten
<1>6. ASSUME NEW n \in 1 .. k
      PROVE  /\ f[n] = IF order[n] = i THEN NetOut(c, p, i) ELSE 0
             /\ g[n] = IF order[n] = i THEN NetIn(c, p, i) ELSE 0
  <2>. DEFINE j == order[n]
              net == NetPositions(c, j)
  <2>1. j \in Instrument
    BY <1>1, <1>2
  <2>2. /\ SeqTotal(Sends(p, i), LegsIn(c, j)) = IF j = i THEN Owes(net)[p] ELSE 0
        /\ SeqTotal(Receives(p, i), LegsIn(c, j)) = IF j = i THEN DueTo(net)[p] ELSE 0
    BY <2>1, LegsInTotals
  <2>3. f[n] = SeqTotal(Sends(p, i), LegsIn(c, j)) /\ g[n] = SeqTotal(Receives(p, i), LegsIn(c, j))
    BY <1>3 DEF out, in
  <2>4. j = i => Owes(net)[p] = NetOut(c, p, i) /\ DueTo(net)[p] = NetIn(c, p, i)
    <3>1. DOMAIN net = Party
      BY NetsSumToZero
    <3>. QED BY <3>1 DEF Owes, DueTo, NetOut, NetIn
  <2>. QED BY <2>2, <2>3, <2>4
<1>7. NetPositions(c, i)[p] \in Int /\ NetOut(c, p, i) \in Int /\ NetIn(c, p, i) \in Int
  <2>1. NetPositions(c, i)[p] \in Int
    BY NetsSumToZero DEF Positions
  <2>. QED BY <2>1 DEF NetOut, NetIn
<1>. HIDE DEF f, g
<1>8. CASE i \in I
  <2>1. PICK x \in 1 .. k : order[x] = i
    BY <1>2, <1>8
  <2>2. \A n \in 1 .. k : n # x => order[n] # i
    BY <1>2, <2>1
  <2>3. \A n \in 1 .. k : n # x => f[n] = 0 /\ g[n] = 0
    BY <1>6, <2>2
  <2>4. f[x] = NetOut(c, p, i) /\ g[x] = NetIn(c, p, i)
    BY <1>6, <2>1
  <2>. DEFINE o == NetOut(c, p, i)
              r == NetIn(c, p, i)
  <2>. HIDE DEF k, o, r
  <2>5. f[x] \in Int /\ g[x] \in Int
    BY <1>7, <2>4 DEF o, r
  <2>6. SumFunctionOnSet(f, 1 .. k) = f[x]
    BY ONLY <1>2, <2>3, <2>5, SumOfOne
  <2>7. SumFunctionOnSet(g, 1 .. k) = g[x]
    BY ONLY <1>2, <2>3, <2>5, SumOfOne
  <2>. QED BY <1>3, <1>5, <2>4, <2>6, <2>7 DEF out, in, o, r
<1>9. CASE i \notin I
  <2>1. \A n \in 1 .. k : order[n] # i
    BY <1>2, <1>9
  <2>2. \A n \in 1 .. k : f[n] = 0 /\ g[n] = 0
    BY <1>6, <2>1
  <2>3. NetOut(c, p, i) = 0 /\ NetIn(c, p, i) = 0
    <3>1. /\ {d \in Book[c] : d.payee = p /\ d.instrument = i} = {}
          /\ {d \in Book[c] : d.payer = p /\ d.instrument = i} = {}
      BY <1>9 DEF Instruments
    <3>2. Total({}) = 0
      <4>. DEFINE h == [x \in {} |-> 0]
      <4>1. IsFiniteSet({}) /\ \A d \in {} : h[d] = d.amount
        BY FS_EmptySet
      <4>. HIDE DEF h
      <4>2. Total({}) = SumFunctionOnSet(h, {})
        BY <4>1, TotalIsSum
      <4>. QED BY <4>2, SumEmpty
    <3>3. NetPositions(c, i)[p] = 0
      BY <3>1, <3>2 DEF NetPositions, Gross
    <3>. QED BY <3>3 DEF NetOut, NetIn
  <2>4. IsFiniteSet(1 .. k)
    BY <1>2, FS_Interval
  <2>. HIDE DEF k
  <2>5. SumFunctionOnSet(f, 1 .. k) = 0 /\ SumFunctionOnSet(g, 1 .. k) = 0
    BY <2>2, <2>4, SumZero
  <2>. QED BY <1>3, <1>5, <2>3, <2>5 DEF out, in
<1>. QED BY <1>8, <1>9

AmountOf == [l \in TokenLeg |-> l.amount]

\* One leg of settleSenderLegs.
Pay(h, leg, before) ==
  IF before # Refused /\ Matches(h, leg) /\ Covers(before, leg.amount)
  THEN before - leg.amount ELSE Refused

LeftRun(g, h, legs) ==
  g = [n \in 0 .. Len(legs) |-> IF n = 0 THEN h.amount ELSE Pay(h, legs[n], g[n - 1])]

LEMMA LeftRunIs ==
  ASSUME NEW h \in TGHolding, NEW legs \in Seq(TokenLeg)
  PROVE  \E g : LeftRun(g, h, legs) /\ Left(h, legs) = g[Len(legs)]
<1>. DEFINE g == CHOOSE f : LeftRun(f, h, legs)
<1>1. Left(h, legs) = g[Len(legs)]
  BY DEF Left, LeftRun, Pay
<1>2. \E f : LeftRun(f, h, legs)
  <2>. DEFINE N == Len(legs)
              a == h.amount
              F == [n \in 1 .. N |-> [b \in Int |-> Pay(h, legs[n], b)]]
  <2>1. N \in Nat /\ a \in Int
    BY DEF TGHolding, Amount
  <2>2. ASSUME NEW n \in 1 .. N, NEW b \in Int
        PROVE  F[n][b] = Pay(h, legs[n], b) /\ F[n][b] \in Int
    <3>1. legs[n] \in TokenLeg
      OBVIOUS
    <3>2. legs[n].amount \in Int
      BY <3>1 DEF TokenLeg, Amount
    <3>3. Pay(h, legs[n], b) \in Int
      BY <3>2 DEF Pay, Refused
    <3>. QED BY <3>3
  <2>3. StaysIn(F, N, Int)
    BY <2>2 DEF StaysIn
  <2>. HIDE DEF F, N, a
  <2>4. PICK f \in [0 .. N -> Int] : Iterates(f, a, F, N)
    BY <2>1, <2>3, Recursion
  <2>5. ASSUME NEW n \in 0 .. N
        PROVE  f[n] = IF n = 0 THEN a ELSE Pay(h, legs[n], f[n - 1])
    <3>1. CASE n = 0
      BY <2>4, <3>1 DEF Iterates
    <3>2. CASE n # 0
      <4>1. n \in 1 .. N /\ n - 1 \in 0 .. N
        BY <2>1, <3>2
      <4>2. f[n - 1] \in Int
        BY <2>4, <4>1
      <4>3. f[n] = F[n][f[n - 1]]
        BY <2>4, <4>1 DEF Iterates
      <4>. QED BY <2>2, <3>2, <4>1, <4>2, <4>3
    <3>. QED BY <3>1, <3>2
  <2>6. f = [n \in 0 .. N |-> IF n = 0 THEN a ELSE Pay(h, legs[n], f[n - 1])]
    BY <2>4, <2>5
  <2>. QED BY <2>6 DEF LeftRun, N, a
<1>3. LeftRun(g, h, legs)
  BY <1>2
<1>. HIDE DEF g
<1>. QED BY <1>1, <1>3

\* A holding pays legs just if they are in its instrument and it is worth as
\* much as them, and then what they leave of it is the difference.
LEMMA LeftIs ==
  ASSUME NEW h \in TGHolding, NEW legs \in Seq(TokenLeg)
  PROVE  /\ SeqTotal(AmountOf, legs) \in Int
         /\ Left(h, legs) # Refused =>
              /\ Left(h, legs) = h.amount - SeqTotal(AmountOf, legs) /\ Left(h, legs) \in Nat
              /\ \A n \in 1 .. Len(legs) : legs[n].instrument = h.instrument
         /\ /\ \A n \in 1 .. Len(legs) : legs[n].instrument = h.instrument
            /\ SeqTotal(AmountOf, legs) <= h.amount
            => Left(h, legs) # Refused
<1>1. PICK g : LeftRun(g, h, legs) /\ Left(h, legs) = g[Len(legs)]
  BY LeftRunIs
<1>. PICK N \in Nat : N = Len(legs)
  OBVIOUS
<1>. DEFINE am == [n \in 1 .. N |-> AmountOf[legs[n]]]
            P(n) == SumFunctionOnSet(am, 1 .. n)
            Fits(n) == \A k \in 1 .. n : legs[k].instrument = h.instrument
            a == h.amount
            G == {n \in 0 .. N :
                    /\ P(n) \in Int
                    /\ \/ g[n] = Refused /\ (~ Fits(n) \/ P(n) > a)
                       \/ g[n] = a - P(n) /\ g[n] \in Nat /\ Fits(n)}
<1>2. a \in Nat
  BY DEF TGHolding, Amount
<1>3. \A n \in 1 .. N : am[n] = legs[n].amount /\ am[n] \in Nat
  <2>. TAKE n \in 1 .. N
  <2>1. legs[n] \in TokenLeg
    OBVIOUS
  <2>2. legs[n].amount \in Nat /\ AmountOf[legs[n]] = legs[n].amount
    BY <2>1 DEF TokenLeg, Amount, AmountOf
  <2>. QED BY <2>2
<1>. HIDE DEF am, a
<1>4. /\ g[0] = a
      /\ \A n \in 0 .. N - 1 : g[n + 1] = Pay(h, legs[n + 1], g[n])
  <2>1. g = [n \in 0 .. N |-> IF n = 0 THEN a ELSE Pay(h, legs[n], g[n - 1])]
    BY <1>1 DEF LeftRun, a
  <2>2. g[0] = a
    BY <2>1
  <2>3. ASSUME NEW n \in 0 .. N - 1  PROVE g[n + 1] = Pay(h, legs[n + 1], g[n])
    <3>1. n + 1 \in 0 .. N /\ n + 1 # 0 /\ (n + 1) - 1 = n
      OBVIOUS
    <3>2. g[n + 1] = IF n + 1 = 0 THEN a ELSE Pay(h, legs[n + 1], g[(n + 1) - 1])
      BY <2>1, <3>1
    <3>. QED BY <3>1, <3>2
  <2>. QED BY <2>2, <2>3
<1>5. 0 \in G
  <2>1. P(0) = 0
    <3>1. 1 .. 0 = {}
      OBVIOUS
    <3>. QED BY <3>1, SumEmpty
  <2>2. Fits(0)
    OBVIOUS
  <2>3. 0 \in 0 .. N
    OBVIOUS
  <2>. HIDE DEF P, Fits
  <2>. QED BY <1>2, <1>4, <2>1, <2>2, <2>3
<1>6. ASSUME NEW n \in 0 .. N - 1, n \in G  PROVE n + 1 \in G
  <2>. DEFINE m == n + 1
              y == legs[m].amount
  <2>1. m \in 1 .. N /\ m \in 0 .. N /\ n \in Nat /\ m \in Nat
    OBVIOUS
  <2>2. y \in Nat /\ am[m] = y
    BY <1>3, <2>1
  <2>3. P(m) = P(n) + y
    <3>1. IntsOn(am, 1 .. n + 1)
      <4>1. \A k \in 1 .. n + 1 : k \in 1 .. N
        OBVIOUS
      <4>. QED BY <1>3, <4>1 DEF IntsOn
    <3>2. SumFunctionOnSet(am, 1 .. n + 1) = SumFunctionOnSet(am, 1 .. n) + am[n + 1]
      BY <2>1, <3>1, SumNext
    <3>. QED BY <2>2, <3>2
  <2>4. Fits(m) <=> Fits(n) /\ legs[m].instrument = h.instrument
    <3>1. \A k \in 1 .. m : k \in 1 .. n \/ k = m
      OBVIOUS
    <3>2. m \in 1 .. m /\ \A k \in 1 .. n : k \in 1 .. m
      OBVIOUS
    <3>. HIDE DEF m
    <3>. QED BY <3>1, <3>2
  <2>5. g[m] = Pay(h, legs[m], g[n])
    BY <1>4
  <2>6. /\ P(n) \in Int
        /\ \/ g[n] = Refused /\ (~ Fits(n) \/ P(n) > a)
           \/ g[n] = a - P(n) /\ g[n] \in Nat /\ Fits(n)
    BY <1>6
  <2>. DEFINE pn == P(n)
              pm == P(m)
              gn == g[n]
              gm == g[m]
              fit == legs[m].instrument = h.instrument
  <2>7. gm = IF gn # -1 /\ fit /\ gn >= y THEN gn - y ELSE -1
    BY <2>5 DEF Pay, Matches, Covers, Refused
  <2>8. /\ pn \in Int
        /\ \/ gn = -1 /\ (~ Fits(n) \/ pn > a)
           \/ gn = a - pn /\ gn \in Nat /\ Fits(n)
    BY <2>6 DEF Refused
  <2>9. pm = pn + y
    BY <2>3
  <2>10. Fits(m) <=> Fits(n) /\ fit
    BY <2>4
  <2>. HIDE DEF P, Fits, pn, pm, gn, gm, fit, m, y
  <2>11. /\ pm \in Int
         /\ \/ gm = -1 /\ (~ Fits(m) \/ pm > a)
            \/ gm = a - pm /\ gm \in Nat /\ Fits(m)
    <3>1. pm \in Int
      BY <2>2, <2>8, <2>9
    <3>2. CASE gn = -1 /\ ~ Fits(n)
      BY <2>7, <2>10, <3>1, <3>2
    <3>3. CASE gn = -1 /\ pn > a
      <4>1. pm > a
        BY <1>2, <2>2, <2>8, <2>9, <3>3
      <4>. QED BY <2>7, <3>1, <3>3, <4>1
    <3>4. CASE gn = a - pn /\ gn \in Nat /\ Fits(n) /\ ~ fit
      BY <2>7, <2>10, <3>1, <3>4
    <3>5. CASE gn = a - pn /\ gn \in Nat /\ Fits(n) /\ fit /\ gn < y
      <4>1. gm = -1
        BY <2>2, <2>7, <3>5
      <4>2. pm > a
        BY <1>2, <2>2, <2>8, <2>9, <3>5
      <4>. QED BY <3>1, <4>1, <4>2
    <3>6. CASE gn = a - pn /\ gn \in Nat /\ Fits(n) /\ fit /\ ~ (gn < y)
      <4>1. gn >= y /\ gn # -1
        BY <2>2, <3>6
      <4>2. gm = gn - y
        BY <2>7, <3>6, <4>1
      <4>3. gm = a - pm /\ gm \in Nat
        BY <1>2, <2>2, <2>8, <2>9, <3>6, <4>1, <4>2
      <4>. QED BY <2>10, <3>1, <3>6, <4>3
    <3>. QED BY <2>8, <3>2, <3>3, <3>4, <3>5, <3>6
  <2>. QED BY <2>1, <2>11 DEF pm, gm, m, Refused
<1>7. \A n \in 0 .. N : n \in G
  <2>. HIDE DEF G
  <2>. QED BY <1>5, <1>6, CountUp
<1>8. N \in G
  BY <1>7
<1>9. SeqTotal(AmountOf, legs) = P(N)
  BY DEF SeqTotal, am
<1>10. Left(h, legs) = g[N]
  BY <1>1
<1>11. /\ P(N) \in Int
       /\ \/ g[N] = Refused /\ (~ Fits(N) \/ P(N) > a)
          \/ g[N] = a - P(N) /\ g[N] \in Nat /\ Fits(N)
  BY <1>8
<1>12. Fits(N) <=> \A n \in 1 .. Len(legs) : legs[n].instrument = h.instrument
  OBVIOUS
<1>. DEFINE l == Left(h, legs)
            t == SeqTotal(AmountOf, legs)
            fits == \A n \in 1 .. Len(legs) : legs[n].instrument = h.instrument
<1>13. /\ t \in Int
       /\ \/ l = -1 /\ (~ fits \/ t > a)
          \/ l = a - t /\ l \in Nat /\ fits
  <2>. HIDE DEF P
  <2>. QED BY <1>9, <1>10, <1>11, <1>12 DEF Refused
<1>. HIDE DEF l, t, fits, Fits, P
<1>14. /\ t \in Int
       /\ l # -1 => l = a - t /\ l \in Nat /\ fits
       /\ fits /\ t <= a => l # -1
  BY ONLY <1>2, <1>13
<1>. QED BY <1>14 DEF l, t, fits, a, Refused

\* Rank numbers a set of naturals from one on.
LEMMA RankNumbers ==
  ASSUME NEW S, IsFiniteSet(S), S \subseteq Nat
  PROVE  /\ Cardinality(S) \in Nat
         /\ \A n \in S : Rank(S, n) \in 1 .. Cardinality(S)
         /\ \A m, n \in S : m # n => Rank(S, m) # Rank(S, n)
         /\ \A r \in 1 .. Cardinality(S) : \E n \in S : Rank(S, n) = r
<1>. DEFINE Upto(n) == {m \in S : m <= n}
            f == [n \in S |-> Rank(S, n)]
<1>. PICK k \in Nat : k = Cardinality(S)
  BY FS_CardinalityType
<1>1. ASSUME NEW n \in S
      PROVE  /\ IsFiniteSet(Upto(n)) /\ n \in Upto(n) /\ Upto(n) \subseteq S
             /\ Rank(S, n) = Cardinality(Upto(n)) /\ Rank(S, n) \in 1 .. k
  <2>1. Upto(n) \in SUBSET S /\ n \in Nat
    OBVIOUS
  <2>2. n \in Upto(n)
    BY <2>1
  <2>3. Rank(S, n) = Cardinality(Upto(n))
    BY DEF Rank
  <2>. HIDE DEF Upto
  <2>4. IsFiniteSet(Upto(n)) /\ Cardinality(Upto(n)) <= k
    BY <2>1, FS_Subset
  <2>5. Cardinality(Upto(n)) \in Nat /\ Cardinality(Upto(n)) # 0
    BY <2>2, <2>4, FS_CardinalityType, FS_EmptySet
  <2>. QED BY <2>1, <2>2, <2>3, <2>4, <2>5
<1>2. ASSUME NEW m \in S, NEW n \in S, m < n  PROVE Rank(S, m) # Rank(S, n)
  <2>1. m \in Nat /\ n \in Nat /\ \A j \in S : j \in Nat
    OBVIOUS
  <2>2. \A j \in S : j <= m => j <= n
    BY <1>2, <2>1
  <2>3. Upto(m) \subseteq Upto(n)
    BY <2>2
  <2>4. n \notin Upto(m)
    BY <1>2, <2>1
  <2>. HIDE DEF Upto
  <2>5. Cardinality(Upto(m)) # Cardinality(Upto(n))
    BY <1>1, <2>3, <2>4, FS_Subset
  <2>. QED BY <1>1, <2>5
<1>3. \A m, n \in S : m # n => Rank(S, m) # Rank(S, n)
  <2>1. \A m, n \in S : m # n => m < n \/ n < m
    OBVIOUS
  <2>. QED BY <1>2, <2>1
<1>4. \A r \in 1 .. k : \E n \in S : f[n] = r
  <2>. DEFINE D == 1 .. k
  <2>1. IsFiniteSet(D) /\ Cardinality(D) = k
    BY FS_Interval
  <2>. HIDE DEF D, Upto
  <2>2. f \in [S -> D] /\ Apart(f, S)
    BY <1>1, <1>3 DEF Apart, D
  <2>. HIDE DEF f
  <2>3. Reaches(f, S, D)
    BY ONLY <2>1, <2>2, Onto, IsFiniteSet(S), k = Cardinality(S)
  <2>. QED BY <2>3 DEF D, Reaches
<1>5. \A r \in 1 .. k : \E n \in S : Rank(S, n) = r
  BY <1>4
<1>. HIDE DEF Upto
<1>. QED BY <1>1, <1>3, <1>5

\* The legs whose keys are in K.
At(c, K) == {n \in DOMAIN Legs[c] : Key(Legs[c][n]) \in K}

\* Where the r-th of them stands among the legs.
Place(c, K) == [r \in 1 .. Cardinality(At(c, K)) |-> CHOOSE n \in At(c, K) : Rank(At(c, K), n) = r]

\* v, on the legs whose keys are in K.
ValueAt(v, c, K) == [n \in DOMAIN Legs[c] |-> IF n \in At(c, K) THEN v[Legs[c][n]] ELSE 0]

LEMMA LegsTyped ==
  ASSUME NEW c \in Call
  PROVE  /\ Legs[c] \in Seq(TokenLeg) /\ DOMAIN Legs[c] = 1 .. Len(Legs[c])
         /\ Len(Legs[c]) \in Nat /\ IsFiniteSet(DOMAIN Legs[c])
         /\ \A n \in DOMAIN Legs[c] : Legs[c][n] \in TokenLeg
<1>1. Legs[c] \in Seq(TokenLeg)
  BY NetRunTyped, SeqTotalFlatten, SendsTyped
<1>. DEFINE q == Legs[c]
<1>. HIDE DEF q
<1>2. q \in Seq(TokenLeg)
  BY <1>1 DEF q
<1>3. DOMAIN q = 1 .. Len(q) /\ Len(q) \in Nat /\ \A n \in DOMAIN q : q[n] \in TokenLeg
  BY <1>2
<1>4. IsFiniteSet(DOMAIN q)
  BY <1>3, FS_Interval
<1>. QED BY <1>2, <1>3, <1>4 DEF q

LEMMA PlaceIs ==
  ASSUME NEW c \in Call, NEW K
  PROVE  /\ IsFiniteSet(At(c, K)) /\ Cardinality(At(c, K)) \in Nat
         /\ At(c, K) \in SUBSET (DOMAIN Legs[c])
         /\ Place(c, K) \in [1 .. Cardinality(At(c, K)) -> At(c, K)]
         /\ \A i, j \in 1 .. Cardinality(At(c, K)) : i # j => Place(c, K)[i] # Place(c, K)[j]
         /\ \A n \in At(c, K) : \E i \in 1 .. Cardinality(At(c, K)) : Place(c, K)[i] = n
<1>. DEFINE S == At(c, K)
            m == Place(c, K)
<1>1. S \in SUBSET (DOMAIN Legs[c])
  BY DEF At
<1>2. IsFiniteSet(S) /\ S \subseteq Nat
  <2>1. DOMAIN Legs[c] \subseteq Nat /\ IsFiniteSet(DOMAIN Legs[c])
    BY LegsTyped
  <2>. HIDE DEF S
  <2>. QED BY <1>1, <2>1, FS_Subset
<1>3. m = [r \in 1 .. Cardinality(S) |-> CHOOSE n \in S : Rank(S, n) = r]
  BY DEF Place
<1>. HIDE DEF S, m
<1>. PICK k \in Nat : k = Cardinality(S)
  BY <1>2, FS_CardinalityType
<1>4. /\ \A n \in S : Rank(S, n) \in 1 .. k
      /\ \A i, j \in S : i # j => Rank(S, i) # Rank(S, j)
      /\ \A r \in 1 .. k : \E n \in S : Rank(S, n) = r
  BY <1>2, RankNumbers
<1>5. \A r \in 1 .. k : m[r] \in S /\ Rank(S, m[r]) = r
  BY <1>3, <1>4
<1>6. m \in [1 .. k -> S]
  BY <1>3, <1>5
<1>7. \A i, j \in 1 .. k : i # j => m[i] # m[j]
  BY <1>5
<1>8. \A n \in S : \E i \in 1 .. k : m[i] = n
  <2>. SUFFICES ASSUME NEW n \in S  PROVE m[Rank(S, n)] = n /\ Rank(S, n) \in 1 .. k
    OBVIOUS
  <2>1. Rank(S, n) \in 1 .. k
    BY <1>4
  <2>2. m[Rank(S, n)] \in S /\ Rank(S, m[Rank(S, n)]) = Rank(S, n)
    BY <1>5, <2>1
  <2>. QED BY <1>4, <2>1, <2>2
<1>. QED BY <1>1, <1>2, <1>6, <1>7, <1>8 DEF S, m

\* LegsFrom has the legs with the keys asked for and no others, each once.
LEMMA LegsFromIs ==
  ASSUME NEW c \in Call, NEW K
  PROVE  /\ LegsFrom(c, K) \in Seq(TokenLeg)
         /\ \A n \in 1 .. Len(LegsFrom(c, K)) : Key(LegsFrom(c, K)[n]) \in K
         /\ \A v \in [TokenLeg -> Int] :
              SeqTotal(v, LegsFrom(c, K)) = SumFunctionOnSet(ValueAt(v, c, K), DOMAIN Legs[c])
<1>. DEFINE S == At(c, K)
            m == Place(c, K)
            q == Legs[c]
            D == DOMAIN q
            F == LegsFrom(c, K)
<1>1. F = [r \in 1 .. Cardinality(S) |-> q[m[r]]]
  <2>1. F = [r \in 1 .. Cardinality(S) |-> q[CHOOSE n \in S : Rank(S, n) = r]]
    BY DEF LegsFrom, At
  <2>2. \A r \in 1 .. Cardinality(S) : m[r] = CHOOSE n \in S : Rank(S, n) = r
    BY DEF Place
  <2>. HIDE DEF F, m, S
  <2>. QED BY <2>1, <2>2
<1>2. /\ IsFiniteSet(S) /\ S \in SUBSET D
      /\ m \in [1 .. Cardinality(S) -> S]
      /\ \A i, j \in 1 .. Cardinality(S) : i # j => m[i] # m[j]
      /\ \A n \in S : \E i \in 1 .. Cardinality(S) : m[i] = n
  BY PlaceIs
<1>3. IsFiniteSet(D) /\ \A n \in D : q[n] \in TokenLeg
  BY LegsTyped
<1>4. \A n \in S : Key(q[n]) \in K
  BY DEF At
<1>5. \A v : ValueAt(v, c, K) = [n \in D |-> IF n \in S THEN v[q[n]] ELSE 0]
  BY DEF ValueAt
<1>. HIDE DEF S, m, q, D, F
<1>. PICK k \in Nat : k = Cardinality(S)
  BY <1>2, FS_CardinalityType
<1>6. \A r \in 1 .. k : F[r] = q[m[r]] /\ m[r] \in S /\ q[m[r]] \in TokenLeg
  BY <1>1, <1>2, <1>3
<1>7. F \in Seq(TokenLeg) /\ Len(F) = k
  <2>1. F \in [1 .. k -> TokenLeg]
    BY <1>1, <1>6
  <2>. QED BY ONLY <2>1, k \in Nat
<1>8. \A n \in 1 .. k : Key(F[n]) \in K
  BY <1>4, <1>6
<1>9. ASSUME NEW v \in [TokenLeg -> Int]
      PROVE  SeqTotal(v, F) = SumFunctionOnSet(ValueAt(v, c, K), D)
  <2>. DEFINE I == 1 .. k
              f == [n \in D |-> v[q[n]]]
              g == [n \in I |-> v[F[n]]]
              h == [n \in D |-> IF n \in S THEN f[n] ELSE 0]
  <2>1. SeqTotal(v, F) = SumFunctionOnSet(g, I)
    BY <1>7 DEF SeqTotal
  <2>2. IsFiniteSet(I) /\ \A n \in D : f[n] \in Int
    <3>1. IsFiniteSet(I)
      BY FS_Interval
    <3>2. \A n \in D : f[n] \in Int
      BY <1>3
    <3>. QED BY <3>1, <3>2
  <2>3. h = ValueAt(v, c, K)
    <3>1. \A n \in S : n \in D
      BY <1>2
    <3>2. \A n \in D : (IF n \in S THEN f[n] ELSE 0) = IF n \in S THEN v[q[n]] ELSE 0
      OBVIOUS
    <3>. QED BY <1>5, <3>2
  <2>4. Along(g, f, m, I)
    BY <1>2, <1>6 DEF Along
  <2>5. m \in [I -> S] /\ Apart(m, I) /\ Reaches(m, I, S)
    BY <1>2 DEF Apart, Reaches
  <2>6. IntsOn(f, S) /\ \A n \in S : f[n] \in Int
    BY <1>2, <2>2 DEF IntsOn
  <2>. HIDE DEF I, f, g
  <2>7. SumFunctionOnSet(f, S) = SumFunctionOnSet(g, I)
    <3>1. IsFiniteSet(S) /\ IsFiniteSet(I) /\ IntsOn(f, S)
      BY <1>2, <2>2, <2>6
    <3>. HIDE DEF h
    <3>. QED BY ONLY <2>4, <2>5, <3>1, SumReindex
  <2>8. SumFunctionOnSet(f, S) = SumFunctionOnSet(h, D)
    BY ONLY <1>2, <1>3, <2>6, SumPart
  <2>. QED BY <2>1, <2>3, <2>7, <2>8
<1>. QED BY <1>7, <1>8, <1>9 DEF F, D, q

LEMMA KeyIs ==
  ASSUME NEW l \in TokenLeg, NEW p, NEW i
  PROVE  Key(l) = <<p, i>> <=> l.sender = p /\ l.instrument = i
BY DEF Key

\* The legs of one key are worth what its party owes net.
LEMMA LegsOfKey ==
  ASSUME NEW c \in Call, NEW p \in Party, NEW i
  PROVE  /\ SeqTotal(AmountOf, LegsFrom(c, {<<p, i>>})) = NetOut(c, p, i)
         /\ NetOut(c, p, i) \in Nat /\ NetOut(c, p, i) <= Gross(c, p, i)
         /\ <<p, i>> \in Keys(Legs[c]) => NetOut(c, p, i) > 0
<1>. DEFINE K == {<<p, i>>}
            D == DOMAIN Legs[c]
            q == Legs[c]
            f == [n \in D |-> Sends(p, i)[q[n]]]
<1>1. IsFiniteSet(D) /\ D = 1 .. Len(q) /\ \A n \in D : q[n] \in TokenLeg
  BY LegsTyped
<1>2. SeqTotal(Sends(p, i), q) = NetOut(c, p, i)
  BY LegsSettleTheBook
<1>3. SeqTotal(Sends(p, i), q) = SumFunctionOnSet(f, D)
  BY <1>1 DEF SeqTotal
<1>4. AmountOf \in [TokenLeg -> Int]
  BY DEF AmountOf, TokenLeg, Amount
<1>5. ValueAt(AmountOf, c, K) = f
  <2>. SUFFICES ASSUME NEW n \in D
                PROVE  (IF n \in At(c, K) THEN AmountOf[q[n]] ELSE 0) = Sends(p, i)[q[n]]
    BY DEF ValueAt
  <2>1. q[n] \in TokenLeg
    BY <1>1
  <2>2. n \in At(c, K) <=> q[n].sender = p /\ q[n].instrument = i
    BY <2>1, KeyIs DEF At
  <2>. HIDE DEF q
  <2>. QED BY <2>1, <2>2 DEF AmountOf, Sends
<1>6. SeqTotal(AmountOf, LegsFrom(c, K)) = SumFunctionOnSet(f, D)
  BY <1>4, <1>5, LegsFromIs
<1>7. /\ NetPositions(c, i)[p] = Incoming(c, p, i) - Gross(c, p, i)
      /\ Incoming(c, p, i) \in Nat /\ Gross(c, p, i) \in Nat
  BY NetsSumToZero
<1>8. NetOut(c, p, i) \in Nat /\ NetOut(c, p, i) <= Gross(c, p, i)
  BY <1>7 DEF NetOut
<1>9. ASSUME <<p, i>> \in Keys(Legs[c])  PROVE NetOut(c, p, i) > 0
  <2>1. PICK n \in D : Key(q[n]) = <<p, i>>
    BY <1>9 DEF Keys
  <2>2. q[n] \in TokenLeg /\ q[n].sender = p /\ q[n].instrument = i
    BY <1>1, <2>1, KeyIs
  <2>. HIDE DEF q
  <2>3. f[n] = q[n].amount /\ q[n].amount \in Nat \ {0}
    BY <2>2 DEF Sends, TokenLeg, Amount
  <2>4. \A x \in D : f[x] \in Nat
    BY <1>1, SendsTyped
  <2>. HIDE DEF f, D
  <2>5. SumFunctionOnSet(f, D) > 0
    BY <1>1, <2>3, <2>4, SumPositive
  <2>. QED BY <1>2, <1>3, <2>5
<1>. QED BY <1>2, <1>3, <1>6, <1>8, <1>9

-----------------------------------------------------------------------------
(* LockedTokensStayPut.  Holdings go only as the used ones of a Replace.     *)

Free == {k \in Cid \ Remembered : hold[k] = None}

LEMMA ReplaceIs ==
  ASSUME NEW used, NEW made, Replace(used, made)
  PROVE  /\ Len(made) <= Cardinality(Free)
         /\ hold' = [k \in Cid |-> IF k \in Free /\ Rank(Free, k) <= Len(made)
                                   THEN made[Rank(Free, k)]
                                   ELSE IF k \in used THEN None ELSE hold[k]]
  BY DEF Replace, Free

LEMMA FreeIsFinite == IsFiniteSet(Free) /\ Free \subseteq Nat
<1>1. MaxCid \in Nat
  BY Bounds
<1>2. IsFiniteSet(Cid) /\ Cid \subseteq Nat
  BY <1>1, FS_Interval DEF Cid
<1>3. Free \in SUBSET Cid
  BY DEF Free
<1>. QED BY <1>2, <1>3, FS_Subset

LEMMA GoneWasUsed ==
  ASSUME NEW used, NEW made, Replace(used, made), NEW k \in Cid, hold[k] # None, hold'[k] = None
  PROVE  k \in used
<1>1. k \notin Free
  BY DEF Free
<1>2. hold'[k] = IF k \in used THEN None ELSE hold[k]
  BY <1>1, ReplaceIs
<1>. QED BY <1>2

\* What a Replace creates, if it creates one holding, gets the least free id.
LEMMA MadeIsThere ==
  ASSUME NEW used, NEW h, Replace(used, <<h>>)
  PROVE  \E n \in Cid : hold[n] = None /\ hold'[n] = h
<1>1. Len(<<h>>) = 1 /\ <<h>>[1] = h
  OBVIOUS
<1>2. 1 <= Cardinality(Free)
  BY <1>1, ReplaceIs
<1>3. Free # {}
  BY <1>2, FS_EmptySet
<1>4. PICK n \in Free : \A j \in Free : n <= j
  BY <1>3, FreeIsFinite, FirstOf
<1>5. {j \in Free : j <= n} = {n}
  <2>1. \A j \in Free : j <= n => j = n
    BY <1>4, FreeIsFinite
  <2>2. n <= n
    BY FreeIsFinite
  <2>. QED BY <2>1, <2>2
<1>6. Rank(Free, n) = 1
  BY <1>5, FS_Singleton DEF Rank
<1>7. n \in Cid /\ hold[n] = None
  BY DEF Free
<1>8. hold'[n] = <<h>>[Rank(Free, n)]
  BY <1>1, <1>6, <1>7, ReplaceIs
<1>. QED BY <1>1, <1>6, <1>7, <1>8

\* With nothing created only the used holding changes.
LEMMA OnlyTheUsedGoes ==
  ASSUME NEW k \in Cid, Replace({k}, <<>>)
  PROVE  \A n \in Cid \ {k} : hold'[n] = hold[n]
<1>. SUFFICES ASSUME NEW n \in Cid \ {k}  PROVE hold'[n] = hold[n]
  OBVIOUS
<1>1. Len(<<>>) = 0
  OBVIOUS
<1>2. hold'[n] = IF n \in Free /\ Rank(Free, n) <= 0 THEN <<>>[Rank(Free, n)] ELSE hold[n]
  BY <1>1, ReplaceIs
<1>3. CASE n \in Free
  <2>1. n \in {j \in Free : j <= n}
    BY <1>3, FreeIsFinite
  <2>2. IsFiniteSet({j \in Free : j <= n})
    BY FreeIsFinite, FS_Subset
  <2>3. Rank(Free, n) \in Nat /\ Rank(Free, n) # 0
    BY <2>1, <2>2, FS_CardinalityType, FS_EmptySet DEF Rank
  <2>. QED BY <1>2, <2>3
<1>. QED BY <1>2, <1>3

\* What LockedTokensStayPut says of one holding.
StaysPut(k) ==
  hold[k] # None /\ hold[k].locked /\ hold'[k] = None =>
    \/ \E n \in Cid : hold[n] = None /\ hold'[n] = [hold[k] EXCEPT !.locked = FALSE]
    \/ \A n \in Cid \ {k} : hold'[n] = hold[n]

LEMMA SettleUsesUnlocked ==
  ASSUME NEW c, NEW parts, Settle(c, parts), NEW k \in Cid
  PROVE  StaysPut(k)
<1>. SUFFICES ASSUME hold[k] # None, hold[k].locked, hold'[k] = None  PROVE FALSE
  BY DEF StaysPut
<1>. DEFINE used == {parts[n].cid : n \in DOMAIN parts}
<1>1. (\E made : Replace(used, made)) /\ \A n \in DOMAIN parts : Pays(parts[n])
  BY DEF Settle
<1>2. k \in used
  BY <1>1, GoneWasUsed
<1>3. PICK n \in DOMAIN parts : k = parts[n].cid
  BY <1>2
<1>4. Movable(hold[k])
  BY <1>1, <1>3 DEF Pays
<1>. QED BY <1>4 DEF Movable

LEMMA CommitStaysPut ==
  ASSUME NEW m, Commit(m), NEW k \in Cid
  PROVE  StaysPut(k)
<1>1. CASE Archive(m.cid)
  <2>. SUFFICES ASSUME hold[k] # None, hold'[k] = None
                PROVE  \A n \in Cid \ {k} : hold'[n] = hold[n]
    BY DEF StaysPut
  <2>1. Replace({m.cid}, <<>>)
    BY <1>1 DEF Archive
  <2>2. k = m.cid
    BY <2>1, GoneWasUsed
  <2>. QED BY <2>1, <2>2, OnlyTheUsedGoes
<1>2. CASE Cancel(m.of) \/ Create(m.of)
  BY <1>2 DEF Cancel, Create, StaysPut
<1>3. CASE Mint(m.holding)
  <2>1. Replace({}, <<m.holding>>)
    BY <1>3 DEF Mint
  <2>. QED BY <2>1, GoneWasUsed DEF StaysPut
<1>4. CASE ExecuteThreaded(m.of, m.funding)
  BY <1>4, SettleUsesUnlocked DEF ExecuteThreaded
<1>5. CASE ExecuteMulti(m.of, m.funding)
  BY <1>5, SettleUsesUnlocked DEF ExecuteMulti
<1>. QED BY <1>1, <1>2, <1>3, <1>4, <1>5 DEF Commit

LEMMA UnansweredStaysPut ==
  ASSUME NEW m, Unanswered(m) \/ Answered(m), NEW k \in Cid
  PROVE  StaysPut(k)
<1>1. CASE Commit(m)
  BY <1>1, CommitStaysPut
<1>2. CASE UNCHANGED ledger
  BY <1>2 DEF ledger, StaysPut
<1>. QED BY <1>1, <1>2 DEF Unanswered, Answered

LEMMA CallStaysPut ==
  ASSUME NEW c \in Call, NEW k \in Cid,
         \/ BeginSeed(c) \/ Clear(c) \/ BeginMint(c) \/ MintNext(c) \/ EndSeed(c)
         \/ BeginSettle(c) \/ FundNext(c) \/ CreateSettlement(c) \/ Choose(c)
         \/ ExecuteChosen(c) \/ ExecuteDirectly(c)
  PROVE  StaysPut(k)
<1>1. CASE UNCHANGED ledger
  BY <1>1 DEF ledger, StaysPut
<1>2. CASE BeginSeed(c) \/ BeginSettle(c)
  BY <1>2, <1>1 DEF BeginSeed, BeginSettle, Begin
<1>3. CASE BeginMint(c) \/ EndSeed(c) \/ FundNext(c) \/ Choose(c)
  BY <1>3, <1>1 DEF BeginMint, EndSeed, FundNext, Choose, ledger
<1>4. CASE Clear(c) \/ MintNext(c)
  BY <1>4, UnansweredStaysPut DEF Clear, MintNext
<1>5. CASE CreateSettlement(c)
  BY <1>5, UnansweredStaysPut DEF CreateSettlement
<1>6. CASE ExecuteChosen(c)
  BY <1>6, UnansweredStaysPut DEF ExecuteChosen
<1>7. CASE ExecuteDirectly(c)
  BY <1>7, SettleUsesUnlocked DEF ExecuteDirectly, Execute
<1>. QED BY <1>2, <1>3, <1>4, <1>5, <1>6, <1>7

\* A lock or a transfer takes an unlocked holding, an unlock leaves the holding
\* behind under another contract id.
LEMMA HoldingStaysPut ==
  ASSUME NEW j \in Cid, NEW k \in Cid,
         Lock(j) \/ Unlock(j) \/ \E p \in Party : TransferTo(j, p)
  PROVE  StaysPut(k)
<1>. SUFFICES ASSUME hold[k] # None, hold[k].locked, hold'[k] = None
              PROVE  \E n \in Cid : hold[n] = None /\ hold'[n] = [hold[k] EXCEPT !.locked = FALSE]
  BY DEF StaysPut
<1>1. CASE Lock(j)
  BY <1>1, GoneWasUsed DEF Lock
<1>2. CASE Unlock(j)
  <2>. DEFINE unlocked == [hold[j] EXCEPT !.locked = FALSE]
  <2>1. Replace({j}, <<unlocked>>)
    BY <1>2 DEF Unlock
  <2>. HIDE DEF unlocked
  <2>2. j = k
    BY <2>1, GoneWasUsed
  <2>3. \E n \in Cid : hold[n] = None /\ hold'[n] = unlocked
    BY <2>1, MadeIsThere
  <2>. QED BY <2>2, <2>3 DEF unlocked
<1>3. CASE \E p \in Party : TransferTo(j, p)
  BY <1>3, GoneWasUsed DEF TransferTo, Movable
<1>. QED BY <1>1, <1>2, <1>3

\* LockedTokensStayPut, for any holdings, books and calls: no execution, of
\* whichever settlement and with whichever funding, uses a locked holding, and
\* neither does a transfer (TokenSettlement.daml 95-100).
THEOREM LockedStay == Spec => LockedTokensStayPut
<1>1. ASSUME [Next]_vars, NEW k \in Cid  PROVE StaysPut(k)
  <2>1. CASE UNCHANGED vars
    BY <2>1 DEF vars, StaysPut
  <2>2. CASE Arrive
    BY <2>2, CommitStaysPut DEF Arrive
  <2>. QED BY <1>1, <2>1, <2>2, CallStaysPut, HoldingStaysPut DEF Next
<1>2. [Next]_vars => \A k \in Cid : StaysPut(k)
  BY <1>1
<1>3. [Next]_vars =>
        \/ \A k \in Cid : hold[k] # None /\ hold[k].locked /\ hold'[k] = None =>
             \/ \E n \in Cid : hold[n] = None /\ hold'[n] = [hold[k] EXCEPT !.locked = FALSE]
             \/ \A n \in Cid \ {k} : hold'[n] = hold[n]
        \/ UNCHANGED vars
  BY <1>2 DEF StaysPut
<1>. QED BY <1>3, PTL DEF Spec, LockedTokensStayPut

-----------------------------------------------------------------------------
(* ReportsAnExecution.                                                      *)

Settling(c) == Kind[c] # "seed"

\* Only what is found open is executed, and what is executed stays executed.
Executed(d) == settlement[d] = "executed"

FunctionsOK ==
  /\ DOMAIN settlement = Call
  /\ DOMAIN pc = Call
  /\ DOMAIN funding = Call
  /\ DOMAIN chosen = Call
  /\ DOMAIN result = Call

\* A settling call has looked up a holding for every key of its legs before it
\* creates; it has no result while it runs.
LookedUp(c) ==
  /\ pc[c] \in {"start", "fund", "create", "choose", "execute", "done"}
  /\ DOMAIN funding[c] \subseteq Keys(Legs[c])
  /\ pc[c] \in {"create", "choose", "execute"} => DOMAIN funding[c] = Keys(Legs[c])
  /\ pc[c] # "done" => result[c] = "none"
  /\ pc[c] = "execute" => chosen[c] \in Call

Own(c) ==
  result[c] = "ok" =>
    /\ chosen[c] \in Call
    /\ Executed(chosen[c])
    /\ Senders(Legs[chosen[c]]) = Senders(Legs[c])
    /\ Kind[c] = "cross" => Keys(Legs[chosen[c]]) = Keys(Legs[c])

Distinct(c, d) ==
  c # d /\ result[c] = "ok" /\ result[d] = "ok" => chosen[c] # chosen[d]

ReportInv ==
  /\ FunctionsOK
  /\ \A c \in Call : Settling(c) => LookedUp(c) /\ Own(c)
  /\ \A c, d \in Call : Settling(c) /\ Settling(d) => Distinct(c, d)

LEMMA SendersOfKeys ==
  ASSUME NEW c
  PROVE  {k[1] : k \in Keys(Legs[c])} = Senders(Legs[c])
<1>1. \A n \in DOMAIN Legs[c] : Key(Legs[c][n])[1] = Legs[c][n].sender
  BY DEF Key
<1>2. ASSUME NEW p  PROVE p \in {k[1] : k \in Keys(Legs[c])} <=> p \in Senders(Legs[c])
  <2>1. p \in {k[1] : k \in Keys(Legs[c])} <=> \E n \in DOMAIN Legs[c] : p = Key(Legs[c][n])[1]
    BY DEF Keys
  <2>2. p \in Senders(Legs[c]) <=> \E n \in DOMAIN Legs[c] : p = Legs[c][n].sender
    BY DEF Senders
  <2>. QED BY <1>1, <2>1, <2>2
<1>. QED BY <1>2

\* What no step may do to the settlements, and what a step of c leaves alone.
Kept == DOMAIN settlement' = Call /\ \A d \in Call : Executed(d) => Executed(d)'

Others(c) ==
  /\ FunctionsOK'
  /\ \A d \in Call \ {c} : /\ pc'[d] = pc[d] /\ funding'[d] = funding[d]
                          /\ chosen'[d] = chosen[d] /\ result'[d] = result[d]

\* A success is an old one, or the settlement was not executed before.
Fresh(c) ==
  result'[c] = "ok" =>
    \/ result[c] = "ok" /\ chosen'[c] = chosen[c]
    \/ ~ Executed(chosen'[c])

LEMMA StepOfOne ==
  ASSUME ReportInv, NEW c \in Call, Others(c), Kept,
         Settling(c) => LookedUp(c)' /\ Own(c)' /\ Fresh(c)
  PROVE  ReportInv'
<1>1. ASSUME NEW d \in Call, Settling(d)  PROVE LookedUp(d)' /\ Own(d)'
  <2>1. CASE d = c
    BY <2>1, <1>1
  <2>2. CASE d # c
    <3>1. /\ pc'[d] = pc[d] /\ funding'[d] = funding[d]
          /\ chosen'[d] = chosen[d] /\ result'[d] = result[d]
      BY <2>2 DEF Others
    <3>2. LookedUp(d) /\ Own(d)
      BY <1>1 DEF ReportInv
    <3>3. LookedUp(d)'
      BY <3>1, <3>2 DEF LookedUp
    <3>4. Own(d)'
      BY <3>1, <3>2 DEF Own, Kept
    <3>. QED BY <3>3, <3>4
  <2>. QED BY <2>1, <2>2
<1>2. ASSUME NEW d \in Call, NEW e \in Call, Settling(d), Settling(e)  PROVE Distinct(d, e)'
  <2>1. Distinct(d, e) /\ Own(d) /\ Own(e)
    BY <1>2 DEF ReportInv
  <2>2. \A x \in Call \ {c} : chosen'[x] = chosen[x] /\ result'[x] = result[x]
    BY DEF Others
  <2>3. CASE d # c /\ e # c
    BY <2>1, <2>2, <2>3 DEF Distinct
  <2>4. CASE d = c /\ e # c
    BY <1>2, <2>1, <2>2, <2>4 DEF Distinct, Fresh, Own
  <2>5. CASE d # c /\ e = c
    BY <1>2, <2>1, <2>2, <2>5 DEF Distinct, Fresh, Own
  <2>6. CASE d = e
    BY <2>6 DEF Distinct
  <2>. QED BY <2>3, <2>4, <2>5, <2>6
<1>3. FunctionsOK'
  BY DEF Others
<1>. QED BY <1>1, <1>2, <1>3 DEF ReportInv, Settling

-----------------------------------------------------------------------------
(* The settlements.                                                         *)

LEMMA SettleKeeps ==
  ASSUME FunctionsOK, NEW c, NEW parts, Settle(c, parts)
  PROVE  Kept /\ settlement[c] = "open" /\ (c \in Call => Executed(c)')
BY DEF Settle, FunctionsOK, Kept, Executed

LEMMA CommitKeeps ==
  ASSUME FunctionsOK, NEW m, Commit(m)
  PROVE  Kept
<1>1. CASE Archive(m.cid) \/ Mint(m.holding)
  BY <1>1 DEF Archive, Mint, Kept, Executed, FunctionsOK
<1>2. CASE Cancel(m.of) \/ Create(m.of)
  BY <1>2 DEF Cancel, Create, Kept, Executed, FunctionsOK
<1>3. CASE ExecuteThreaded(m.of, m.funding)
  BY <1>3, SettleKeeps DEF ExecuteThreaded
<1>4. CASE ExecuteMulti(m.of, m.funding)
  BY <1>4, SettleKeeps DEF ExecuteMulti
<1>. QED BY <1>1, <1>2, <1>3, <1>4 DEF Commit

LEMMA UnansweredKeeps ==
  ASSUME FunctionsOK, NEW m, Unanswered(m) \/ Answered(m)
  PROVE  Kept
<1>1. CASE Commit(m)
  BY <1>1, CommitKeeps
<1>2. CASE UNCHANGED ledger
  BY <1>2 DEF ledger, Kept, Executed, FunctionsOK
<1>. QED BY <1>1, <1>2 DEF Unanswered, Answered

LEMMA DriverStays ==
  ASSUME ReportInv, UNCHANGED driver, Kept
  PROVE  ReportInv'
<1>1. /\ pc' = pc /\ funding' = funding /\ chosen' = chosen /\ result' = result
  BY DEF driver
<1>2. FunctionsOK'
  BY <1>1 DEF FunctionsOK, ReportInv, Kept
<1>3. ASSUME NEW d \in Call, Settling(d)  PROVE LookedUp(d)' /\ Own(d)'
  <2>1. LookedUp(d) /\ Own(d)
    BY <1>3 DEF ReportInv
  <2>2. LookedUp(d)'
    BY <1>1, <2>1 DEF LookedUp
  <2>3. Own(d)'
    BY <1>1, <2>1 DEF Own, Kept
  <2>. QED BY <2>2, <2>3
<1>4. ASSUME NEW d \in Call, NEW e \in Call, Settling(d), Settling(e)  PROVE Distinct(d, e)'
  BY <1>1, <1>4 DEF ReportInv, Distinct
<1>. QED BY <1>2, <1>3, <1>4 DEF ReportInv, Settling

-----------------------------------------------------------------------------
(* The calls.                                                               *)

LEMMA ReturnIs ==
  ASSUME FunctionsOK, NEW c \in Call, NEW r, Return(c, r), DOMAIN settlement' = Call
  PROVE  /\ Others(c)
         /\ pc'[c] = "done" /\ result'[c] = r /\ DOMAIN funding'[c] = {}
         /\ chosen'[c] = IF r = "ok" THEN chosen[c] ELSE None
BY DEF FunctionsOK, Return, Go, Others

LEMMA FailureIsSafe ==
  ASSUME ReportInv, NEW c \in Call, Return(c, "failed"), Kept
  PROVE  ReportInv'
<1>1. /\ Others(c)
      /\ pc'[c] = "done" /\ result'[c] = "failed" /\ DOMAIN funding'[c] = {}
  BY ReturnIs DEF ReportInv, Kept
<1>2. LookedUp(c)' /\ Own(c)' /\ Fresh(c)
  BY <1>1 DEF LookedUp, Own, Fresh
<1>. QED BY <1>1, <1>2, StepOfOne

LEMMA SameLedgerKept ==
  ASSUME FunctionsOK, UNCHANGED ledger
  PROVE  Kept
BY DEF FunctionsOK, ledger, Kept, Executed

LEMMA BeginSettleIsSafe ==
  ASSUME ReportInv, NEW c \in Call, BeginSettle(c)
  PROVE  ReportInv'
<1>1. Settling(c) /\ FunctionsOK /\ LookedUp(c) /\ Own(c)
  BY DEF BeginSettle, Settling, ReportInv
<1>2. Kept
  BY <1>1, SameLedgerKept DEF BeginSettle, Begin
<1>3. Others(c)
  BY <1>1, <1>2 DEF BeginSettle, Go, Others, FunctionsOK, Kept
<1>4. pc[c] = "start" /\ pc'[c] = "fund" /\ UNCHANGED <<funding, chosen, result>>
  BY <1>1 DEF BeginSettle, Begin, Go, FunctionsOK
<1>5. result[c] = "none"
  BY <1>1, <1>4 DEF LookedUp
<1>6. LookedUp(c)' /\ Own(c)' /\ Fresh(c)
  BY <1>1, <1>4, <1>5 DEF LookedUp, Own, Fresh
<1>. QED BY <1>2, <1>3, <1>6, StepOfOne

\* When no leg waits for a holding any more, every key has one.
LEMMA FundIsSafe ==
  ASSUME ReportInv, NEW c \in Call, Settling(c), FundNext(c)
  PROVE  ReportInv'
<1>1. FunctionsOK /\ LookedUp(c) /\ Own(c)
  BY DEF ReportInv
<1>2. Kept
  BY <1>1, SameLedgerKept DEF FundNext
<1>3. CASE Return(c, "failed")
  BY <1>2, <1>3, FailureIsSafe
<1>4. CASE ~ Return(c, "failed")
  <2>. DEFINE wanting == {n \in DOMAIN Legs[c] : Key(Legs[c][n]) \notin DOMAIN funding[c]}
  <2>1. PICK n \in wanting :
          /\ \E k : funding' = [funding EXCEPT ![c] =
               [x \in DOMAIN @ \union {Key(Legs[c][n])} |-> IF x = Key(Legs[c][n]) THEN k ELSE @[x]]]
          /\ IF \A m \in wanting : Key(Legs[c][m]) = Key(Legs[c][n])
             THEN Go(c, "create") ELSE UNCHANGED pc
          /\ UNCHANGED <<chosen, result>>
    BY <1>4 DEF FundNext
  <2>2. pc[c] = "fund"
    BY DEF FundNext
  <2>3. DOMAIN funding'[c] = DOMAIN funding[c] \union {Key(Legs[c][n])}
    BY <1>1, <2>1 DEF FunctionsOK
  <2>4. DOMAIN funding'[c] \subseteq Keys(Legs[c])
    BY <1>1, <2>3 DEF LookedUp, Keys
  <2>5. \/ pc'[c] = "fund"
        \/ pc'[c] = "create" /\ \A m \in wanting : Key(Legs[c][m]) = Key(Legs[c][n])
    BY <1>1, <2>1, <2>2 DEF Go, FunctionsOK
  <2>6. pc'[c] = "create" => DOMAIN funding'[c] = Keys(Legs[c])
    <3>. SUFFICES ASSUME pc'[c] = "create", NEW m \in DOMAIN Legs[c]
                  PROVE  Key(Legs[c][m]) \in DOMAIN funding'[c]
      BY <2>4 DEF Keys
    <3>1. \A j \in wanting : Key(Legs[c][j]) = Key(Legs[c][n])
      BY <2>5
    <3>2. m \in wanting \/ Key(Legs[c][m]) \in DOMAIN funding[c]
      OBVIOUS
    <3>. HIDE DEF wanting
    <3>. QED BY <3>1, <3>2, <2>3
  <2>7. Others(c)
    BY <1>1, <1>2, <2>1 DEF Go, Others, FunctionsOK, Kept
  <2>8. result'[c] = "none"
    BY <1>1, <2>1, <2>2 DEF LookedUp
  <2>9. LookedUp(c)' /\ Own(c)' /\ Fresh(c)
    BY <2>4, <2>5, <2>6, <2>8 DEF LookedUp, Own, Fresh
  <2>. QED BY <1>2, <2>7, <2>9, StepOfOne
<1>. QED BY <1>3, <1>4

LEMMA CreateIsSafe ==
  ASSUME ReportInv, NEW c \in Call, Settling(c), CreateSettlement(c)
  PROVE  ReportInv'
<1>1. FunctionsOK /\ LookedUp(c) /\ Own(c)
  BY DEF ReportInv
<1>2. Kept
  BY <1>1, UnansweredKeeps DEF CreateSettlement
<1>3. CASE Return(c, "failed")
  BY <1>2, <1>3, FailureIsSafe
<1>4. CASE ~ Return(c, "failed")
  <2>1. pc[c] = "create" /\ Go(c, "choose") /\ UNCHANGED <<funding, chosen, result>>
    BY <1>4 DEF CreateSettlement
  <2>2. pc'[c] = "choose" /\ Others(c)
    BY <1>1, <1>2, <2>1 DEF Go, Others, FunctionsOK, Kept
  <2>3. LookedUp(c)' /\ Own(c)' /\ Fresh(c)
    BY <1>1, <2>1, <2>2 DEF LookedUp, Own, Fresh
  <2>. QED BY <1>2, <2>2, <2>3, StepOfOne
<1>. QED BY <1>3, <1>4

LEMMA ChooseIsSafe ==
  ASSUME ReportInv, NEW c \in Call, Settling(c), Choose(c)
  PROVE  ReportInv'
<1>1. FunctionsOK /\ LookedUp(c) /\ Own(c)
  BY DEF ReportInv
<1>2. Kept
  BY <1>1, SameLedgerKept DEF Choose
<1>3. CASE Return(c, "failed")
  BY <1>2, <1>3, FailureIsSafe
<1>4. CASE ~ Return(c, "failed")
  <2>1. PICK d \in Call : chosen' = [chosen EXCEPT ![c] = d]
    BY <1>4 DEF Choose
  <2>2. pc[c] = "choose" /\ Go(c, "execute") /\ UNCHANGED <<funding, result>>
    BY <1>4 DEF Choose
  <2>3. pc'[c] = "execute" /\ chosen'[c] = d /\ Others(c)
    BY <1>1, <1>2, <2>1, <2>2 DEF Go, Others, FunctionsOK, Kept
  <2>4. LookedUp(c)' /\ Own(c)' /\ Fresh(c)
    BY <1>1, <2>2, <2>3 DEF LookedUp, Own, Fresh
  <2>. QED BY <1>2, <2>3, <2>4, StepOfOne
<1>. QED BY <1>3, <1>4

\* The chosen settlement was open, so no earlier success reports it; it takes
\* the holdings of just these senders, or of just these keys.
LEMMA ExecuteIsSafe ==
  ASSUME ReportInv, NEW c \in Call, Settling(c), ExecuteChosen(c)
  PROVE  ReportInv'
<1>1. FunctionsOK /\ LookedUp(c) /\ Own(c)
  BY DEF ReportInv
<1>. DEFINE m == [op |-> "execute", by |-> Kind[c], of |-> chosen[c], funding |-> funding[c]]
<1>2. /\ pc[c] = "execute"
      /\ \/ Answered(m) /\ Return(c, "ok")
         \/ Unanswered(m) /\ Return(c, "failed")
  BY DEF ExecuteChosen
<1>3. Kept
  <2>. HIDE DEF m
  <2>. QED BY <1>1, <1>2, UnansweredKeeps
<1>4. CASE Unanswered(m) /\ Return(c, "failed")
  BY <1>3, <1>4, FailureIsSafe
<1>5. CASE Answered(m) /\ Return(c, "ok")
  <2>1. chosen[c] \in Call /\ DOMAIN funding[c] = Keys(Legs[c])
    BY <1>1, <1>2 DEF LookedUp
  <2>2. /\ m.op = "execute" /\ m.by = Kind[c] /\ m.of = chosen[c] /\ m.funding = funding[c]
    OBVIOUS
  <2>3. Commit(m)
    BY <1>5 DEF Answered
  <2>. HIDE DEF m
  <2>4. \/ Kind[c] = "single" /\ ExecuteThreaded(chosen[c], funding[c])
        \/ Kind[c] = "cross" /\ ExecuteMulti(chosen[c], funding[c])
    BY <2>2, <2>3 DEF Commit
  <2>5. ~ Executed(chosen[c]) /\ Executed(chosen[c])'
    <3>1. ASSUME NEW parts, Settle(chosen[c], parts)
          PROVE  settlement[chosen[c]] = "open" /\ settlement'[chosen[c]] = "executed"
      BY <1>1, <2>1, <3>1 DEF Settle, FunctionsOK
    <3>2. chosen'[c] = chosen[c]
      BY <1>1, <1>3, <1>5, ReturnIs DEF Kept
    <3>3. settlement[chosen[c]] = "open" /\ settlement'[chosen[c]] = "executed"
      BY <2>4, <3>1 DEF ExecuteThreaded, ExecuteMulti
    <3>. QED BY <3>2, <3>3 DEF Executed
  <2>6. Kind[c] = "single" => Senders(Legs[chosen[c]]) = Senders(Legs[c])
    BY <2>1, <2>4, SendersOfKeys DEF ExecuteThreaded
  <2>7. Kind[c] = "cross" => Keys(Legs[chosen[c]]) = Keys(Legs[c])
    BY <2>1, <2>4 DEF ExecuteMulti
  <2>8. Senders(Legs[chosen[c]]) = Senders(Legs[c])
    <3>1. Keys(Legs[chosen[c]]) = Keys(Legs[c]) => Senders(Legs[chosen[c]]) = Senders(Legs[c])
      <4>1. /\ {k[1] : k \in Keys(Legs[c])} = Senders(Legs[c])
            /\ {k[1] : k \in Keys(Legs[chosen[c]])} = Senders(Legs[chosen[c]])
        BY SendersOfKeys
      <4>. QED BY <4>1
    <3>. QED BY <2>4, <2>6, <2>7, <3>1
  <2>9. /\ Others(c) /\ chosen'[c] = chosen[c]
        /\ pc'[c] = "done" /\ result'[c] = "ok" /\ DOMAIN funding'[c] = {}
    BY <1>1, <1>3, <1>5, ReturnIs DEF Kept
  <2>10. LookedUp(c)' /\ Own(c)' /\ Fresh(c)
    BY <2>1, <2>5, <2>7, <2>8, <2>9 DEF LookedUp, Own, Fresh, Executed
  <2>. QED BY <1>3, <2>9, <2>10, StepOfOne
<1>. QED BY <1>2, <1>4, <1>5

\* A step of a call changes what that call knows, and no other call's.
CallStep(c) ==
  \/ BeginSeed(c) \/ Clear(c) \/ BeginMint(c) \/ MintNext(c) \/ EndSeed(c)
  \/ BeginSettle(c) \/ FundNext(c) \/ CreateSettlement(c) \/ Choose(c) \/ ExecuteChosen(c)

LEMMA CallKeeps ==
  ASSUME ReportInv, NEW c \in Call, CallStep(c)
  PROVE  Kept
<1>1. FunctionsOK
  BY DEF ReportInv
<1>2. CASE BeginSeed(c) \/ BeginSettle(c)
  BY <1>1, <1>2, SameLedgerKept DEF BeginSeed, BeginSettle, Begin
<1>3. CASE BeginMint(c) \/ EndSeed(c) \/ FundNext(c) \/ Choose(c)
  BY <1>1, <1>3, SameLedgerKept DEF BeginMint, EndSeed, FundNext, Choose
<1>4. CASE Clear(c) \/ MintNext(c)
  BY <1>1, <1>4, UnansweredKeeps DEF Clear, MintNext
<1>5. CASE CreateSettlement(c)
  BY <1>1, <1>5, UnansweredKeeps DEF CreateSettlement
<1>6. CASE ExecuteChosen(c)
  BY <1>1, <1>6, UnansweredKeeps DEF ExecuteChosen
<1>. QED BY <1>2, <1>3, <1>4, <1>5, <1>6 DEF CallStep

LEMMA CallFrame ==
  ASSUME ReportInv, NEW c \in Call, CallStep(c)
  PROVE  Others(c)
<1>1. FunctionsOK
  BY DEF ReportInv
<1>2. DOMAIN settlement' = Call
  BY CallKeeps DEF Kept
<1>3. CASE \E r : Return(c, r)
  BY <1>1, <1>2, <1>3, ReturnIs
<1>4. CASE BeginSeed(c) /\ ~ \E r : Return(c, r)
  BY <1>1, <1>2, <1>4 DEF BeginSeed, Go, Others, FunctionsOK
<1>5. CASE Clear(c) /\ ~ \E r : Return(c, r)
  BY <1>1, <1>2, <1>5 DEF Clear, Go, Others, FunctionsOK
<1>6. CASE BeginMint(c) /\ ~ \E r : Return(c, r)
  BY <1>1, <1>2, <1>6 DEF BeginMint, Go, Others, FunctionsOK
<1>7. CASE MintNext(c) /\ ~ \E r : Return(c, r)
  BY <1>1, <1>2, <1>7 DEF MintNext, Go, Others, FunctionsOK
<1>8. CASE EndSeed(c) /\ ~ \E r : Return(c, r)
  BY <1>1, <1>2, <1>8 DEF EndSeed, Go, Others, FunctionsOK
<1>9. CASE BeginSettle(c) /\ ~ \E r : Return(c, r)
  BY <1>1, <1>2, <1>9 DEF BeginSettle, Go, Others, FunctionsOK
<1>10. CASE FundNext(c) /\ ~ \E r : Return(c, r)
  BY <1>1, <1>2, <1>10 DEF FundNext, Go, Others, FunctionsOK
<1>11. CASE CreateSettlement(c) /\ ~ \E r : Return(c, r)
  BY <1>1, <1>2, <1>11 DEF CreateSettlement, Go, Others, FunctionsOK
<1>12. CASE Choose(c) /\ ~ \E r : Return(c, r)
  BY <1>1, <1>2, <1>12 DEF Choose, Go, Others, FunctionsOK
<1>13. CASE ExecuteChosen(c) /\ ~ \E r : Return(c, r)
  BY <1>1, <1>2, <1>13 DEF ExecuteChosen, Go, Others, FunctionsOK
<1>. QED BY <1>3, <1>4, <1>5, <1>6, <1>7, <1>8, <1>9, <1>10, <1>11, <1>12, <1>13 DEF CallStep

\* A settling call never gets to a step of a seeding.
LEMMA SettlingSteps ==
  ASSUME ReportInv, NEW c \in Call, Settling(c)
  PROVE  ~ (BeginSeed(c) \/ Clear(c) \/ BeginMint(c) \/ MintNext(c) \/ EndSeed(c))
<1>1. pc[c] \notin {"clear", "mint"}
  BY DEF ReportInv, LookedUp
<1>. QED BY <1>1 DEF Settling, BeginSeed, Clear, BeginMint, MintNext, EndSeed

LEMMA ExecuteDirectlyIsSafe ==
  ASSUME ReportInv, NEW c \in Call, ExecuteDirectly(c)
  PROVE  ReportInv'
<1>1. Kept
  BY SettleKeeps DEF ExecuteDirectly, Execute, ReportInv
<1>. QED BY <1>1, DriverStays DEF ExecuteDirectly, Act

LEMMA HoldingStepIsSafe ==
  ASSUME ReportInv, NEW k \in Cid, Lock(k) \/ Unlock(k) \/ \E p \in Party : TransferTo(k, p)
  PROVE  ReportInv'
<1>1. UNCHANGED <<settlement, driver>>
  BY DEF Lock, Unlock, TransferTo, Act
<1>2. Kept
  BY <1>1 DEF Kept, Executed, ReportInv, FunctionsOK
<1>. QED BY <1>1, <1>2, DriverStays

LEMMA CallIsSafe ==
  ASSUME ReportInv, NEW c \in Call, CallStep(c)
  PROVE  ReportInv'
<1>1. CASE ~ Settling(c)
  BY <1>1, CallKeeps, CallFrame, StepOfOne
<1>2. CASE Settling(c)
  BY <1>2, SettlingSteps, BeginSettleIsSafe, FundIsSafe, CreateIsSafe, ChooseIsSafe,
     ExecuteIsSafe DEF CallStep
<1>. QED BY <1>1, <1>2

LEMMA ReportInvInductive == ReportInv /\ [Next]_vars => ReportInv'
<1>. SUFFICES ASSUME ReportInv, [Next]_vars  PROVE ReportInv'
  OBVIOUS
<1>1. CASE UNCHANGED vars
  <2>1. Kept /\ UNCHANGED driver
    BY <1>1 DEF vars, driver, Kept, Executed, ReportInv, FunctionsOK
  <2>. QED BY <2>1, DriverStays
<1>2. ASSUME NEW c \in Call, CallStep(c) \/ ExecuteDirectly(c)  PROVE ReportInv'
  BY <1>2, CallIsSafe, ExecuteDirectlyIsSafe
<1>3. ASSUME NEW k \in Cid, Lock(k) \/ Unlock(k) \/ \E p \in Party : TransferTo(k, p)
      PROVE  ReportInv'
  BY <1>3, HoldingStepIsSafe
<1>4. CASE Arrive
  <2>1. Kept /\ UNCHANGED driver
    BY <1>4, CommitKeeps DEF Arrive, ReportInv
  <2>. QED BY <2>1, DriverStays
<1>. QED BY <1>1, <1>2, <1>3, <1>4 DEF Next, CallStep

LEMMA ReportInvInit == Init => ReportInv
<1>. SUFFICES ASSUME Init  PROVE ReportInv
  OBVIOUS
<1>1. FunctionsOK
  BY DEF Init, FunctionsOK
<1>2. ASSUME NEW c \in Call  PROVE LookedUp(c) /\ Own(c) /\ \A d \in Call : Distinct(c, d)
  <2>1. pc[c] = "start" /\ result[c] = "none" /\ funding[c] = <<>>
    BY DEF Init
  <2>2. DOMAIN funding[c] = {}
    BY <2>1
  <2>. QED BY <2>1, <2>2 DEF LookedUp, Own, Distinct
<1>. QED BY <1>1, <1>2 DEF ReportInv

\* ReportsAnExecution, for any books and number of calls: a call may execute
\* another one's settlement, late or first, but only one that its own holdings
\* are looked up for, and no two successes report the same execution
\* (token_settle.py 177-178, 188-195).
THEOREM ReportedOnce == Spec => []ReportsAnExecution
<1>1. ReportInv => ReportsAnExecution
  <2>. SUFFICES ASSUME ReportInv, NEW c \in Call, Kind[c] # "seed", result[c] = "ok"
                PROVE  /\ settlement[chosen[c]] = "executed"
                       /\ Senders(Legs[chosen[c]]) = Senders(Legs[c])
                       /\ Kind[c] = "cross" => Keys(Legs[chosen[c]]) = Keys(Legs[c])
                       /\ \A d \in Call \ {c} :
                            result[d] = "ok" /\ Kind[d] # "seed" => chosen[d] # chosen[c]
    BY DEF ReportsAnExecution
  <2>. QED BY DEF ReportInv, Settling, Own, Executed, Distinct
<1>. QED BY <1>1, ReportInvInit, ReportInvInductive, PTL DEF Spec

-----------------------------------------------------------------------------
(* What an execution pays.  Its parts pay every leg once, however it is      *)
(* funded.                                                                  *)

Part == [cid: Cid, legs: Seq(TokenLeg)]

\* Between them the parts pay every leg of the settlement once.
Covering(c, parts) ==
  \A v \in [TokenLeg -> Int] :
    SumFunctionOnSet([n \in 1 .. Len(parts) |-> SeqTotal(v, parts[n].legs)], 1 .. Len(parts))
      = SeqTotal(v, Legs[c])

Gathered(c, parts, S, N) == \A n \in 1 .. N : parts[n].legs = LegsFrom(c, S[n])

Sorts(c, S, N) ==
  \A j \in DOMAIN Legs[c] :
    \E n \in 1 .. N : \A m \in 1 .. N : Key(Legs[c][j]) \in S[m] <=> m = n

LEMMA GatheredCover ==
  ASSUME NEW c \in Call, NEW N \in Nat, NEW S, Sorts(c, S, N),
         NEW parts, Len(parts) = N, Gathered(c, parts, S, N)
  PROVE  Covering(c, parts)
<1>. SUFFICES ASSUME NEW v \in [TokenLeg -> Int]
              PROVE  SumFunctionOnSet([n \in 1 .. N |-> SeqTotal(v, parts[n].legs)], 1 .. N)
                       = SeqTotal(v, Legs[c])
  BY DEF Covering
<1>. DEFINE K == 1 .. N
            q == Legs[c]
            D == DOMAIN q
            key == [j \in D |-> CHOOSE n \in K : \A m \in K : Key(q[j]) \in S[m] <=> m = n]
            a == [j \in D |-> v[q[j]]]
            p == [n \in K |-> ValueAt(v, c, S[n])]
            h == [n \in K |-> SeqTotal(v, parts[n].legs)]
<1>1. IsFiniteSet(D) /\ IsFiniteSet(K) /\ D = 1 .. Len(q) /\ \A j \in D : q[j] \in TokenLeg
  <2>1. IsFiniteSet(K)
    BY FS_Interval
  <2>. QED BY <2>1, LegsTyped
<1>2. \A j \in D : key[j] \in K /\ \A m \in K : Key(q[j]) \in S[m] <=> m = key[j]
  BY DEF Sorts
<1>3. SeqTotal(v, q) = SumFunctionOnSet(a, D)
  BY <1>1 DEF SeqTotal
<1>4. \A n \in K : h[n] = SumFunctionOnSet(p[n], D)
  BY LegsFromIs DEF Gathered
<1>5. \A n \in K, j \in D : p[n][j] = IF key[j] = n THEN a[j] ELSE 0
  <2>. TAKE n \in K, j \in D
  <2>1. p[n][j] = IF Key(q[j]) \in S[n] THEN a[j] ELSE 0
    BY DEF ValueAt, At
  <2>. HIDE DEF p, a, key
  <2>. QED BY <1>2, <2>1
<1>6. \A j \in D : a[j] \in Int
  BY <1>1
<1>. HIDE DEF K, q, D, key, a, p, h
<1>7. Keyed(a, key, D, K) /\ PartsOf(a, p, key, K, D) /\ TotalsOf(h, p, K, D)
  BY <1>2, <1>4, <1>5, <1>6 DEF Keyed, PartsOf, TotalsOf
<1>8. SumFunctionOnSet(h, K) = SumFunctionOnSet(a, D)
  BY ONLY <1>1, <1>7, SumByNamedKey
<1>. QED BY <1>3, <1>8 DEF h, K, q

\* A settlement whose parts are as they should be.
Execution(c, parts) ==
  c \in Call /\ parts \in Seq(Part) /\ Settle(c, parts) /\ Covering(c, parts)

LEMMA KeysFinite ==
  ASSUME NEW c \in Call
  PROVE  IsFiniteSet(Keys(Legs[c]))
<1>1. IsFiniteSet(DOMAIN Legs[c])
  BY LegsTyped
<1>2. [n \in DOMAIN Legs[c] |-> Key(Legs[c][n])] \in Surjection(DOMAIN Legs[c], Keys(Legs[c]))
  BY DEF Surjection, Keys
<1>. QED BY <1>1, <1>2, FS_Surjection

\* No two of the keys that a single-instrument book is netted into have one sender.
LEMMA KeysOfSingle ==
  ASSUME NEW c \in Call, Kind[c] = "single"
  PROVE  \A k, l \in Keys(Legs[c]) : k[1] = l[1] => k = l
<1>1. \A k \in Keys(Legs[c]) : \E p, i : k = <<p, i>> /\ p \in Party /\ i \in Instruments(c)
  <2>. SUFFICES ASSUME NEW n \in DOMAIN Legs[c]
                PROVE  /\ Key(Legs[c][n]) = <<Legs[c][n].sender, Legs[c][n].instrument>>
                       /\ Legs[c][n].sender \in Party
                       /\ Legs[c][n].instrument \in Instruments(c)
    BY DEF Keys
  <2>. DEFINE p == Legs[c][n].sender
              i == Legs[c][n].instrument
  <2>1. Key(Legs[c][n]) = <<p, i>> /\ p \in Party
    BY LegsTyped DEF Key, TokenLeg
  <2>2. <<p, i>> \in Keys(Legs[c])
    BY <2>1 DEF Keys
  <2>. HIDE DEF p, i
  <2>3. NetOut(c, p, i) > 0 /\ NetOut(c, p, i) <= Gross(c, p, i) /\ Gross(c, p, i) \in Nat
    BY <2>1, <2>2, LegsOfKey, NetsSumToZero
  <2>4. {d \in Book[c] : d.payer = p /\ d.instrument = i} # {}
    <3>1. NetOut(c, p, i) \in Nat
      BY <2>1, LegsOfKey
    <3>2. Gross(c, p, i) # 0
      BY <2>3, <3>1
    <3>3. Total({}) = 0
      <4>. DEFINE h == [x \in {} |-> 0]
      <4>1. IsFiniteSet({}) /\ \A d \in {} : h[d] = d.amount
        BY FS_EmptySet
      <4>. HIDE DEF h
      <4>2. Total({}) = SumFunctionOnSet(h, {})
        BY <4>1, TotalIsSum
      <4>. QED BY <4>2, SumEmpty
    <3>. QED BY <3>2, <3>3 DEF Gross
  <2>5. i \in Instruments(c)
    BY <2>4 DEF Instruments
  <2>. QED BY <2>1, <2>5 DEF p, i
<1>2. \A i, j \in Instruments(c) : i = j
  <2>1. Cardinality(Instruments(c)) = 1 /\ IsFiniteSet(Instruments(c))
    BY CallTerms, InstrumentsFinite DEF Instruments
  <2>2. PICK x : Instruments(c) = {x}
    BY <2>1, FS_Singleton
  <2>. QED BY <2>2
<1>. SUFFICES ASSUME NEW k \in Keys(Legs[c]), NEW l \in Keys(Legs[c]), k[1] = l[1]
              PROVE  k = l
  OBVIOUS
<1>3. PICK p, i : k = <<p, i>> /\ i \in Instruments(c)
  BY <1>1
<1>4. PICK r, j : l = <<r, j>> /\ j \in Instruments(c)
  BY <1>1
<1>. QED BY <1>2, <1>3, <1>4

\* Parts listed in the order of some keys.
Picks(f, order, N) == \A n \in 1 .. N : f[order[n]] \in Cid

PartList(parts, c, f, order, S, N) ==
  parts = [n \in 1 .. N |-> [cid |-> f[order[n]], legs |-> LegsFrom(c, S[n])]]

LEMMA PartsTyped ==
  ASSUME NEW c \in Call, NEW N \in Nat, NEW f, NEW order, NEW S, Picks(f, order, N),
         NEW parts, PartList(parts, c, f, order, S, N)
  PROVE  parts \in Seq(Part) /\ Len(parts) = N /\ Gathered(c, parts, S, N)
<1>1. parts = [n \in 1 .. N |-> [cid |-> f[order[n]], legs |-> LegsFrom(c, S[n])]]
  BY DEF PartList
<1>0. \A n \in 1 .. N : parts[n] = [cid |-> f[order[n]], legs |-> LegsFrom(c, S[n])]
  BY <1>1
<1>2. \A n \in 1 .. N : LegsFrom(c, S[n]) \in Seq(TokenLeg)
  BY LegsFromIs
<1>3. \A n \in 1 .. N : [cid |-> f[order[n]], legs |-> LegsFrom(c, S[n])] \in Part
  BY <1>2 DEF Part, Picks
<1>4. parts \in [1 .. N -> Part]
  BY <1>1, <1>3
<1>5. parts \in Seq(Part) /\ Len(parts) = N
  <2>. DEFINE P == Part
  <2>1. parts \in [1 .. N -> P]
    BY <1>4
  <2>. HIDE DEF P
  <2>2. parts \in Seq(P) /\ Len(parts) = N
    BY ONLY <2>1, N \in Nat
  <2>. QED BY <2>2 DEF P
<1>6. Gathered(c, parts, S, N)
  <2>1. ASSUME NEW n \in 1 .. N  PROVE parts[n].legs = LegsFrom(c, S[n])
    <3>1. parts[n] = [cid |-> f[order[n]], legs |-> LegsFrom(c, S[n])]
      BY <1>0
    <3>. QED BY ONLY <3>1
  <2>. QED BY <2>1 DEF Gathered
<1>. QED BY <1>5, <1>6

Enumerates(order, K, N) ==
  /\ N \in Nat /\ N = Len(order) /\ DOMAIN order = 1 .. N
  /\ \A n \in 1 .. N : order[n] \in K
  /\ \A m, n \in 1 .. N : order[m] = order[n] => m = n
  /\ \A k \in K : \E n \in 1 .. N : order[n] = k

LEMMA KeyOrder ==
  ASSUME NEW c \in Call, NEW order, order = SetToSeq(Keys(Legs[c]))
  PROVE  Enumerates(order, Keys(Legs[c]), Len(order))
<1>. DEFINE S == Keys(Legs[c])
<1>1. IsFiniteSet(S)
  BY KeysFinite
<1>2. order = SetToSeq(S)
  OBVIOUS
<1>. HIDE DEF S
<1>. PICK k \in Nat : k = Cardinality(S)
  BY <1>1, FS_CardinalityType
<1>3. /\ order \in Seq(S) /\ Len(order) = k /\ order \in [1 .. k -> S]
      /\ \A m, n \in 1 .. k : m # n => order[m] # order[n]
      /\ \A x \in S : \E n \in 1 .. k : order[n] = x
  BY <1>1, <1>2, SetToSeqLists
<1>4. DOMAIN order = 1 .. k /\ \A n \in 1 .. k : order[n] \in S
  BY <1>3
<1>. QED BY <1>3, <1>4 DEF S, Enumerates

LEMMA ThreadedIs ==
  ASSUME NEW c \in Call, NEW d \in Call, Kind[d] = "single", NEW f, DOMAIN f = Keys(Legs[d]),
         \A k \in DOMAIN f : f[k] \in Cid, ExecuteThreaded(c, f)
  PROVE  \E parts : Execution(c, parts)
<1>. DEFINE order == SetToSeq(DOMAIN f)
            N == Len(order)
            S == [n \in 1 .. N |-> {k \in Keys(Legs[c]) : k[1] = order[n][1]}]
            parts == [n \in 1 .. N |-> [cid |-> f[order[n]], legs |-> LegsFrom(c, S[n])]]
<1>1. /\ N \in Nat /\ DOMAIN order = 1 .. N
      /\ \A n \in 1 .. N : order[n] \in DOMAIN f
      /\ \A m, n \in 1 .. N : order[m] = order[n] => m = n
      /\ \A k \in DOMAIN f : \E n \in 1 .. N : order[n] = k
  <2>. DEFINE K == Keys(Legs[d])
  <2>1. order = SetToSeq(Keys(Legs[d]))
    OBVIOUS
  <2>. HIDE DEF order
  <2>2. Enumerates(order, Keys(Legs[d]), Len(order))
    BY ONLY d \in Call, <2>1, KeyOrder
  <2>3. DOMAIN f = K
    OBVIOUS
  <2>. HIDE DEF K
  <2>4. Enumerates(order, K, N)
    BY <2>2 DEF K
  <2>. QED BY <2>3, <2>4 DEF Enumerates
<1>2. /\ {k[1] : k \in DOMAIN f} = Senders(Legs[c])
      /\ Settle(c, [n \in DOMAIN order |->
                  [cid |-> f[order[n]],
                   legs |-> LegsFrom(c, {k \in Keys(Legs[c]) : k[1] = order[n][1]})]])
  BY DEF ExecuteThreaded
<1>3. \A k, l \in DOMAIN f : k[1] = l[1] => k = l
  BY KeysOfSingle
<1>. HIDE DEF order, N
<1>4. parts = [n \in DOMAIN order |->
                 [cid |-> f[order[n]],
                  legs |-> LegsFrom(c, {k \in Keys(Legs[c]) : k[1] = order[n][1]})]]
  BY <1>1
<1>5. Settle(c, parts)
  BY <1>2, <1>4
<1>6. ASSUME NEW j \in DOMAIN Legs[c]
      PROVE  \E n \in 1 .. N : \A m \in 1 .. N : Key(Legs[c][j]) \in S[m] <=> m = n
  <2>. DEFINE x == Key(Legs[c][j])
  <2>1. x \in Keys(Legs[c]) /\ x[1] \in Senders(Legs[c])
    BY DEF Keys, Senders, Key
  <2>. HIDE DEF x
  <2>2. PICK k \in DOMAIN f : k[1] = x[1]
    BY <1>2, <2>1
  <2>3. PICK n \in 1 .. N : order[n] = k
    BY <1>1
  <2>4. ASSUME NEW m \in 1 .. N  PROVE x \in S[m] <=> m = n
    <3>1. x \in S[m] <=> x[1] = order[m][1]
      BY <2>1
    <3>2. order[m][1] = x[1] => order[m] = k
      BY <1>1, <1>3, <2>2
    <3>. HIDE DEF S
    <3>. QED BY <1>1, <2>2, <2>3, <3>1, <3>2
  <2>. HIDE DEF S
  <2>. QED BY <2>4 DEF x
<1>. HIDE DEF S
<1>7. Sorts(c, S, N)
  BY <1>6 DEF Sorts
<1>8. Picks(f, order, N)
  BY <1>1 DEF Picks
<1>9. PartList(parts, c, f, order, S, N)
  BY DEF PartList
<1>. HIDE DEF parts
<1>10. parts \in Seq(Part) /\ Len(parts) = N /\ Gathered(c, parts, S, N)
  BY ONLY c \in Call, <1>1, <1>8, <1>9, PartsTyped
<1>11. Covering(c, parts)
  BY <1>1, <1>7, <1>10, GatheredCover
<1>. QED BY <1>5, <1>10, <1>11 DEF Execution

LEMMA MultiIs ==
  ASSUME NEW c \in Call, NEW f, \A k \in DOMAIN f : f[k] \in Cid, ExecuteMulti(c, f)
  PROVE  \E parts : Execution(c, parts)
<1>. DEFINE order == SetToSeq(DOMAIN f)
            N == Len(order)
            S == [n \in 1 .. N |-> {order[n]}]
            parts == [n \in 1 .. N |-> [cid |-> f[order[n]], legs |-> LegsFrom(c, S[n])]]
<1>1. /\ DOMAIN f = Keys(Legs[c])
      /\ Settle(c, [n \in DOMAIN order |->
                      [cid |-> f[order[n]], legs |-> LegsFrom(c, {order[n]})]])
  BY DEF ExecuteMulti
<1>2. /\ N \in Nat /\ DOMAIN order = 1 .. N
      /\ \A n \in 1 .. N : order[n] \in DOMAIN f
      /\ \A m, n \in 1 .. N : order[m] = order[n] => m = n
      /\ \A k \in DOMAIN f : \E n \in 1 .. N : order[n] = k
  <2>. DEFINE K == Keys(Legs[c])
  <2>1. order = SetToSeq(Keys(Legs[c]))
    BY <1>1
  <2>. HIDE DEF order
  <2>2. Enumerates(order, Keys(Legs[c]), Len(order))
    BY ONLY c \in Call, <2>1, KeyOrder
  <2>3. DOMAIN f = K
    BY <1>1
  <2>. HIDE DEF K
  <2>4. Enumerates(order, K, N)
    BY <2>2 DEF K
  <2>. QED BY <2>3, <2>4 DEF Enumerates
<1>. HIDE DEF order, N
<1>3. parts = [n \in DOMAIN order |-> [cid |-> f[order[n]], legs |-> LegsFrom(c, {order[n]})]]
  BY <1>2
<1>4. Settle(c, parts)
  BY <1>1, <1>3
<1>5. ASSUME NEW j \in DOMAIN Legs[c]
      PROVE  \E n \in 1 .. N : \A m \in 1 .. N : Key(Legs[c][j]) \in S[m] <=> m = n
  <2>. DEFINE x == Key(Legs[c][j])
  <2>1. x \in DOMAIN f
    BY <1>1 DEF Keys
  <2>. HIDE DEF x
  <2>2. PICK n \in 1 .. N : order[n] = x
    BY <1>2, <2>1
  <2>3. \A m \in 1 .. N : x \in S[m] <=> m = n
    BY <1>2, <2>2
  <2>. HIDE DEF S
  <2>. QED BY <2>3 DEF x
<1>. HIDE DEF S
<1>6. Sorts(c, S, N)
  BY <1>5 DEF Sorts
<1>7. Picks(f, order, N)
  BY <1>2 DEF Picks
<1>8. PartList(parts, c, f, order, S, N)
  BY DEF PartList
<1>. HIDE DEF parts
<1>9. parts \in Seq(Part) /\ Len(parts) = N /\ Gathered(c, parts, S, N)
  BY ONLY c \in Call, <1>2, <1>7, <1>8, PartsTyped
<1>10. Covering(c, parts)
  BY <1>2, <1>6, <1>9, GatheredCover
<1>. QED BY <1>4, <1>9, <1>10 DEF Execution

LEMMA ExecuteIs ==
  ASSUME NEW c \in Call, NEW cids \in [DOMAIN Legs[c] -> Cid], Execute(c, cids)
  PROVE  \E parts : Execution(c, parts)
<1>. DEFINE q == Legs[c]
            N == Len(q)
            parts == [n \in 1 .. N |-> [cid |-> cids[n], legs |-> <<q[n]>>]]
<1>1. N \in Nat /\ DOMAIN q = 1 .. N /\ \A n \in 1 .. N : q[n] \in TokenLeg
  BY LegsTyped
<1>2. DOMAIN cids = 1 .. N /\ \A n \in 1 .. N : cids[n] \in Cid
  BY <1>1
<1>3. Settle(c, [n \in DOMAIN cids |-> [cid |-> cids[n], legs |-> <<Legs[c][n]>>]])
  BY DEF Execute
<1>. HIDE DEF N
<1>4. Settle(c, parts)
  BY <1>2, <1>3
<1>. HIDE DEF q
<1>5. \A n \in 1 .. N : <<q[n]>> \in Seq(TokenLeg)
  BY <1>1
<1>6. \A n \in 1 .. N : [cid |-> cids[n], legs |-> <<q[n]>>] \in Part
  BY <1>2, <1>5 DEF Part
<1>7. parts \in [1 .. N -> Part]
  BY <1>6
<1>8. \A n \in 1 .. N : parts[n].legs = <<q[n]>>
  OBVIOUS
<1>. HIDE DEF parts
<1>9. parts \in Seq(Part) /\ Len(parts) = N
  <2>. DEFINE P == Part
  <2>1. parts \in [1 .. N -> P]
    BY <1>7
  <2>. HIDE DEF P
  <2>2. parts \in Seq(P) /\ Len(parts) = N
    BY ONLY <1>1, <2>1
  <2>. QED BY <2>2 DEF P
<1>10. ASSUME NEW v \in [TokenLeg -> Int]
       PROVE  SumFunctionOnSet([n \in 1 .. N |-> SeqTotal(v, parts[n].legs)], 1 .. N)
                = SeqTotal(v, q)
  <2>. DEFINE D == 1 .. N
              f == [n \in D |-> SeqTotal(v, parts[n].legs)]
              g == [n \in D |-> v[q[n]]]
  <2>1. ASSUME NEW n \in D  PROVE f[n] = g[n]
    <3>1. v[q[n]] \in Int
      BY <1>1
    <3>2. SeqTotal(v, <<q[n]>>) = v[q[n]]
      BY <3>1, SeqTotalOne
    <3>. QED BY <1>8, <3>2
  <2>2. SeqTotal(v, q) = SumFunctionOnSet(g, D)
    BY DEF SeqTotal, N
  <2>3. IsFiniteSet(D)
    BY <1>1, FS_Interval
  <2>. HIDE DEF D, f, g
  <2>4. SumFunctionOnSet(f, D) = SumFunctionOnSet(g, D)
    BY <2>1, <2>3, SumSame
  <2>. QED BY <2>2, <2>4 DEF f, D
<1>11. Covering(c, parts)
  BY <1>9, <1>10 DEF Covering, q
<1>. QED BY <1>4, <1>9, <1>11 DEF Execution

-----------------------------------------------------------------------------
(* TokenTypeOK.                                                             *)

LedgerOK ==
  /\ hold \in [Cid -> TGHolding \union {None}]
  /\ settlement \in [Call -> {"none", "open", "executed", "cancelled"}]

\* A mint is for what a party owes gross in an instrument of some book.
MintOK(h) ==
  h \in TGHolding /\ \E c \in Call : h.amount = Gross(c, h.owner, h.instrument)

\* The holdings were looked up for the legs of some call of the kind that asks.
FundingOK(f, kind) ==
  /\ \A k \in DOMAIN f : f[k] \in Cid
  /\ \E c \in Call : Kind[c] = kind /\ DOMAIN f = Keys(Legs[c])

CommandOK(m) ==
  /\ m.op = "archive" => m.cid \in Cid
  /\ m.op = "mint" => MintOK(m.holding)
  /\ m.op \in {"cancel", "create", "execute"} => m.of \in Call
  /\ m.op = "execute" => FundingOK(m.funding, m.by)

\* What a call holds of the ledger, a seeding's commands and a settlement's
\* funding.
CallOK(c) ==
  /\ pc[c] \in Step /\ result[c] \in {"none", "ok", "failed"}
  /\ chosen[c] \in Call \union {None}
  /\ pc[c] \in {"clear", "mint"} => Kind[c] = "seed"
  /\ pc[c] \in {"fund", "create", "choose", "execute"} => Kind[c] # "seed"
  /\ DOMAIN funding[c] \subseteq Keys(Legs[c])
  /\ \A k \in DOMAIN funding[c] : funding[c][k] \in Cid
  /\ \A m \in todo[c] : CommandOK(m)

Functional ==
  /\ pc = [c \in Call |-> pc[c]] /\ chosen = [c \in Call |-> chosen[c]]
  /\ result = [c \in Call |-> result[c]]

TokenInv ==
  /\ ReportInv
  /\ Functional
  /\ LedgerOK
  /\ DOMAIN todo = Call
  /\ \A c \in Call : CallOK(c)
  /\ \A m \in late : CommandOK(m)
  /\ odd \in 0 .. MaxOdd

LEMMA ReplaceTyped ==
  ASSUME hold \in [Cid -> TGHolding \union {None}],
         NEW used, NEW made \in Seq(TGHolding), Replace(used, made)
  PROVE  hold' \in [Cid -> TGHolding \union {None}]
<1>1. \A k \in Cid : hold[k] \in TGHolding \union {None}
  OBVIOUS
<1>2. \A k \in Free : Rank(Free, k) \in Nat \ {0}
  <2>1. \A k \in Free : Rank(Free, k) \in 1 .. Cardinality(Free)
    BY FreeIsFinite, RankNumbers
  <2>. QED BY <2>1
<1>3. Len(made) \in Nat /\ \A r \in 1 .. Len(made) : made[r] \in TGHolding
  OBVIOUS
<1>4. \A k \in Free : Rank(Free, k) <= Len(made) => made[Rank(Free, k)] \in TGHolding
  BY <1>2, <1>3
<1>5. hold' = [k \in Cid |-> IF k \in Free /\ Rank(Free, k) <= Len(made)
                             THEN made[Rank(Free, k)]
                             ELSE IF k \in used THEN None ELSE hold[k]]
  BY ReplaceIs
<1>6. ASSUME NEW k \in Cid  PROVE hold'[k] \in TGHolding \union {None}
  <2>1. hold'[k] = IF k \in Free /\ Rank(Free, k) <= Len(made) THEN made[Rank(Free, k)]
                   ELSE IF k \in used THEN None ELSE hold[k]
    BY <1>5
  <2>. QED BY <1>1, <1>4, <2>1
<1>. QED BY <1>5, <1>6

LEMMA OneHolding ==
  ASSUME NEW h \in TGHolding
  PROVE  <<h>> \in Seq(TGHolding) /\ Len(<<h>>) = 1 /\ <<h>>[1] = h
<1>. DEFINE H == TGHolding
<1>1. h \in H
  OBVIOUS
<1>. HIDE DEF H
<1>2. <<h>> \in Seq(H) /\ Len(<<h>>) = 1 /\ <<h>>[1] = h
  BY <1>1
<1>. QED BY <1>2 DEF H

LEMMA WithAmount ==
  ASSUME NEW h \in TGHolding, NEW n \in Amount
  PROVE  [h EXCEPT !.amount = n] \in TGHolding
BY DEF TGHolding

LEMMA ToReceiver ==
  ASSUME NEW h \in TGHolding, NEW l \in TokenLeg
  PROVE  [h EXCEPT !.owner = l.receiver, !.amount = l.amount] \in TGHolding
BY DEF TGHolding, TokenLeg

\* What becomes of a holding that pays all its legs: theirs, and the rest.
PaidOut(h, legs) ==
  [n \in DOMAIN legs |-> [h EXCEPT !.owner = legs[n].receiver, !.amount = legs[n].amount]]

LEMMA SplitTyped ==
  ASSUME NEW h \in TGHolding, NEW legs \in Seq(TokenLeg), Left(h, legs) # Refused
  PROVE  /\ PaidOut(h, legs) \in Seq(TGHolding) /\ Len(PaidOut(h, legs)) = Len(legs)
         /\ Remainder(h, Left(h, legs)) \in Seq(TGHolding)
         /\ Split(h, legs) = PaidOut(h, legs) \o Remainder(h, Left(h, legs))
         /\ Split(h, legs) \in Seq(TGHolding)
<1>. DEFINE H == TGHolding
            rest == Remainder(h, Left(h, legs))
            paid == PaidOut(h, legs)
<1>1. Len(legs) \in Nat /\ DOMAIN legs = 1 .. Len(legs)
      /\ \A n \in 1 .. Len(legs) : legs[n] \in TokenLeg
  OBVIOUS
<1>2. paid \in [1 .. Len(legs) -> H]
  <2>1. \A n \in 1 .. Len(legs) :
          [h EXCEPT !.owner = legs[n].receiver, !.amount = legs[n].amount] \in H
    BY <1>1, ToReceiver
  <2>. HIDE DEF H
  <2>. QED BY <1>1, <2>1 DEF PaidOut
<1>3. rest \in Seq(H)
  <2>1. Left(h, legs) \in Nat
    BY LeftIs
  <2>2. CASE Left(h, legs) = 0
    <3>. HIDE DEF H
    <3>. QED BY <2>2 DEF Remainder
  <2>3. CASE Left(h, legs) # 0
    <3>1. [h EXCEPT !.amount = Left(h, legs)] \in TGHolding
      BY <2>1, <2>3, WithAmount DEF Amount
    <3>. QED BY <2>3, <3>1, OneHolding DEF Remainder
  <2>. QED BY <2>2, <2>3
<1>4. Split(h, legs) = paid \o rest
  BY DEF Split, PaidOut
<1>. HIDE DEF H, paid, rest
<1>5. paid \in Seq(H) /\ Len(paid) = Len(legs)
  BY <1>1, <1>2
<1>6. paid \o rest \in Seq(H)
  BY <1>3, <1>5
<1>. QED BY <1>3, <1>4, <1>5, <1>6 DEF H, paid, rest

\* A holding that pays a part is there, and pays its part in full.
LEMMA PayerIs ==
  ASSUME LedgerOK, NEW part \in Part, Pays(part)
  PROVE  /\ part.cid \in Cid /\ part.legs \in Seq(TokenLeg)
         /\ hold[part.cid] \in TGHolding /\ Left(hold[part.cid], part.legs) # Refused
         /\ \A n \in DOMAIN part.legs : part.legs[n].sender = hold[part.cid].owner
<1>1. part.cid \in Cid /\ part.legs \in Seq(TokenLeg)
  BY DEF Part
<1>2. hold[part.cid] # None /\ Left(hold[part.cid], part.legs) # Refused
      /\ \A n \in DOMAIN part.legs : part.legs[n].sender = hold[part.cid].owner
  BY DEF Pays, Movable
<1>3. hold[part.cid] \in TGHolding
  BY <1>1, <1>2 DEF LedgerOK
<1>. QED BY <1>1, <1>2, <1>3

Splits(parts) == [n \in DOMAIN parts |-> Split(hold[parts[n].cid], parts[n].legs)]

LEMMA SplitsTyped ==
  ASSUME LedgerOK, NEW parts \in Seq(Part), \A n \in DOMAIN parts : Pays(parts[n])
  PROVE  /\ Splits(parts) \in Seq(Seq(TGHolding)) /\ Len(Splits(parts)) = Len(parts)
         /\ FlattenSeq(Splits(parts)) \in Seq(TGHolding)
<1>. DEFINE Q == Seq(TGHolding)
<1>1. Len(parts) \in Nat /\ DOMAIN parts = 1 .. Len(parts)
      /\ \A n \in 1 .. Len(parts) : parts[n] \in Part
  OBVIOUS
<1>2. ASSUME NEW n \in 1 .. Len(parts)
      PROVE  Split(hold[parts[n].cid], parts[n].legs) \in Q
  <2>1. parts[n] \in Part /\ Pays(parts[n])
    BY <1>1
  <2>. QED BY <2>1, PayerIs, SplitTyped
<1>. HIDE DEF Q
<1>3. Splits(parts) \in [1 .. Len(parts) -> Q]
  BY <1>1, <1>2 DEF Splits
<1>4. Splits(parts) \in Seq(Q) /\ Len(Splits(parts)) = Len(parts)
  BY <1>1, <1>3
<1>5. [h \in TGHolding |-> 0] \in [TGHolding -> Int]
  OBVIOUS
<1>. QED BY <1>4, <1>5, SeqTotalFlatten DEF Q

-----------------------------------------------------------------------------
(* What a step may do to the ledger.                                        *)

Marks(c) ==
  /\ UNCHANGED hold /\ settlement[c] # "executed"
  /\ \E s \in {"open", "cancelled"} : settlement' = [settlement EXCEPT ![c] = s]

\* A holding is locked, unlocked or given away.
Swaps(k, h) ==
  /\ hold[k] # None /\ h.amount = hold[k].amount /\ h.instrument = hold[k].instrument
  /\ Replace({k}, <<h>>) /\ UNCHANGED settlement

LedgerStep ==
  \/ UNCHANGED ledger
  \/ \E c \in Call : Marks(c)
  \/ \E k \in Cid : Archive(k)
  \/ \E h : MintOK(h) /\ Mint(h)
  \/ \E k \in Cid, h \in TGHolding : Swaps(k, h)
  \/ \E c, parts : Execution(c, parts)

LEMMA CommitIs ==
  ASSUME NEW m, CommandOK(m), Commit(m)
  PROVE  LedgerStep
<1>1. CASE m.op = "archive" /\ Archive(m.cid)
  BY <1>1 DEF CommandOK, LedgerStep
<1>2. CASE m.op = "cancel" /\ Cancel(m.of)
  <2>1. m.of \in Call /\ Marks(m.of)
    BY <1>2 DEF CommandOK, Cancel, Marks
  <2>. QED BY <2>1 DEF LedgerStep
<1>3. CASE m.op = "mint" /\ Mint(m.holding)
  BY <1>3 DEF CommandOK, LedgerStep
<1>4. CASE m.op = "create" /\ Create(m.of)
  <2>1. m.of \in Call /\ Marks(m.of)
    BY <1>4 DEF CommandOK, Create, Marks
  <2>. QED BY <2>1 DEF LedgerStep
<1>5. CASE m.op = "execute" /\ m.by = "single" /\ ExecuteThreaded(m.of, m.funding)
  <2>1. m.of \in Call /\ \A k \in DOMAIN m.funding : m.funding[k] \in Cid
    BY <1>5 DEF CommandOK, FundingOK
  <2>2. PICK d \in Call : Kind[d] = "single" /\ DOMAIN m.funding = Keys(Legs[d])
    BY <1>5 DEF CommandOK, FundingOK
  <2>3. \E parts : Execution(m.of, parts)
    BY <1>5, <2>1, <2>2, ThreadedIs
  <2>. QED BY <2>3 DEF LedgerStep
<1>6. CASE m.op = "execute" /\ m.by = "cross" /\ ExecuteMulti(m.of, m.funding)
  <2>1. m.of \in Call /\ \A k \in DOMAIN m.funding : m.funding[k] \in Cid
    BY <1>6 DEF CommandOK, FundingOK
  <2>2. \E parts : Execution(m.of, parts)
    BY <1>6, <2>1, MultiIs
  <2>. QED BY <2>2 DEF LedgerStep
<1>. QED BY <1>1, <1>2, <1>3, <1>4, <1>5, <1>6 DEF Commit

\* What a submission does, answered or not.
LEMMA SubmissionIs ==
  ASSUME NEW m, CommandOK(m), Answered(m) \/ Unanswered(m),
         odd \in 0 .. MaxOdd, \A n \in late : CommandOK(n)
  PROVE  LedgerStep /\ odd' \in 0 .. MaxOdd /\ \A n \in late' : CommandOK(n)
<1>1. CASE Answered(m)
  BY <1>1, CommitIs DEF Answered
<1>2. CASE UNCHANGED <<ledger, late, odd>>
  BY <1>2 DEF LedgerStep
<1>3. CASE late' = late \union {m} /\ Odd /\ UNCHANGED ledger
  <2>1. odd' \in 0 .. MaxOdd
    BY <1>3, Bounds DEF Odd
  <2>. QED BY <1>3, <2>1 DEF LedgerStep
<1>. QED BY <1>1, <1>2, <1>3 DEF Unanswered

LEMMA LedgerStays ==
  ASSUME LedgerOK, LedgerStep
  PROVE  LedgerOK'
<1>1. CASE UNCHANGED ledger
  BY <1>1 DEF ledger, LedgerOK
<1>2. CASE \E c \in Call : Marks(c)
  BY <1>2 DEF Marks, LedgerOK
<1>3. ASSUME NEW k \in Cid, Archive(k)  PROVE LedgerOK'
  <2>1. Replace({k}, <<>>) /\ UNCHANGED settlement
    BY <1>3 DEF Archive
  <2>2. <<>> \in Seq(TGHolding)
    OBVIOUS
  <2>3. hold' \in [Cid -> TGHolding \union {None}]
    BY <2>1, <2>2, ReplaceTyped DEF LedgerOK
  <2>. QED BY <2>1, <2>3 DEF LedgerOK
<1>4. ASSUME NEW h \in TGHolding, NEW used, Replace(used, <<h>>), UNCHANGED settlement
      PROVE  LedgerOK'
  <2>1. <<h>> \in Seq(TGHolding)
    BY OneHolding
  <2>2. hold' \in [Cid -> TGHolding \union {None}]
    BY <1>4, <2>1, ReplaceTyped DEF LedgerOK
  <2>. QED BY <1>4, <2>2 DEF LedgerOK
<1>5. ASSUME NEW c, NEW parts, Execution(c, parts)  PROVE LedgerOK'
  <2>1. /\ parts \in Seq(Part) /\ \A n \in DOMAIN parts : Pays(parts[n])
        /\ Replace({parts[n].cid : n \in DOMAIN parts}, FlattenSeq(Splits(parts)))
        /\ settlement' = [settlement EXCEPT ![c] = "executed"]
    BY <1>5 DEF Execution, Settle, Splits
  <2>2. hold' \in [Cid -> TGHolding \union {None}]
    BY <2>1, SplitsTyped, ReplaceTyped DEF LedgerOK
  <2>. QED BY <2>1, <2>2 DEF LedgerOK
<1>6. CASE \E h : MintOK(h) /\ Mint(h)
  BY <1>4, <1>6 DEF MintOK, Mint
<1>7. CASE \E k \in Cid, h \in TGHolding : Swaps(k, h)
  BY <1>4, <1>7 DEF Swaps
<1>. QED BY <1>1, <1>2, <1>3, <1>5, <1>6, <1>7 DEF LedgerStep

-----------------------------------------------------------------------------
(* The commands a call submits.                                             *)

LEMMA FirstIs ==
  ASSUME NEW S, S # {}
  PROVE  First(S) \in S
BY DEF First

LEMMA FoundCommands ==
  ASSUME LedgerOK, NEW found \in {Archives \union Cancels, {}}, NEW m \in found
  PROVE  CommandOK(m)
<1>1. m \in Archives \union Cancels
  OBVIOUS
<1>2. CASE m \in Archives
  <2>1. PICK k \in Cid : m = [op |-> "archive", cid |-> k]
    BY <1>2 DEF Archives
  <2>2. m.op = "archive" /\ m.cid = k
    BY <2>1
  <2>. QED BY <2>2 DEF CommandOK
<1>3. CASE m \in Cancels
  <2>1. PICK c \in Call : m = [op |-> "cancel", of |-> c]
    BY <1>3 DEF Cancels
  <2>2. m.op = "cancel" /\ m.of = c
    BY <2>1
  <2>. QED BY <2>2 DEF CommandOK
<1>. QED BY <1>1, <1>2, <1>3

\* What is owed gross by someone who owes is more than nothing.
LEMMA GrossOfDebt ==
  ASSUME NEW c \in Call, NEW d \in Book[c]
  PROVE  d \in Debt /\ Gross(c, d.payer, d.instrument) \in Amount
<1>. DEFINE D == {e \in Book[c] : e.payer = d.payer /\ e.instrument = d.instrument}
            h == [e \in D |-> e.amount]
<1>1. d \in D /\ D \in SUBSET Book[c]
  OBVIOUS
<1>2. IsFiniteSet(D) /\ D \subseteq Debt
  <2>1. Book[c] \in SUBSET Debt /\ IsFiniteSet(Book[c])
    BY CallTerms, BookTyped
  <2>2. IsFiniteSet(D)
    BY ONLY <1>1, <2>1, FS_Subset
  <2>. QED BY <2>1, <2>2
<1>3. \A e \in D : h[e] = e.amount /\ h[e] \in Nat /\ h[e] > 0
  BY <1>2 DEF Debt, Amount
<1>4. Gross(c, d.payer, d.instrument) = Total(D)
  BY DEF Gross
<1>. HIDE DEF h, D
<1>5. Total(D) = SumFunctionOnSet(h, D)
  BY <1>2, <1>3, TotalIsSum
<1>6. SumFunctionOnSet(h, D) > 0
  BY <1>1, <1>2, <1>3, SumPositive
<1>7. SumFunctionOnSet(h, D) \in Nat
  BY <1>2, <1>3, SumNat
<1>. QED BY <1>1, <1>2, <1>4, <1>5, <1>6, <1>7 DEF Amount

LEMMA MintCommands ==
  ASSUME NEW c \in Call, NEW m \in Mints(c)
  PROVE  CommandOK(m)
<1>1. PICK d \in Book[c] :
        m = [op |-> "mint",
             holding |-> [owner |-> d.payer, instrument |-> d.instrument,
                          amount |-> Gross(c, d.payer, d.instrument), locked |-> FALSE]]
  BY DEF Mints
<1>. DEFINE h == m.holding
<1>2. /\ m.op = "mint" /\ h.owner = d.payer /\ h.instrument = d.instrument
      /\ h.amount = Gross(c, d.payer, d.instrument)
      /\ h = [owner |-> d.payer, instrument |-> d.instrument,
              amount |-> Gross(c, d.payer, d.instrument), locked |-> FALSE]
  BY <1>1
<1>3. d.payer \in Party /\ d.instrument \in Instrument /\ Gross(c, d.payer, d.instrument) \in Amount
  BY GrossOfDebt DEF Debt
<1>4. h \in TGHolding
  BY <1>2, <1>3 DEF TGHolding
<1>. HIDE DEF h
<1>5. MintOK(h)
  BY <1>2, <1>4 DEF MintOK
<1>. QED BY <1>2, <1>5 DEF CommandOK, h

\* A settling call asks for what it created and for the one it chose.
LEMMA CreateCommand ==
  ASSUME NEW c \in Call
  PROVE  CommandOK([op |-> "create", of |-> c])
<1>. DEFINE m == [op |-> "create", of |-> c]
<1>1. m.op = "create" /\ m.of = c
  OBVIOUS
<1>. HIDE DEF m
<1>2. CommandOK(m)
  BY <1>1 DEF CommandOK
<1>. QED BY <1>2 DEF m

LEMMA ExecuteCommand ==
  ASSUME TokenInv, NEW c \in Call, pc[c] = "execute"
  PROVE  CommandOK([op |-> "execute", by |-> Kind[c], of |-> chosen[c], funding |-> funding[c]])
<1>. DEFINE m == [op |-> "execute", by |-> Kind[c], of |-> chosen[c], funding |-> funding[c]]
<1>1. m.op = "execute" /\ m.by = Kind[c] /\ m.of = chosen[c] /\ m.funding = funding[c]
  OBVIOUS
<1>2. CallOK(c) /\ Settling(c) /\ LookedUp(c)
  BY DEF TokenInv, CallOK, ReportInv, Settling
<1>3. /\ chosen[c] \in Call /\ DOMAIN funding[c] = Keys(Legs[c])
      /\ \A k \in DOMAIN funding[c] : funding[c][k] \in Cid
  BY <1>2 DEF LookedUp, CallOK
<1>. HIDE DEF m
<1>4. FundingOK(m.funding, m.by)
  BY <1>1, <1>3 DEF FundingOK
<1>5. CommandOK(m)
  BY <1>1, <1>3, <1>4 DEF CommandOK
<1>. QED BY <1>5 DEF m

\* What a step of c leaves alone of the other calls' commands, and what it may
\* leave late.
Sent(c) ==
  /\ DOMAIN todo' = Call /\ \A d \in Call \ {c} : todo'[d] = todo[d]
  /\ LedgerStep /\ odd' \in 0 .. MaxOdd /\ \A m \in late' : CommandOK(m)

LEMMA QuietStep ==
  ASSUME TokenInv, UNCHANGED <<ledger, late, odd>>
  PROVE  LedgerStep /\ odd' \in 0 .. MaxOdd /\ \A m \in late' : CommandOK(m)
BY DEF LedgerStep, TokenInv

LEMMA BusyStep ==
  ASSUME TokenInv, NEW m, CommandOK(m), Answered(m) \/ Unanswered(m)
  PROVE  LedgerStep /\ odd' \in 0 .. MaxOdd /\ \A n \in late' : CommandOK(n)
BY SubmissionIs DEF TokenInv

\* A call that returns forgets its funding.
LEMMA ReturnOK ==
  ASSUME TokenInv, NEW c \in Call, NEW r \in {"ok", "failed"}, Return(c, r),
         \A m \in todo'[c] : CommandOK(m)
  PROVE  CallOK(c)'
<1>1. /\ DOMAIN pc = Call /\ DOMAIN funding = Call /\ DOMAIN chosen = Call
      /\ DOMAIN result = Call /\ CallOK(c)
  BY DEF TokenInv, ReportInv, FunctionsOK
<1>2. /\ pc'[c] = "done" /\ result'[c] = r /\ funding'[c] = <<>>
      /\ chosen'[c] = IF r = "ok" THEN chosen[c] ELSE None
  BY <1>1 DEF Return, Go
<1>3. DOMAIN funding'[c] = {}
  BY <1>2
<1>4. pc'[c] \in Step /\ result'[c] \in {"none", "ok", "failed"}
  BY <1>2 DEF Step
<1>5. chosen'[c] \in Call \union {None}
  BY <1>1, <1>2 DEF CallOK
<1>. QED BY <1>2, <1>3, <1>4, <1>5 DEF CallOK

\* A call that goes on, with the same funding, settlement and result.
Onward(c, step) ==
  /\ pc'[c] = step /\ step \in Step
  /\ step \in {"clear", "mint"} => Kind[c] = "seed"
  /\ step \in {"fund", "create", "choose", "execute"} => Kind[c] # "seed"

LEMMA OnwardOK ==
  ASSUME TokenInv, NEW c \in Call, NEW step, Onward(c, step),
         result'[c] \in {"none", "ok", "failed"},
         UNCHANGED <<funding, chosen>>, \A m \in todo'[c] : CommandOK(m)
  PROVE  CallOK(c)'
<1>1. CallOK(c)
  BY DEF TokenInv
<1>2. funding'[c] = funding[c] /\ chosen'[c] = chosen[c]
  OBVIOUS
<1>. QED BY <1>1, <1>2 DEF CallOK, Onward

LEMMA GoIs ==
  ASSUME TokenInv, NEW c \in Call, NEW step, Go(c, step)
  PROVE  pc'[c] = step
BY DEF TokenInv, ReportInv, FunctionsOK, Go

-----------------------------------------------------------------------------
(* The steps of a call.                                                     *)

LEMMA BeginSeedOK ==
  ASSUME TokenInv, NEW c \in Call, BeginSeed(c)
  PROVE  CallOK(c)' /\ Sent(c)
<1>1. CallOK(c) /\ DOMAIN todo = Call /\ LedgerOK /\ result[c] \in {"none", "ok", "failed"}
  BY DEF TokenInv, CallOK
<1>2. UNCHANGED <<ledger, late, odd>> /\ Kind[c] = "seed"
  BY DEF BeginSeed, Begin
<1>3. CASE Return(c, "failed") /\ UNCHANGED todo
  <2>1. \A m \in todo'[c] : CommandOK(m)
    BY <1>1, <1>3 DEF CallOK
  <2>2. CallOK(c)'
    BY <1>3, <2>1, ReturnOK
  <2>. QED BY <1>1, <1>2, <1>3, <2>2, QuietStep DEF Sent
<1>4. CASE ~ (Return(c, "failed") /\ UNCHANGED todo)
  <2>1. PICK found \in {Archives \union Cancels, {}} : todo' = [todo EXCEPT ![c] = found]
    BY <1>4 DEF BeginSeed
  <2>2. Go(c, "clear") /\ UNCHANGED <<funding, chosen, result>>
    BY <1>4 DEF BeginSeed
  <2>3. \A m \in found : CommandOK(m)
    BY <1>1, FoundCommands
  <2>4. DOMAIN todo' = Call /\ todo'[c] = found /\ \A d \in Call \ {c} : todo'[d] = todo[d]
    BY <1>1, <2>1
  <2>5. Onward(c, "clear")
    BY <1>2, <2>2, GoIs DEF Onward, Step
  <2>6. CallOK(c)'
    BY <1>1, <2>2, <2>3, <2>4, <2>5, OnwardOK
  <2>. QED BY <1>2, <2>4, <2>6, QuietStep DEF Sent
<1>. QED BY <1>3, <1>4

\* One command less.
LEMMA TakeFirst ==
  ASSUME TokenInv, NEW c \in Call, todo[c] # {}, todo' = [todo EXCEPT ![c] = @ \ {First(@)}]
  PROVE  /\ CommandOK(First(todo[c])) /\ \A m \in todo'[c] : CommandOK(m)
         /\ DOMAIN todo' = Call /\ \A d \in Call \ {c} : todo'[d] = todo[d]
<1>1. DOMAIN todo = Call /\ \A m \in todo[c] : CommandOK(m)
  BY DEF TokenInv, CallOK
<1>2. First(todo[c]) \in todo[c]
  BY FirstIs
<1>3. todo'[c] \subseteq todo[c] /\ DOMAIN todo' = Call /\ \A d \in Call \ {c} : todo'[d] = todo[d]
  BY <1>1
<1>. QED BY <1>1, <1>2, <1>3

LEMMA ClearOK ==
  ASSUME TokenInv, NEW c \in Call, Clear(c) \/ MintNext(c)
  PROVE  CallOK(c)' /\ Sent(c)
<1>1. /\ todo[c] # {} /\ todo' = [todo EXCEPT ![c] = @ \ {First(@)}]
      /\ Answered(First(todo[c])) \/ Unanswered(First(todo[c]))
      /\ UNCHANGED <<pc, funding, chosen>>
      /\ pc[c] \in {"clear", "mint"}
      /\ UNCHANGED result \/ result' = [result EXCEPT ![c] = "failed"]
  BY DEF Clear, MintNext
<1>2. /\ CommandOK(First(todo[c])) /\ \A m \in todo'[c] : CommandOK(m)
      /\ DOMAIN todo' = Call /\ \A d \in Call \ {c} : todo'[d] = todo[d]
  BY <1>1, TakeFirst
<1>3. CallOK(c) /\ DOMAIN result = Call
  BY DEF TokenInv, ReportInv, FunctionsOK
<1>4. result'[c] \in {"none", "ok", "failed"}
  BY <1>1, <1>3 DEF CallOK
<1>5. Onward(c, pc[c])
  BY <1>1, <1>3 DEF Onward, CallOK
<1>6. CallOK(c)'
  BY <1>1, <1>2, <1>4, <1>5, OnwardOK
<1>7. LedgerStep /\ odd' \in 0 .. MaxOdd /\ \A n \in late' : CommandOK(n)
  BY <1>1, <1>2, BusyStep
<1>. QED BY <1>2, <1>6, <1>7 DEF Sent

LEMMA BeginMintOK ==
  ASSUME TokenInv, NEW c \in Call, BeginMint(c)
  PROVE  CallOK(c)' /\ Sent(c)
<1>1. /\ pc[c] = "clear" /\ todo' = [todo EXCEPT ![c] = Mints(c)] /\ Go(c, "mint")
      /\ UNCHANGED <<ledger, funding, chosen, result, late, odd>>
  BY DEF BeginMint
<1>2. CallOK(c) /\ DOMAIN todo = Call
  BY DEF TokenInv
<1>3. DOMAIN todo' = Call /\ todo'[c] = Mints(c) /\ \A d \in Call \ {c} : todo'[d] = todo[d]
  BY <1>1, <1>2
<1>4. \A m \in todo'[c] : CommandOK(m)
  BY <1>3, MintCommands
<1>5. Onward(c, "mint")
  BY <1>1, <1>2, GoIs DEF Onward, Step, CallOK
<1>6. result'[c] \in {"none", "ok", "failed"}
  BY <1>1, <1>2 DEF CallOK
<1>7. CallOK(c)'
  BY <1>1, <1>4, <1>5, <1>6, OnwardOK
<1>. QED BY <1>1, <1>3, <1>7, QuietStep DEF Sent

LEMMA EndSeedOK ==
  ASSUME TokenInv, NEW c \in Call, EndSeed(c)
  PROVE  CallOK(c)' /\ Sent(c)
<1>1. CallOK(c) /\ DOMAIN todo = Call
  BY DEF TokenInv
<1>2. PICK r \in {"ok", "failed"} : Return(c, r)
  BY <1>1 DEF EndSeed, CallOK
<1>3. UNCHANGED <<ledger, todo, late, odd>>
  BY DEF EndSeed
<1>4. CallOK(c)'
  BY <1>1, <1>2, <1>3, ReturnOK DEF CallOK
<1>. QED BY <1>1, <1>3, <1>4, QuietStep DEF Sent

LEMMA SettlingOK ==
  ASSUME TokenInv, NEW c \in Call, BeginSettle(c) \/ FundNext(c) \/ Choose(c)
  PROVE  Sent(c) /\ todo'[c] = todo[c]
<1>1. UNCHANGED <<ledger, todo, late, odd>>
  BY DEF BeginSettle, Begin, FundNext, Choose
<1>2. DOMAIN todo = Call
  BY DEF TokenInv
<1>. QED BY <1>1, <1>2, QuietStep DEF Sent

LEMMA BeginSettleOK ==
  ASSUME TokenInv, NEW c \in Call, BeginSettle(c)
  PROVE  CallOK(c)' /\ Sent(c)
<1>1. CallOK(c) /\ Kind[c] # "seed" /\ Go(c, "fund") /\ UNCHANGED <<funding, chosen, result>>
  BY DEF TokenInv, BeginSettle
<1>2. Sent(c) /\ todo'[c] = todo[c]
  BY SettlingOK
<1>3. Onward(c, "fund")
  BY <1>1, GoIs DEF Onward, Step
<1>4. result'[c] \in {"none", "ok", "failed"} /\ \A m \in todo'[c] : CommandOK(m)
  BY <1>1, <1>2 DEF CallOK
<1>5. CallOK(c)'
  BY <1>1, <1>3, <1>4, OnwardOK
<1>. QED BY <1>2, <1>5

LEMMA FundNextOK ==
  ASSUME TokenInv, NEW c \in Call, FundNext(c)
  PROVE  CallOK(c)' /\ Sent(c)
<1>1. CallOK(c) /\ DOMAIN funding = Call /\ pc[c] = "fund" /\ Kind[c] # "seed"
  BY DEF TokenInv, FundNext, ReportInv, FunctionsOK, CallOK
<1>2. Sent(c) /\ todo'[c] = todo[c]
  BY SettlingOK
<1>3. \A m \in todo'[c] : CommandOK(m)
  BY <1>1, <1>2 DEF CallOK
<1>4. CASE Return(c, "failed")
  BY <1>2, <1>3, <1>4, ReturnOK
<1>5. CASE ~ Return(c, "failed")
  <2>1. PICK n \in DOMAIN Legs[c] : \E k \in Largest(Key(Legs[c][n])) :
          /\ funding' = [funding EXCEPT ![c] =
               [x \in DOMAIN @ \union {Key(Legs[c][n])} |-> IF x = Key(Legs[c][n]) THEN k ELSE @[x]]]
          /\ Go(c, "create") \/ UNCHANGED pc
          /\ UNCHANGED <<chosen, result>>
    BY <1>5 DEF FundNext
  <2>2. PICK k \in Cid :
          funding' = [funding EXCEPT ![c] =
            [x \in DOMAIN @ \union {Key(Legs[c][n])} |-> IF x = Key(Legs[c][n]) THEN k ELSE @[x]]]
    BY <2>1 DEF Largest
  <2>. DEFINE key == Key(Legs[c][n])
              old == funding[c]
              new == funding'[c]
  <2>3. new = [x \in DOMAIN old \union {key} |-> IF x = key THEN k ELSE old[x]]
    BY <1>1, <2>2
  <2>4. key \in Keys(Legs[c])
    BY DEF Keys
  <2>5. DOMAIN old \subseteq Keys(Legs[c]) /\ \A x \in DOMAIN old : old[x] \in Cid
    BY <1>1 DEF CallOK
  <2>. HIDE DEF key, old, new
  <2>6. DOMAIN new \subseteq Keys(Legs[c]) /\ \A x \in DOMAIN new : new[x] \in Cid
    BY <2>3, <2>4, <2>5
  <2>7. /\ DOMAIN funding'[c] \subseteq Keys(Legs[c])
        /\ \A x \in DOMAIN funding'[c] : funding'[c][x] \in Cid
    BY <2>6 DEF new
  <2>8. (pc'[c] = "create" \/ pc'[c] = "fund") /\ UNCHANGED <<chosen, result>>
    BY <1>1, <2>1, GoIs
  <2>9. CallOK(c)'
    BY <1>1, <1>3, <2>7, <2>8 DEF CallOK, Step
  <2>. QED BY <1>2, <2>9
<1>. QED BY <1>4, <1>5

LEMMA CreateSettlementOK ==
  ASSUME TokenInv, NEW c \in Call, CreateSettlement(c)
  PROVE  CallOK(c)' /\ Sent(c)
<1>. DEFINE m == [op |-> "create", of |-> c]
<1>1. CallOK(c) /\ DOMAIN todo = Call /\ pc[c] = "create" /\ UNCHANGED todo /\ Kind[c] # "seed"
  BY DEF TokenInv, CreateSettlement, CallOK
<1>2. CommandOK(m)
  BY CreateCommand
<1>3. \/ Answered(m) /\ Go(c, "choose") /\ UNCHANGED <<funding, chosen, result>>
      \/ Unanswered(m) /\ Return(c, "failed")
  BY DEF CreateSettlement
<1>. HIDE DEF m
<1>4. Sent(c)
  BY <1>1, <1>2, <1>3, BusyStep DEF Sent
<1>5. result[c] \in {"none", "ok", "failed"} /\ \A n \in todo'[c] : CommandOK(n)
  BY <1>1 DEF CallOK
<1>6. CallOK(c)'
  <2>1. CASE Return(c, "failed")
    BY <1>5, <2>1, ReturnOK
  <2>2. CASE Go(c, "choose") /\ UNCHANGED <<funding, chosen, result>>
    <3>1. Onward(c, "choose")
      BY <1>1, <2>2, GoIs DEF Onward, Step
    <3>. QED BY <1>5, <2>2, <3>1, OnwardOK
  <2>. QED BY <1>3, <2>1, <2>2
<1>. QED BY <1>4, <1>6

LEMMA ChooseOK ==
  ASSUME TokenInv, NEW c \in Call, Choose(c)
  PROVE  CallOK(c)' /\ Sent(c)
<1>1. CallOK(c) /\ DOMAIN chosen = Call /\ pc[c] = "choose" /\ Kind[c] # "seed"
  BY DEF TokenInv, Choose, ReportInv, FunctionsOK, CallOK
<1>2. Sent(c) /\ todo'[c] = todo[c]
  BY SettlingOK
<1>3. \A m \in todo'[c] : CommandOK(m)
  BY <1>1, <1>2 DEF CallOK
<1>4. CASE Return(c, "failed")
  BY <1>2, <1>3, <1>4, ReturnOK
<1>5. CASE ~ Return(c, "failed")
  <2>1. PICK d \in Call : chosen' = [chosen EXCEPT ![c] = d]
    BY <1>5 DEF Choose
  <2>2. Go(c, "execute") /\ UNCHANGED <<funding, result>>
    BY <1>5 DEF Choose
  <2>3. pc'[c] = "execute" /\ chosen'[c] \in Call
    BY <1>1, <2>1, <2>2, GoIs
  <2>4. CallOK(c)'
    BY <1>1, <1>3, <2>2, <2>3 DEF CallOK, Step
  <2>. QED BY <1>2, <2>4
<1>. QED BY <1>4, <1>5

LEMMA ExecuteChosenOK ==
  ASSUME TokenInv, NEW c \in Call, ExecuteChosen(c)
  PROVE  CallOK(c)' /\ Sent(c)
<1>. DEFINE m == [op |-> "execute", by |-> Kind[c], of |-> chosen[c], funding |-> funding[c]]
<1>1. CallOK(c) /\ DOMAIN todo = Call /\ pc[c] = "execute" /\ UNCHANGED todo
  BY DEF TokenInv, ExecuteChosen
<1>2. CommandOK(m)
  BY <1>1, ExecuteCommand
<1>3. \/ Answered(m) /\ Return(c, "ok")
      \/ Unanswered(m) /\ Return(c, "failed")
  BY DEF ExecuteChosen
<1>. HIDE DEF m
<1>4. Sent(c)
  BY <1>1, <1>2, <1>3, BusyStep DEF Sent
<1>5. \A n \in todo'[c] : CommandOK(n)
  BY <1>1 DEF CallOK
<1>6. CallOK(c)'
  BY <1>3, <1>5, ReturnOK
<1>. QED BY <1>4, <1>6

LEMMA CallStepOK ==
  ASSUME TokenInv, NEW c \in Call, CallStep(c)
  PROVE  CallOK(c)' /\ Sent(c)
BY BeginSeedOK, ClearOK, BeginMintOK, EndSeedOK, BeginSettleOK, FundNextOK,
   CreateSettlementOK, ChooseOK, ExecuteChosenOK DEF CallStep

-----------------------------------------------------------------------------

\* With no step of a call, what the calls hold stays.
LEMMA QuietCalls ==
  ASSUME TokenInv, UNCHANGED driver
  PROVE  DOMAIN todo' = Call /\ \A c \in Call : CallOK(c)'
<1>1. UNCHANGED <<pc, todo, funding, chosen, result>>
  BY DEF driver
<1>2. DOMAIN todo = Call /\ \A c \in Call : CallOK(c)
  BY DEF TokenInv
<1>3. ASSUME NEW c \in Call  PROVE CallOK(c)'
  <2>1. CallOK(c)
    BY <1>2
  <2>. QED BY <1>1, <2>1 DEF CallOK
<1>. QED BY <1>1, <1>2, <1>3

LEMMA SwapIs ==
  ASSUME LedgerOK, NEW k \in Cid, Lock(k) \/ Unlock(k) \/ \E p \in Party : TransferTo(k, p)
  PROVE  LedgerStep
<1>. DEFINE h == hold[k]
<1>1. h # None /\ h \in TGHolding /\ UNCHANGED settlement
  BY DEF Lock, Unlock, TransferTo, Movable, LedgerOK
<1>2. CASE Lock(k)
  <2>. DEFINE g == [h EXCEPT !.locked = TRUE]
  <2>1. g \in TGHolding /\ g.amount = h.amount /\ g.instrument = h.instrument
    <3>. HIDE DEF h
    <3>. QED BY <1>1 DEF TGHolding
  <2>2. Replace({k}, <<g>>)
    BY <1>2 DEF Lock
  <2>. HIDE DEF g
  <2>3. Swaps(k, g)
    BY <1>1, <2>1, <2>2 DEF Swaps
  <2>. QED BY <2>1, <2>3 DEF LedgerStep
<1>3. CASE Unlock(k)
  <2>. DEFINE g == [h EXCEPT !.locked = FALSE]
  <2>1. g \in TGHolding /\ g.amount = h.amount /\ g.instrument = h.instrument
    <3>. HIDE DEF h
    <3>. QED BY <1>1 DEF TGHolding
  <2>2. Replace({k}, <<g>>)
    BY <1>3 DEF Unlock
  <2>. HIDE DEF g
  <2>3. Swaps(k, g)
    BY <1>1, <2>1, <2>2 DEF Swaps
  <2>. QED BY <2>1, <2>3 DEF LedgerStep
<1>4. ASSUME NEW p \in Party, TransferTo(k, p)  PROVE LedgerStep
  <2>. DEFINE g == [h EXCEPT !.owner = p]
  <2>1. g \in TGHolding /\ g.amount = h.amount /\ g.instrument = h.instrument
    <3>. HIDE DEF h
    <3>. QED BY <1>1 DEF TGHolding
  <2>2. Replace({k}, <<g>>)
    BY <1>4 DEF TransferTo
  <2>. HIDE DEF g
  <2>3. Swaps(k, g)
    BY <1>1, <2>1, <2>2 DEF Swaps
  <2>. QED BY <2>1, <2>3 DEF LedgerStep
<1>. QED BY <1>2, <1>3, <1>4

\* What every step does to the ledger, to the late commands and to the bound.
LEMMA StepIs ==
  ASSUME TokenInv, [Next]_vars
  PROVE  /\ LedgerStep /\ odd' \in 0 .. MaxOdd /\ \A m \in late' : CommandOK(m)
         /\ DOMAIN todo' = Call /\ \A c \in Call : CallOK(c)'
<1>0. LedgerOK /\ odd \in 0 .. MaxOdd /\ \A m \in late : CommandOK(m)
  BY DEF TokenInv
<1>1. CASE UNCHANGED vars
  <2>1. UNCHANGED <<ledger, late, odd>> /\ UNCHANGED driver
    BY <1>1 DEF vars, ledger, driver
  <2>. QED BY <2>1, QuietStep, QuietCalls
<1>2. ASSUME NEW c \in Call, CallStep(c)
      PROVE  /\ LedgerStep /\ odd' \in 0 .. MaxOdd /\ \A m \in late' : CommandOK(m)
             /\ DOMAIN todo' = Call /\ \A d \in Call : CallOK(d)'
  <2>1. CallOK(c)' /\ Sent(c) /\ Others(c)
    BY <1>2, CallStepOK, CallFrame DEF TokenInv
  <2>2. ASSUME NEW d \in Call \ {c}  PROVE CallOK(d)'
    <3>1. CallOK(d)
      BY DEF TokenInv
    <3>2. /\ pc'[d] = pc[d] /\ funding'[d] = funding[d] /\ chosen'[d] = chosen[d]
          /\ result'[d] = result[d] /\ todo'[d] = todo[d]
      BY <2>1 DEF Others, Sent
    <3>. QED BY <3>1, <3>2 DEF CallOK
  <2>3. ASSUME NEW d \in Call  PROVE CallOK(d)'
    BY <2>1, <2>2
  <2>. QED BY <2>1, <2>3 DEF Sent
<1>3. ASSUME Act  PROVE odd' \in 0 .. MaxOdd /\ UNCHANGED <<driver, late>>
  BY <1>0, <1>3, Bounds DEF Act, Odd
<1>4. ASSUME NEW c \in Call, ExecuteDirectly(c)
      PROVE  LedgerStep /\ Act
  <2>1. PICK cids \in [DOMAIN Legs[c] -> {k \in Cid : hold[k] # None}] : Execute(c, cids)
    BY <1>4 DEF ExecuteDirectly
  <2>2. cids \in [DOMAIN Legs[c] -> Cid]
    OBVIOUS
  <2>3. \E parts : Execution(c, parts)
    BY <2>1, <2>2, ExecuteIs
  <2>. QED BY <1>4, <2>3 DEF LedgerStep, ExecuteDirectly
<1>5. ASSUME NEW k \in Cid, Lock(k) \/ Unlock(k) \/ \E p \in Party : TransferTo(k, p)
      PROVE  LedgerStep /\ odd' \in 0 .. MaxOdd /\ UNCHANGED <<driver, late>>
  <2>1. LedgerStep
    BY <1>0, <1>5, SwapIs
  <2>2. Act \/ UNCHANGED <<driver, late, odd>>
    BY <1>5 DEF Lock, Unlock, TransferTo
  <2>. QED BY <1>0, <1>3, <2>1, <2>2
<1>6. CASE Arrive
  <2>1. PICK m \in late : Commit(m) /\ late' = late \ {m} /\ UNCHANGED <<driver, odd>>
    BY <1>6 DEF Arrive
  <2>2. LedgerStep
    BY <1>0, <2>1, CommitIs
  <2>. QED BY <1>0, <2>1, <2>2, QuietCalls
<1>7. CASE \E c \in Call : ExecuteDirectly(c)
  BY <1>0, <1>3, <1>4, <1>7, QuietCalls
<1>8. CASE \E k \in Cid : Lock(k) \/ Unlock(k) \/ \E p \in Party : TransferTo(k, p)
  BY <1>0, <1>5, <1>8, QuietCalls
<1>. QED BY <1>1, <1>2, <1>6, <1>7, <1>8 DEF Next, CallStep

Updated(f, g, c) == g = f \/ \E x : g = [f EXCEPT ![c] = x]

LEMMA UpdatedIs ==
  ASSUME NEW f, f = [d \in Call |-> f[d]], NEW g, NEW c, Updated(f, g, c)
  PROVE  g = [d \in Call |-> g[d]]
BY DEF Updated

LEMMA CallUpdates ==
  ASSUME NEW c \in Call, CallStep(c)
  PROVE  Updated(pc, pc', c) /\ Updated(chosen, chosen', c) /\ Updated(result, result', c)
<1>. DEFINE Done == Updated(pc, pc', c) /\ Updated(chosen, chosen', c) /\ Updated(result, result', c)
<1>1. CASE \E r : Return(c, r)
  <2>1. PICK r : Return(c, r)
    BY <1>1
  <2>2. /\ pc' = [pc EXCEPT ![c] = "done"] /\ result' = [result EXCEPT ![c] = r]
        /\ \E x : chosen' = [chosen EXCEPT ![c] = x]
    BY <2>1 DEF Return, Go
  <2>. QED BY <2>2 DEF Updated
<1>2. CASE \A r : ~ Return(c, r)
  <2>1. pc' = pc \/ \E step : pc' = [pc EXCEPT ![c] = step]
    BY <1>2 DEF CallStep, BeginSeed, Clear, BeginMint, MintNext, EndSeed, BeginSettle, FundNext,
       CreateSettlement, Choose, ExecuteChosen, Go
  <2>2. chosen' = chosen \/ \E x : chosen' = [chosen EXCEPT ![c] = x]
    BY <1>2 DEF CallStep, BeginSeed, Clear, BeginMint, MintNext, EndSeed, BeginSettle, FundNext,
       CreateSettlement, Choose, ExecuteChosen
  <2>3. result' = result \/ \E x : result' = [result EXCEPT ![c] = x]
    BY <1>2 DEF CallStep, BeginSeed, Clear, BeginMint, MintNext, EndSeed, BeginSettle, FundNext,
       CreateSettlement, Choose, ExecuteChosen
  <2>. QED BY <2>1, <2>2, <2>3 DEF Updated
<1>. QED BY <1>1, <1>2

LEMMA StaysFunctional == Functional /\ [Next]_vars => Functional'
<1>. SUFFICES ASSUME Functional, [Next]_vars  PROVE Functional'
  OBVIOUS
<1>1. CASE UNCHANGED <<pc, chosen, result>>
  BY <1>1 DEF Functional
<1>2. ASSUME NEW c \in Call, CallStep(c)  PROVE Functional'
  <2>1. Updated(pc, pc', c) /\ Updated(chosen, chosen', c) /\ Updated(result, result', c)
    BY <1>2, CallUpdates
  <2>2. /\ pc' = [d \in Call |-> pc'[d]] /\ chosen' = [d \in Call |-> chosen'[d]]
        /\ result' = [d \in Call |-> result'[d]]
    BY <2>1, UpdatedIs DEF Functional
  <2>. QED BY <2>2 DEF Functional
<1>3. CASE UNCHANGED vars
  BY <1>1, <1>3 DEF vars
<1>4. CASE UNCHANGED driver
  BY <1>1, <1>4 DEF driver
<1>5. CASE Arrive \/ \E c \in Call : ExecuteDirectly(c)
  BY <1>4, <1>5 DEF Arrive, ExecuteDirectly, Act
<1>6. CASE \E k \in Cid : Lock(k) \/ Unlock(k) \/ \E p \in Party : TransferTo(k, p)
  BY <1>4, <1>6 DEF Lock, Unlock, TransferTo, Act
<1>. QED BY <1>2, <1>3, <1>5, <1>6 DEF Next, CallStep

LEMMA TokenInvInductive == TokenInv /\ [Next]_vars => TokenInv'
<1>. SUFFICES ASSUME TokenInv, [Next]_vars  PROVE TokenInv'
  OBVIOUS
<1>1. ReportInv'
  BY ReportInvInductive DEF TokenInv
<1>2. /\ LedgerStep /\ odd' \in 0 .. MaxOdd /\ \A m \in late' : CommandOK(m)
      /\ DOMAIN todo' = Call /\ \A c \in Call : CallOK(c)'
  BY StepIs
<1>3. LedgerOK'
  BY <1>2, LedgerStays DEF TokenInv
<1>4. Functional'
  BY StaysFunctional DEF TokenInv
<1>. QED BY <1>1, <1>2, <1>3, <1>4 DEF TokenInv

LEMMA TokenInvInit == Init => TokenInv
<1>. SUFFICES ASSUME Init  PROVE TokenInv
  OBVIOUS
<1>1. ReportInv
  BY ReportInvInit
<1>2. LedgerOK
  <2>1. \A k \in DOMAIN Leftover : Leftover[k] \in TGHolding
    BY EarlierHoldings
  <2>2. hold = [k \in Cid |-> IF k \in DOMAIN Leftover THEN Leftover[k] ELSE None]
    BY DEF Init
  <2>. QED BY <2>1, <2>2 DEF Init, LedgerOK
<1>3. ASSUME NEW c \in Call  PROVE CallOK(c)
  <2>1. /\ pc[c] = "start" /\ result[c] = "none" /\ funding[c] = <<>> /\ chosen[c] = None
        /\ todo[c] = {}
    BY DEF Init
  <2>2. DOMAIN funding[c] = {}
    BY <2>1
  <2>. QED BY <2>1, <2>2 DEF CallOK, Step
<1>4. DOMAIN todo = Call /\ late = {} /\ odd \in 0 .. MaxOdd
  BY Bounds DEF Init
<1>5. Functional
  BY DEF Init, Functional
<1>. QED BY <1>1, <1>2, <1>3, <1>4, <1>5 DEF TokenInv

\* TokenTypeOK, for any books, holdings and calls: whatever is minted, split,
\* given away or left over by a settlement is a holding of more than nothing, in
\* the hands of a party (TokenSettlement.daml 47, 79-93), and a call holds the
\* ids of holdings for the legs of its own netting only.
THEOREM TokensTyped == Spec => []TokenTypeOK
<1>1. TokenInv => TokenTypeOK
  <2>. SUFFICES ASSUME TokenInv  PROVE TokenTypeOK
    OBVIOUS
  <2>1. LedgerOK /\ FunctionsOK /\ odd \in 0 .. MaxOdd /\ \A c \in Call : CallOK(c)
    BY DEF TokenInv, ReportInv
  <2>2. /\ pc = [c \in Call |-> pc[c]] /\ chosen = [c \in Call |-> chosen[c]]
        /\ result = [c \in Call |-> result[c]]
    BY DEF TokenInv, Functional
  <2>3. /\ pc \in [Call -> Step] /\ chosen \in [Call -> Call \union {None}]
        /\ result \in [Call -> {"none", "ok", "failed"}]
    <3>1. \A c \in Call : /\ pc[c] \in Step /\ chosen[c] \in Call \union {None}
                          /\ result[c] \in {"none", "ok", "failed"}
      BY <2>1 DEF CallOK
    <3>. QED BY <2>2, <3>1
  <2>. QED BY <2>1, <2>3 DEF TokenTypeOK, LedgerOK, CallOK
<1>. QED BY <1>1, TokenInvInit, TokenInvInductive, PTL DEF Spec

\* SeededFundingSuffices, for any books: the holding that mint_book gives a
\* payer pays all the legs its book nets it to ("so every residual leg is
\* fundable", token_settle.py 94-95).
THEOREM SeededFunding == Spec => []SeededFundingSuffices
<1>1. TokenInv => SeededFundingSuffices
  <2>. SUFFICES ASSUME TokenInv, NEW c \in Call, pc[c] = "execute", NEW k \in DOMAIN funding[c],
                       hold[funding[c][k]] =
                         [owner |-> k[1], instrument |-> k[2], amount |-> Gross(c, k[1], k[2]),
                          locked |-> FALSE]
                PROVE  Left(hold[funding[c][k]], LegsFrom(c, {k})) # Refused
    BY DEF SeededFundingSuffices
  <2>. DEFINE h == hold[funding[c][k]]
  <2>1. k \in Keys(Legs[c])
    BY DEF TokenInv, CallOK
  <2>2. PICK n \in DOMAIN Legs[c] : k = Key(Legs[c][n])
    BY <2>1 DEF Keys
  <2>3. Legs[c][n] \in TokenLeg
    BY LegsTyped
  <2>4. PICK p \in Party, i \in Instrument : k = <<p, i>>
    BY <2>2, <2>3 DEF Key, TokenLeg
  <2>5. h = [owner |-> p, instrument |-> i, amount |-> Gross(c, p, i), locked |-> FALSE]
    BY <2>4
  <2>. DEFINE legs == LegsFrom(c, {<<p, i>>})
  <2>6. SeqTotal(AmountOf, legs) = NetOut(c, p, i) /\ NetOut(c, p, i) \in Nat
        /\ NetOut(c, p, i) <= Gross(c, p, i) /\ NetOut(c, p, i) > 0
    BY <2>1, <2>4, LegsOfKey
  <2>7. Gross(c, p, i) \in Nat
    BY NetsSumToZero
  <2>8. Gross(c, p, i) \in Amount
    BY <2>6, <2>7 DEF Amount
  <2>. HIDE DEF h
  <2>9. h \in TGHolding /\ h.instrument = i /\ h.amount = Gross(c, p, i)
    BY <2>5, <2>8 DEF TGHolding
  <2>10. legs \in Seq(TokenLeg) /\ \A m \in 1 .. Len(legs) : Key(legs[m]) \in {<<p, i>>}
    BY LegsFromIs
  <2>. HIDE DEF legs
  <2>11. \A m \in 1 .. Len(legs) : legs[m].instrument = i
    <3>. SUFFICES ASSUME NEW m \in 1 .. Len(legs)  PROVE legs[m].instrument = i
      OBVIOUS
    <3>1. legs[m] \in TokenLeg /\ Key(legs[m]) = <<p, i>>
      BY <2>10
    <3>. QED BY <3>1, KeyIs
  <2>12. Left(h, legs) # Refused
    BY <2>6, <2>9, <2>10, <2>11, LeftIs
  <2>. QED BY <2>4, <2>12 DEF h, legs
<1>. QED BY <1>1, TokenInvInit, TokenInvInductive, PTL DEF Spec

-----------------------------------------------------------------------------
(* RefinesTokenRail: balances, and what a step does to them.                *)

Worth(p, i) ==
  [h \in TGHolding |-> IF h.owner = p /\ h.instrument = i THEN h.amount ELSE 0]

LEMMA WorthTyped ==
  ASSUME NEW p, NEW i
  PROVE  Worth(p, i) \in [TGHolding -> Nat] /\ Worth(p, i) \in [TGHolding -> Int]
<1>1. \A h \in TGHolding : h.amount \in Nat
  BY DEF TGHolding, Amount
<1>2. \A h \in TGHolding : Worth(p, i)[h] \in Nat
  BY <1>1 DEF Worth
<1>. QED BY <1>2 DEF Worth

\* What the holdings of b count for under v.
Values(v, b) == [k \in Cid |-> IF b[k] = None THEN 0 ELSE v[b[k]]]

Holdings == [Cid -> TGHolding \union {None}]

LEMMA CidFinite == IsFiniteSet(Cid)
BY Bounds, FS_Interval DEF Cid

LEMMA ValuesTyped ==
  ASSUME NEW v \in [TGHolding -> Int], NEW b \in Holdings
  PROVE  \A k \in Cid : Values(v, b)[k] \in Int
<1>. SUFFICES ASSUME NEW k \in Cid  PROVE Values(v, b)[k] \in Int
  OBVIOUS
<1>1. b[k] \in TGHolding \/ b[k] = None
  BY DEF Holdings
<1>2. Values(v, b)[k] = IF b[k] = None THEN 0 ELSE v[b[k]]
  BY DEF Values
<1>. QED BY <1>1, <1>2

\* A balance is what the holdings are worth, now and after a step.
LEMMA BalanceIs ==
  hold \in Holdings =>
    \A p, i : Balance(p, i) = SumFunctionOnSet(Values(Worth(p, i), hold), Cid)
<1>. SUFFICES ASSUME hold \in Holdings, NEW p, NEW i
              PROVE  Balance(p, i) = SumFunctionOnSet(Values(Worth(p, i), hold), Cid)
  OBVIOUS
<1>. DEFINE own == {k \in Cid : hold[k] # None /\ hold[k].owner = p /\ hold[k].instrument = i}
            f == [k \in Cid |-> IF hold[k] = None THEN 0 ELSE hold[k].amount]
            g == [k \in Cid |-> IF k \in own THEN f[k] ELSE 0]
            h == Values(Worth(p, i), hold)
<1>1. own \in SUBSET Cid /\ IsFiniteSet(Cid)
  BY CidFinite
<1>2. IsFiniteSet(own)
  <2>. HIDE DEF own
  <2>. QED BY ONLY <1>1, FS_Subset
<1>3. ASSUME NEW k \in Cid  PROVE f[k] \in Int /\ g[k] = h[k]
  <2>1. hold[k] \in TGHolding \/ hold[k] = None
    BY DEF Holdings
  <2>2. hold[k] \in TGHolding => hold[k].amount \in Int
    BY DEF TGHolding, Amount
  <2>3. f[k] \in Int
    BY <2>1, <2>2
  <2>4. h[k] = IF hold[k] = None THEN 0 ELSE Worth(p, i)[hold[k]]
    BY DEF Values
  <2>5. CASE hold[k] = None
    <3>1. k \notin own
      BY <2>5
    <3>. QED BY <2>3, <2>4, <2>5, <3>1
  <2>6. CASE hold[k] # None
    <3>1. Worth(p, i)[hold[k]] =
            IF hold[k].owner = p /\ hold[k].instrument = i THEN hold[k].amount ELSE 0
      BY <2>1, <2>6 DEF Worth
    <3>2. k \in own <=> hold[k].owner = p /\ hold[k].instrument = i
      BY <2>6
    <3>3. f[k] = hold[k].amount /\ g[k] = IF k \in own THEN f[k] ELSE 0
      BY <2>6
    <3>. HIDE DEF own, f, g
    <3>. QED BY <2>3, <2>4, <2>6, <3>1, <3>2, <3>3
  <2>. QED BY <2>5, <2>6
<1>4. \A k \in own : f[k] = hold[k].amount
  OBVIOUS
<1>5. own = {k \in Cid : hold[k] # None /\ hold[k].owner = p /\ hold[k].instrument = i}
  OBVIOUS
<1>. HIDE DEF own, f
<1>6. Balance(p, i) = SumFunctionOnSet(f, own)
  BY ONLY <1>2, <1>4, <1>5, BalanceIsSum
<1>7. SumFunctionOnSet(f, own) = SumFunctionOnSet(g, Cid)
  BY <1>1, <1>3, SumPart
<1>. HIDE DEF g, h
<1>8. SumFunctionOnSet(g, Cid) = SumFunctionOnSet(h, Cid)
  BY <1>1, <1>3, SumSame
<1>. QED BY <1>6, <1>7, <1>8 DEF h

LEMMA NextBalanceIs ==
  hold' \in Holdings =>
    \A p, i : Balance(p, i)' = SumFunctionOnSet(Values(Worth(p, i), hold'), Cid)
<1>1. (hold \in Holdings =>
         \A p, i : Balance(p, i) = SumFunctionOnSet(Values(Worth(p, i), hold), Cid))'
  BY BalanceIs, PTL
<1>. QED BY <1>1 DEF Holdings, Values

\* The sum over S where f is 0 off the values of m.
Vanishes(f, m, I, S) == \A x \in S : (\A i \in I : m[i] # x) => f[x] = 0

LEMMA SumNamed ==
  ASSUME NEW S, IsFiniteSet(S), NEW I, IsFiniteSet(I), NEW m \in [I -> S], Apart(m, I),
         NEW f, IntsOn(f, S), Vanishes(f, m, I, S), NEW g, Along(g, f, m, I)
  PROVE  SumFunctionOnSet(f, S) = SumFunctionOnSet(g, I)
<1>. DEFINE k == [i \in I |-> f[m[i]]]
<1>1. \A i, j \in I : i # j => m[i] # m[j]
  BY DEF Apart
<1>2. (\A x \in S : f[x] \in Int) /\ \A x \in S : (\A i \in I : m[i] # x) => f[x] = 0
  BY DEF IntsOn, Vanishes
<1>3. SumFunctionOnSet(f, S) = SumFunctionOnSet(k, I)
  BY <1>1, <1>2, SumAlong
<1>4. \A i \in I : k[i] = g[i]
  BY DEF Along
<1>. HIDE DEF k
<1>. QED BY <1>3, <1>4, SumSame

\* Only Values of what is there is used.
UsedOf(v, used) == [k \in Cid |-> IF k \in used THEN Values(v, hold)[k] ELSE 0]

MadeOf(v, made) ==
  [k \in Cid |-> IF k \in Free /\ Rank(Free, k) <= Len(made) THEN v[made[Rank(Free, k)]] ELSE 0]

\* The r-th free contract id.
FreeAt(n) == [r \in 1 .. n |-> CHOOSE k \in Free : Rank(Free, k) = r]

LEMMA FreeAtIs ==
  ASSUME NEW n \in Nat, n <= Cardinality(Free)
  PROVE  /\ FreeAt(n) \in [1 .. n -> Cid] /\ Apart(FreeAt(n), 1 .. n)
         /\ \A r \in 1 .. n : FreeAt(n)[r] \in Free /\ Rank(Free, FreeAt(n)[r]) = r
         /\ \A k \in Free : Rank(Free, k) <= n =>
              Rank(Free, k) \in 1 .. n /\ FreeAt(n)[Rank(Free, k)] = k
<1>1. /\ Cardinality(Free) \in Nat
      /\ \A k \in Free : Rank(Free, k) \in 1 .. Cardinality(Free)
      /\ \A j, k \in Free : j # k => Rank(Free, j) # Rank(Free, k)
      /\ \A r \in 1 .. Cardinality(Free) : \E k \in Free : Rank(Free, k) = r
  BY FreeIsFinite, RankNumbers
<1>2. \A r \in 1 .. n : FreeAt(n)[r] \in Free /\ Rank(Free, FreeAt(n)[r]) = r
  <2>. SUFFICES ASSUME NEW r \in 1 .. n
                PROVE  FreeAt(n)[r] \in Free /\ Rank(Free, FreeAt(n)[r]) = r
    OBVIOUS
  <2>1. r \in 1 .. Cardinality(Free)
    BY <1>1
  <2>2. \E k \in Free : Rank(Free, k) = r
    BY <1>1, <2>1
  <2>3. FreeAt(n)[r] = CHOOSE k \in Free : Rank(Free, k) = r
    BY DEF FreeAt
  <2>. QED BY <2>2, <2>3
<1>3. Free \subseteq Cid
  BY DEF Free
<1>4. FreeAt(n) \in [1 .. n -> Cid]
  BY <1>2, <1>3 DEF FreeAt
<1>5. Apart(FreeAt(n), 1 .. n)
  BY <1>2 DEF Apart
<1>6. ASSUME NEW k \in Free, Rank(Free, k) <= n
      PROVE  Rank(Free, k) \in 1 .. n /\ FreeAt(n)[Rank(Free, k)] = k
  <2>1. Rank(Free, k) \in 1 .. n
    BY <1>1, <1>6
  <2>. QED BY <1>1, <1>2, <2>1
<1>. QED BY <1>2, <1>4, <1>5, <1>6

LEMMA MadeTotal ==
  ASSUME NEW v \in [TGHolding -> Int], NEW made \in Seq(TGHolding),
         Len(made) <= Cardinality(Free)
  PROVE  /\ SumFunctionOnSet(MadeOf(v, made), Cid) = SeqTotal(v, made)
         /\ \A k \in Cid : MadeOf(v, made)[k] \in Int
<1>1. Len(made) \in Nat /\ \A r \in 1 .. Len(made) : made[r] \in TGHolding
  OBVIOUS
<1>. PICK n \in Nat : n = Len(made)
  BY <1>1
<1>. DEFINE f == MadeOf(v, made)
            I == 1 .. n
            m == FreeAt(n)
            g == [r \in I |-> v[made[r]]]
<1>2. /\ m \in [I -> Cid] /\ Apart(m, I)
      /\ \A r \in I : m[r] \in Free /\ Rank(Free, m[r]) = r
      /\ \A k \in Free : Rank(Free, k) <= n => Rank(Free, k) \in I /\ m[Rank(Free, k)] = k
  BY FreeAtIs
<1>3. \A r \in I : g[r] \in Int
  BY <1>1
<1>4. ASSUME NEW k \in Cid
      PROVE  f[k] = IF k \in Free /\ Rank(Free, k) <= n THEN v[made[Rank(Free, k)]] ELSE 0
  BY DEF MadeOf
<1>5. SeqTotal(v, made) = SumFunctionOnSet(g, I)
  BY DEF SeqTotal
<1>6. IsFiniteSet(I)
  BY FS_Interval
<1>7. \A r \in I : r <= n
  OBVIOUS
<1>8. \A r \in I : g[r] = v[made[r]]
  OBVIOUS
<1>. HIDE DEF f, I, m, g
<1>9. ASSUME NEW k \in Cid  PROVE f[k] \in Int
  <2>1. CASE k \in Free /\ Rank(Free, k) <= n
    BY <1>2, <1>3, <1>4, <1>8, <2>1
  <2>2. CASE ~ (k \in Free /\ Rank(Free, k) <= n)
    BY <1>4, <2>2
  <2>. QED BY <2>1, <2>2
<1>10. Along(g, f, m, I)
  <2>. SUFFICES ASSUME NEW r \in I  PROVE g[r] = f[m[r]]
    BY DEF Along
  <2>1. m[r] \in Cid /\ m[r] \in Free /\ Rank(Free, m[r]) = r /\ r <= n
    BY <1>2, <1>7
  <2>. QED BY <1>4, <1>8, <2>1
<1>11. Vanishes(f, m, I, Cid)
  <2>. SUFFICES ASSUME NEW k \in Cid, \A r \in I : m[r] # k  PROVE f[k] = 0
    BY DEF Vanishes
  <2>1. ~ (k \in Free /\ Rank(Free, k) <= n)
    BY <1>2
  <2>. QED BY <1>4, <2>1
<1>12. IntsOn(f, Cid)
  BY <1>9 DEF IntsOn
<1>13. SumFunctionOnSet(f, Cid) = SumFunctionOnSet(g, I)
  BY <1>2, <1>6, <1>10, <1>11, <1>12, CidFinite, SumNamed
<1>. QED BY <1>5, <1>9, <1>13 DEF f

\* What holdings are worth changes by what is made less what is used.
LEMMA ReplaceTotal ==
  ASSUME hold \in Holdings, NEW used, \A k \in used : k \in Cid /\ hold[k] # None,
         NEW made \in Seq(TGHolding), Replace(used, made), NEW v \in [TGHolding -> Int]
  PROVE  /\ SumFunctionOnSet(Values(v, hold'), Cid)
              = SumFunctionOnSet(Values(v, hold), Cid)
                - SumFunctionOnSet(UsedOf(v, used), Cid) + SeqTotal(v, made)
         /\ SumFunctionOnSet(Values(v, hold), Cid) \in Int
         /\ SumFunctionOnSet(UsedOf(v, used), Cid) \in Int
<1>. DEFINE A == Values(v, hold')
            B == MadeOf(v, made)
            C == Values(v, hold)
            D == UsedOf(v, used)
            E == [k \in Cid |-> A[k] - B[k]]
<1>1. hold' \in Holdings
  BY ReplaceTyped DEF Holdings
<1>2. \A k \in Cid : A[k] \in Int /\ C[k] \in Int
  BY <1>1, ValuesTyped
<1>3. Len(made) <= Cardinality(Free)
  BY ReplaceIs
<1>4. SumFunctionOnSet(B, Cid) = SeqTotal(v, made) /\ \A k \in Cid : B[k] \in Int
  BY <1>3, MadeTotal
<1>5. \A k \in Cid : D[k] = IF k \in used THEN C[k] ELSE 0
  BY DEF UsedOf
<1>6. \A k \in Cid : D[k] \in Int
  BY <1>2, <1>5
<1>7. ASSUME NEW k \in Cid  PROVE A[k] - B[k] = C[k] - D[k]
  <2>1. hold'[k] = IF k \in Free /\ Rank(Free, k) <= Len(made) THEN made[Rank(Free, k)]
                   ELSE IF k \in used THEN None ELSE hold[k]
    BY ReplaceIs
  <2>2. A[k] = IF hold'[k] = None THEN 0 ELSE v[hold'[k]]
    BY DEF Values
  <2>3. C[k] = IF hold[k] = None THEN 0 ELSE v[hold[k]]
    BY DEF Values
  <2>4. B[k] = IF k \in Free /\ Rank(Free, k) <= Len(made) THEN v[made[Rank(Free, k)]] ELSE 0
    BY DEF MadeOf
  <2>. HIDE DEF A, B, C, D
  <2>5. CASE k \in Free /\ Rank(Free, k) <= Len(made)
    <3>1. hold[k] = None
      BY <2>5 DEF Free
    <3>2. k \notin used /\ C[k] = 0 /\ D[k] = 0
      BY <1>5, <2>3, <3>1
    <3>3. hold'[k] # None
      <4>. PICK n \in Nat : n = Len(made)
        OBVIOUS
      <4>1. n <= Cardinality(Free)
        BY <1>3
      <4>2. Rank(Free, k) \in 1 .. n
        BY <2>5, <4>1, FreeAtIs
      <4>3. \A r \in 1 .. n : made[r] \in TGHolding
        OBVIOUS
      <4>4. made[Rank(Free, k)] \in TGHolding
        BY <4>2, <4>3
      <4>. QED BY <2>1, <2>5, <4>4, NoneIsNothing
    <3>4. A[k] = B[k]
      BY <2>1, <2>2, <2>4, <2>5, <3>3
    <3>. QED BY <1>2, <1>4, <3>2, <3>4
  <2>6. CASE ~ (k \in Free /\ Rank(Free, k) <= Len(made)) /\ k \in used
    <3>1. hold'[k] = None /\ B[k] = 0 /\ D[k] = C[k]
      BY <1>5, <2>1, <2>4, <2>6
    <3>2. A[k] = 0
      BY <2>2, <3>1
    <3>. QED BY <1>2, <3>1, <3>2
  <2>7. CASE ~ (k \in Free /\ Rank(Free, k) <= Len(made)) /\ k \notin used
    <3>1. hold'[k] = hold[k] /\ B[k] = 0 /\ D[k] = 0
      BY <1>5, <2>1, <2>4, <2>7
    <3>2. A[k] = C[k]
      BY <2>2, <2>3, <3>1
    <3>. QED BY <1>2, <3>1, <3>2
  <2>. QED BY <2>5, <2>6, <2>7
<1>. HIDE DEF A, B, C, D
<1>8. \A k \in Cid : A[k] \in Int /\ B[k] \in Int /\ E[k] = A[k] - B[k]
  BY <1>2, <1>4
<1>9. \A k \in Cid : C[k] \in Int /\ D[k] \in Int /\ E[k] = C[k] - D[k]
  BY <1>2, <1>6, <1>7
<1>. HIDE DEF E
<1>10. SumFunctionOnSet(E, Cid) = SumFunctionOnSet(A, Cid) - SumFunctionOnSet(B, Cid)
  BY <1>8, CidFinite, SumMinus
<1>11. SumFunctionOnSet(E, Cid) = SumFunctionOnSet(C, Cid) - SumFunctionOnSet(D, Cid)
  BY <1>9, CidFinite, SumMinus
<1>12. /\ SumFunctionOnSet(A, Cid) \in Int /\ SumFunctionOnSet(B, Cid) \in Int
       /\ SumFunctionOnSet(C, Cid) \in Int /\ SumFunctionOnSet(D, Cid) \in Int
  <2>1. Cid \in SUBSET Cid
    OBVIOUS
  <2>. QED BY <1>8, <1>9, <2>1, CidFinite, SumInt
<1>. QED BY <1>4, <1>10, <1>11, <1>12 DEF A, C, D

-----------------------------------------------------------------------------
(* The rail's view of a step.                                               *)

Gain(p, i) == Balance(p, i)' - Balance(p, i)

Record(p, i, n) == [party |-> p, instrument |-> i, gain |-> n]

LEMMA ChangedIs ==
  ASSUME NEW x
  PROVE  x \in Rail!Changed <=>
           \E p \in Party, i \in Instrument : x = Record(p, i, Gain(p, i)) /\ x.gain # 0
<1>1. \A p \in Party, i \in Instrument :
        [q \in Party |-> [j \in Instrument |-> Balance(q, j)]][p][i] = Balance(p, i)
  OBVIOUS
<1>2. \A p \in Party, i \in Instrument :
        [q \in Party |-> [j \in Instrument |-> Balance(q, j)]]'[p][i] = Balance(p, i)'
  OBVIOUS
<1>. QED BY <1>1, <1>2 DEF Rail!Changed, Rail!Change, Gain, Record

LEMMA NetIs ==
  ASSUME NEW c, NEW p, NEW i
  PROVE  Rail!Net(c, p, i) = Incoming(c, p, i) - Gross(c, p, i)
         /\ Rail!Gross(c, p, i) = Gross(c, p, i)
BY RailTotalIs DEF Rail!Net, Rail!Gross, Gross, Incoming

LEMMA NetChangeIs ==
  ASSUME NEW c \in Call,
         \A p \in Party, i \in Instrument : Gain(p, i) = Incoming(c, p, i) - Gross(c, p, i),
         settlement[c] # "executed", settlement' = [settlement EXCEPT ![c] = "executed"],
         DOMAIN settlement = Call
  PROVE  Rail!RNext
<1>. DEFINE moves == {g \in {[party |-> p, instrument |-> i, gain |-> Rail!Net(c, p, i)] :
                               p \in Party, i \in Instrument} : g.gain # 0}
<1>1. Rail!Changed = moves
  <2>1. \A p \in Party, i \in Instrument : Rail!Net(c, p, i) = Gain(p, i)
    BY NetIs
  <2>2. ASSUME NEW x
        PROVE  x \in moves <=>
                 \E p \in Party, i \in Instrument : x = Record(p, i, Gain(p, i)) /\ x.gain # 0
    BY <2>1 DEF Record
  <2>. HIDE DEF moves
  <2>3. ASSUME NEW x  PROVE x \in moves <=> x \in Rail!Changed
    BY <2>2, ChangedIs
  <2>. QED BY <2>3
<1>2. c \notin {d \in Call : settlement[d] = "executed"}
      /\ {d \in Call : settlement[d] = "executed"}'
           = {d \in Call : settlement[d] = "executed"} \union {c}
  OBVIOUS
<1>3. Rail!Settle(c)
  BY <1>1, <1>2 DEF Rail!Settle, Rail!Change
<1>. QED BY <1>3 DEF Rail!RNext

-----------------------------------------------------------------------------
(* An execution moves what the book nets to.                                *)

LEMMA SameTotals ==
  ASSUME NEW n \in Nat, NEW f, NEW g, \A x \in 1 .. n : f[x] = g[x]
  PROVE  SumFunctionOnSet(f, 1 .. n) = SumFunctionOnSet(g, 1 .. n)
<1>1. IsFiniteSet(1 .. n)
  BY FS_Interval
<1>. QED BY <1>1, SumSame

\* What the holdings made of h are worth to p: what its legs bring p, and the
\* rest of h if p owns it.
LEMMA SplitWorth ==
  ASSUME NEW h \in TGHolding, NEW legs \in Seq(TokenLeg), Left(h, legs) # Refused,
         \A n \in DOMAIN legs : legs[n].sender = h.owner,
         NEW p, NEW i
  PROVE  /\ SeqTotal(Worth(p, i), Split(h, legs))
              = Worth(p, i)[h] - SeqTotal(Sends(p, i), legs) + SeqTotal(Receives(p, i), legs)
         /\ Worth(p, i)[h] \in Int /\ SeqTotal(Sends(p, i), legs) \in Int
         /\ SeqTotal(Receives(p, i), legs) \in Int
<1>. DEFINE v == Worth(p, i)
            a == SeqTotal(AmountOf, legs)
            s == SeqTotal(Sends(p, i), legs)
            r == SeqTotal(Receives(p, i), legs)
            paid == PaidOut(h, legs)
            rest == Remainder(h, Left(h, legs))
            mine == h.owner = p /\ h.instrument = i
<1>1. Len(legs) \in Nat /\ DOMAIN legs = 1 .. Len(legs)
      /\ \A n \in 1 .. Len(legs) : legs[n] \in TokenLeg
  OBVIOUS
<1>. PICK N \in Nat : N = Len(legs)
  BY <1>1
<1>2. /\ a \in Int /\ Left(h, legs) = h.amount - a /\ Left(h, legs) \in Nat
      /\ \A n \in 1 .. N : legs[n].instrument = h.instrument
  BY LeftIs
<1>3. s \in Int /\ r \in Int
  <2>1. Sends(p, i) \in [TokenLeg -> Int] /\ Receives(p, i) \in [TokenLeg -> Int]
    BY SendsTyped
  <2>. QED BY <2>1, SeqTotalInt
<1>4. /\ paid \in Seq(TGHolding) /\ Len(paid) = N /\ rest \in Seq(TGHolding)
      /\ Split(h, legs) = paid \o rest
  BY SplitTyped
<1>5. v \in [TGHolding -> Int]
  BY WorthTyped
<1>6. SeqTotal(v, Split(h, legs)) = SeqTotal(v, paid) + SeqTotal(v, rest)
  <2>. HIDE DEF v, paid, rest
  <2>. QED BY <1>4, <1>5, SeqTotalConcat
<1>7. v[h] = IF mine THEN h.amount ELSE 0
  BY DEF Worth
<1>8. SeqTotal(v, paid) = r
  <2>. DEFINE f == [n \in 1 .. N |-> v[paid[n]]]
              g == [n \in 1 .. N |-> Receives(p, i)[legs[n]]]
  <2>1. ASSUME NEW n \in 1 .. N  PROVE f[n] = g[n]
    <3>. DEFINE l == legs[n]
                x == [h EXCEPT !.owner = l.receiver, !.amount = l.amount]
    <3>1. l \in TokenLeg /\ l.instrument = h.instrument
      BY <1>1, <1>2
    <3>2. paid[n] = x
      BY <1>1 DEF PaidOut
    <3>. HIDE DEF l
    <3>3. x \in TGHolding
      BY <3>1, ToReceiver
    <3>4. x.owner = l.receiver /\ x.amount = l.amount /\ x.instrument = h.instrument
      BY DEF TGHolding
    <3>. HIDE DEF x
    <3>5. v[x] = IF x.owner = p /\ x.instrument = i THEN x.amount ELSE 0
      BY <3>3 DEF Worth
    <3>6. Receives(p, i)[l] = IF l.receiver = p /\ l.instrument = i THEN l.amount ELSE 0
      BY <3>1 DEF Receives
    <3>7. v[x] = Receives(p, i)[l]
      BY <3>1, <3>4, <3>5, <3>6
    <3>. HIDE DEF paid, v
    <3>. QED BY <3>2, <3>7 DEF l
  <2>2. SeqTotal(v, paid) = SumFunctionOnSet(f, 1 .. N)
    <3>. HIDE DEF paid, v
    <3>. QED BY <1>4 DEF SeqTotal
  <2>3. r = SumFunctionOnSet(g, 1 .. N)
    BY DEF SeqTotal
  <2>. HIDE DEF f, g, r, paid, v
  <2>. QED BY <2>1, <2>2, <2>3, SameTotals
<1>9. SeqTotal(v, rest) = IF mine THEN Left(h, legs) ELSE 0
  <2>1. CASE Left(h, legs) = 0
    <3>1. rest = <<>>
      BY <2>1 DEF Remainder
    <3>2. SeqTotal(v, <<>>) = 0
      BY SeqTotalEmpty
    <3>. HIDE DEF v, rest
    <3>. QED BY <2>1, <3>1, <3>2
  <2>2. CASE Left(h, legs) # 0
    <3>. DEFINE x == [h EXCEPT !.amount = Left(h, legs)]
    <3>1. rest = <<x>>
      BY <2>2 DEF Remainder
    <3>2. x \in TGHolding
      BY <1>2, <2>2, WithAmount DEF Amount
    <3>3. x.owner = h.owner /\ x.instrument = h.instrument /\ x.amount = Left(h, legs)
      BY DEF TGHolding
    <3>. HIDE DEF x
    <3>4. v[x] = IF x.owner = p /\ x.instrument = i THEN x.amount ELSE 0
      BY <3>2 DEF Worth
    <3>5. v[x] \in Int
      BY <1>5, <3>2
    <3>. HIDE DEF v, rest
    <3>6. SeqTotal(v, <<x>>) = v[x]
      BY <3>5, SeqTotalOne
    <3>. QED BY <3>1, <3>3, <3>4, <3>6
  <2>. QED BY <2>1, <2>2
<1>10. s = IF mine THEN a ELSE 0
  <2>. DEFINE f == [n \in 1 .. N |-> Sends(p, i)[legs[n]]]
              g == [n \in 1 .. N |-> AmountOf[legs[n]]]
  <2>1. ASSUME NEW n \in 1 .. N  PROVE f[n] = IF mine THEN g[n] ELSE 0
    <3>1. legs[n] \in TokenLeg /\ legs[n].sender = h.owner /\ legs[n].instrument = h.instrument
      BY <1>1, <1>2
    <3>. QED BY <3>1 DEF Sends, AmountOf
  <2>2. s = SumFunctionOnSet(f, 1 .. N) /\ a = SumFunctionOnSet(g, 1 .. N)
    BY DEF SeqTotal
  <2>3. IsFiniteSet(1 .. N)
    BY FS_Interval
  <2>. HIDE DEF f, g, s, a
  <2>4. CASE mine
    BY <2>1, <2>2, <2>4, SameTotals
  <2>5. CASE ~ mine
    BY <2>1, <2>2, <2>3, <2>5, SumZero
  <2>. QED BY <2>4, <2>5
<1>11. h.amount \in Int
  BY DEF TGHolding, Amount
<1>. HIDE DEF v, s, r, a, paid, rest
<1>12. SeqTotal(v, Split(h, legs)) = v[h] - s + r /\ v[h] \in Int
  <2>1. CASE mine
    BY <1>2, <1>3, <1>6, <1>7, <1>8, <1>9, <1>10, <1>11, <2>1
  <2>2. CASE ~ mine
    BY <1>2, <1>3, <1>6, <1>7, <1>8, <1>9, <1>10, <1>11, <2>2
  <2>. QED BY <2>1, <2>2
<1>. QED BY <1>3, <1>12 DEF v, s, r

OwnCids(parts) == \A m, n \in DOMAIN parts : parts[m].cid = parts[n].cid => m = n

AllPay(parts) == \A n \in DOMAIN parts : Pays(parts[n])

CidsOf(parts) == {parts[n].cid : n \in DOMAIN parts}

PayersWorth(g, v, parts, N) == \A n \in 1 .. N : g[n] = v[hold[parts[n].cid]]

\* What the used holdings are worth is what the parts' holdings are worth.
LEMMA UsedTotal ==
  ASSUME LedgerOK, NEW parts \in Seq(Part), NEW N \in Nat, N = Len(parts),
         OwnCids(parts), AllPay(parts),
         NEW v \in [TGHolding -> Int], NEW g, PayersWorth(g, v, parts, N)
  PROVE  SumFunctionOnSet(UsedOf(v, CidsOf(parts)), Cid) = SumFunctionOnSet(g, 1 .. N)
<1>. DEFINE I == 1 .. N
            used == CidsOf(parts)
            f == UsedOf(v, used)
            m == [n \in I |-> parts[n].cid]
<1>1. DOMAIN parts = I /\ \A n \in I : parts[n] \in Part
  OBVIOUS
<1>2. \A n \in I : parts[n].cid \in Cid /\ hold[parts[n].cid] \in TGHolding
  BY <1>1, PayerIs DEF AllPay
<1>3. m \in [I -> Cid] /\ Apart(m, I)
  BY <1>1, <1>2 DEF Apart, OwnCids
<1>4. hold \in Holdings /\ None \notin TGHolding
  BY NoneIsNothing DEF LedgerOK, Holdings
<1>5. \A k \in Cid : f[k] = IF k \in used THEN Values(v, hold)[k] ELSE 0
  BY DEF UsedOf
<1>6. \A k \in Cid : Values(v, hold)[k] \in Int
  BY <1>4, ValuesTyped
<1>7. \A k \in Cid : hold[k] # None => Values(v, hold)[k] = v[hold[k]]
  BY DEF Values
<1>8. \A k \in Cid : k \in used <=> \E n \in I : m[n] = k
  BY <1>1 DEF CidsOf
<1>9. IsFiniteSet(I)
  BY FS_Interval
<1>10. \A n \in I : m[n] = parts[n].cid
  OBVIOUS
<1>11. \A n \in I : g[n] = v[hold[parts[n].cid]]
  BY DEF PayersWorth
<1>. HIDE DEF I, f, m
<1>12. IntsOn(f, Cid)
  BY <1>5, <1>6 DEF IntsOn
<1>13. Vanishes(f, m, I, Cid)
  BY <1>5, <1>8 DEF Vanishes
<1>14. Along(g, f, m, I)
  <2>. SUFFICES ASSUME NEW n \in I  PROVE g[n] = f[m[n]]
    BY DEF Along
  <2>1. m[n] \in Cid /\ m[n] \in used /\ hold[m[n]] # None
    BY <1>2, <1>4, <1>8, <1>10
  <2>2. f[m[n]] = v[hold[m[n]]]
    BY <1>5, <1>7, <2>1
  <2>. QED BY <1>10, <1>11, <2>2
<1>15. SumFunctionOnSet(f, Cid) = SumFunctionOnSet(g, I)
  BY <1>3, <1>9, <1>12, <1>13, <1>14, CidFinite, SumNamed
<1>. QED BY <1>15 DEF f, I

LEMMA ExecutionMoves ==
  ASSUME LedgerOK, NEW c, NEW parts, Execution(c, parts), NEW p \in Party, NEW i \in Instrument
  PROVE  Gain(p, i) = Incoming(c, p, i) - Gross(c, p, i)
<1>. DEFINE v == Worth(p, i)
            used == CidsOf(parts)
            made == FlattenSeq(Splits(parts))
<1>1. /\ c \in Call /\ parts \in Seq(Part) /\ Covering(c, parts)
      /\ OwnCids(parts) /\ AllPay(parts) /\ Replace(used, made)
  BY DEF Execution, Settle, Splits, OwnCids, AllPay, CidsOf
<1>2. Len(parts) \in Nat /\ DOMAIN parts = 1 .. Len(parts)
      /\ \A n \in 1 .. Len(parts) : parts[n] \in Part
  BY <1>1
<1>. PICK N \in Nat : N = Len(parts)
  BY <1>2
<1>3. hold \in Holdings /\ v \in [TGHolding -> Int]
  BY WorthTyped DEF LedgerOK, Holdings
<1>4. /\ Splits(parts) \in Seq(Seq(TGHolding)) /\ Len(Splits(parts)) = N
      /\ made \in Seq(TGHolding)
  BY <1>1, SplitsTyped DEF AllPay
<1>. DEFINE worth == [n \in 1 .. N |-> v[hold[parts[n].cid]]]
            after == [n \in 1 .. N |-> SeqTotal(v, Splits(parts)[n])]
            out == [n \in 1 .. N |-> SeqTotal(Sends(p, i), parts[n].legs)]
            in == [n \in 1 .. N |-> SeqTotal(Receives(p, i), parts[n].legs)]
            kept == [n \in 1 .. N |-> worth[n] - out[n]]
<1>5. ASSUME NEW n \in 1 .. N
      PROVE  /\ after[n] = worth[n] - out[n] + in[n]
             /\ worth[n] \in Int /\ out[n] \in Int /\ in[n] \in Int
             /\ parts[n].cid \in Cid /\ hold[parts[n].cid] # None
  <2>1. parts[n] \in Part /\ Pays(parts[n]) /\ n \in DOMAIN parts
    BY <1>1, <1>2 DEF AllPay
  <2>2. /\ parts[n].cid \in Cid /\ parts[n].legs \in Seq(TokenLeg)
        /\ hold[parts[n].cid] \in TGHolding
        /\ Left(hold[parts[n].cid], parts[n].legs) # Refused
        /\ \A m \in DOMAIN parts[n].legs : parts[n].legs[m].sender = hold[parts[n].cid].owner
    BY <2>1, PayerIs
  <2>3. Splits(parts)[n] = Split(hold[parts[n].cid], parts[n].legs)
    BY <2>1 DEF Splits
  <2>. DEFINE h == hold[parts[n].cid]
              legs == parts[n].legs
  <2>4. /\ worth[n] = v[h] /\ after[n] = SeqTotal(v, Splits(parts)[n])
        /\ out[n] = SeqTotal(Sends(p, i), legs) /\ in[n] = SeqTotal(Receives(p, i), legs)
    OBVIOUS
  <2>5. /\ h \in TGHolding /\ legs \in Seq(TokenLeg) /\ Left(h, legs) # Refused
        /\ \A m \in DOMAIN legs : legs[m].sender = h.owner
    BY <2>2
  <2>6. h # None
    BY <2>2, NoneIsNothing
  <2>7. Splits(parts)[n] = Split(h, legs)
    BY <2>3
  <2>. HIDE DEF h, legs, worth, after, out, in
  <2>8. /\ SeqTotal(v, Split(h, legs))
           = v[h] - SeqTotal(Sends(p, i), legs) + SeqTotal(Receives(p, i), legs)
        /\ v[h] \in Int /\ SeqTotal(Sends(p, i), legs) \in Int
        /\ SeqTotal(Receives(p, i), legs) \in Int
    BY <2>5, SplitWorth
  <2>. HIDE DEF v
  <2>9. /\ after[n] = worth[n] - out[n] + in[n]
        /\ worth[n] \in Int /\ out[n] \in Int /\ in[n] \in Int
    BY <2>4, <2>7, <2>8
  <2>. QED BY <2>2, <2>6, <2>9 DEF h
<1>6. SumFunctionOnSet(UsedOf(v, used), Cid) = SumFunctionOnSet(worth, 1 .. N)
  <2>1. PayersWorth(worth, v, parts, N)
    BY DEF PayersWorth
  <2>. HIDE DEF worth, v, used
  <2>. QED BY <1>1, <1>3, <2>1, UsedTotal DEF used
<1>7. SeqTotal(v, made) = SumFunctionOnSet(after, 1 .. N)
  <2>. DEFINE ss == Splits(parts)
  <2>1. ss \in Seq(Seq(TGHolding)) /\ Len(ss) = N
    BY <1>4
  <2>. HIDE DEF ss, v
  <2>2. SeqTotal(v, FlattenSeq(ss))
          = SumFunctionOnSet([n \in 1 .. Len(ss) |-> SeqTotal(v, ss[n])], 1 .. Len(ss))
    BY <1>3, <2>1, SeqTotalFlatten
  <2>. QED BY <2>1, <2>2 DEF ss
<1>8. /\ SumFunctionOnSet(out, 1 .. N) = NetOut(c, p, i)
      /\ SumFunctionOnSet(in, 1 .. N) = NetIn(c, p, i)
  <2>1. Sends(p, i) \in [TokenLeg -> Int] /\ Receives(p, i) \in [TokenLeg -> Int]
    BY SendsTyped
  <2>2. /\ SumFunctionOnSet([n \in 1 .. Len(parts) |-> SeqTotal(Sends(p, i), parts[n].legs)], 1 .. Len(parts))
             = SeqTotal(Sends(p, i), Legs[c])
        /\ SumFunctionOnSet([n \in 1 .. Len(parts) |-> SeqTotal(Receives(p, i), parts[n].legs)], 1 .. Len(parts))
             = SeqTotal(Receives(p, i), Legs[c])
    BY <1>1, <2>1 DEF Covering
  <2>3. SeqTotal(Sends(p, i), Legs[c]) = NetOut(c, p, i)
        /\ SeqTotal(Receives(p, i), Legs[c]) = NetIn(c, p, i)
    BY <1>1, LegsSettleTheBook
  <2>. QED BY <2>2, <2>3
<1>9. IsFiniteSet(1 .. N)
  BY FS_Interval
<1>10. \A n \in 1 .. N : kept[n] = worth[n] - out[n]
  OBVIOUS
<1>. HIDE DEF worth, after, out, in, kept
<1>11. SumFunctionOnSet(kept, 1 .. N) = SumFunctionOnSet(worth, 1 .. N) - SumFunctionOnSet(out, 1 .. N)
  <2>1. \A n \in 1 .. N : worth[n] \in Int /\ out[n] \in Int /\ kept[n] = worth[n] - out[n]
    BY <1>5, <1>10
  <2>. QED BY <1>9, <2>1, SumMinus
<1>12. SumFunctionOnSet(kept, 1 .. N) = SumFunctionOnSet(after, 1 .. N) - SumFunctionOnSet(in, 1 .. N)
  <2>1. ASSUME NEW n \in 1 .. N
        PROVE  after[n] \in Int /\ in[n] \in Int /\ kept[n] = after[n] - in[n]
    <3>1. /\ after[n] = worth[n] - out[n] + in[n] /\ worth[n] \in Int /\ out[n] \in Int
          /\ in[n] \in Int
      BY <1>5
    <3>2. kept[n] = worth[n] - out[n]
      BY <1>10
    <3>. QED BY <3>1, <3>2
  <2>. QED BY <1>9, <2>1, SumMinus
<1>13. \A k \in used : k \in Cid /\ hold[k] # None
  BY <1>2, <1>5 DEF CidsOf
<1>14. /\ SumFunctionOnSet(Values(v, hold'), Cid)
            = SumFunctionOnSet(Values(v, hold), Cid)
              - SumFunctionOnSet(UsedOf(v, used), Cid) + SeqTotal(v, made)
       /\ SumFunctionOnSet(Values(v, hold), Cid) \in Int
       /\ SumFunctionOnSet(UsedOf(v, used), Cid) \in Int
  <2>. HIDE DEF v, used, made
  <2>. QED BY <1>1, <1>3, <1>4, <1>13, ReplaceTotal
<1>15. hold' \in Holdings
  <2>. HIDE DEF used, made
  <2>. QED BY <1>1, <1>3, <1>4, ReplaceTyped DEF Holdings
<1>16. /\ Balance(p, i) = SumFunctionOnSet(Values(v, hold), Cid)
       /\ Balance(p, i)' = SumFunctionOnSet(Values(v, hold'), Cid)
  BY <1>3, <1>15, BalanceIs, NextBalanceIs
<1>17. /\ SumFunctionOnSet(after, 1 .. N) \in Int /\ SumFunctionOnSet(worth, 1 .. N) \in Int
       /\ SumFunctionOnSet(in, 1 .. N) \in Int /\ SumFunctionOnSet(out, 1 .. N) \in Int
  <2>1. \A n \in 1 .. N : after[n] \in Int /\ worth[n] \in Int /\ in[n] \in Int /\ out[n] \in Int
    BY <1>5
  <2>2. 1 .. N \in SUBSET (1 .. N)
    OBVIOUS
  <2>. QED BY <1>9, <2>1, <2>2, SumInt
<1>18. Gain(p, i) = NetIn(c, p, i) - NetOut(c, p, i)
  <2>. HIDE DEF v, used, made
  <2>. QED BY <1>6, <1>7, <1>8, <1>11, <1>12, <1>14, <1>16, <1>17 DEF Gain
<1>19. NetIn(c, p, i) - NetOut(c, p, i) = NetPositions(c, i)[p]
       /\ NetPositions(c, i)[p] = Incoming(c, p, i) - Gross(c, p, i)
  BY <1>1, NetsSumToZero DEF NetIn, NetOut
<1>. QED BY <1>18, <1>19

-----------------------------------------------------------------------------
(* Everything else: a reset, a mint, a lock or a transfer.                  *)

LEMMA UsedOne ==
  ASSUME hold \in Holdings, NEW k \in Cid, hold[k] # None, NEW v \in [TGHolding -> Int]
  PROVE  SumFunctionOnSet(UsedOf(v, {k}), Cid) = v[hold[k]]
<1>. DEFINE f == UsedOf(v, {k})
<1>1. f[k] = v[hold[k]] /\ \A j \in Cid \ {k} : f[j] = 0
  BY DEF UsedOf, Values
<1>2. v[hold[k]] \in Int
  BY DEF Holdings
<1>3. IsFiniteSet(Cid) /\ IsFiniteSet(Cid \ {k})
  BY CidFinite, FS_RemoveElement
<1>. HIDE DEF f
<1>4. \A j \in Cid : f[j] \in Int
  BY <1>1, <1>2
<1>5. SumFunctionOnSet(f, Cid) = f[k] + SumFunctionOnSet(f, Cid \ {k})
  BY <1>3, <1>4, SumRemove
<1>6. SumFunctionOnSet(f, Cid \ {k}) = 0
  BY <1>1, <1>3, SumZero
<1>. QED BY <1>1, <1>2, <1>5, <1>6 DEF f

LEMMA UsedNone ==
  ASSUME NEW v
  PROVE  SumFunctionOnSet(UsedOf(v, {}), Cid) = 0
<1>1. \A j \in Cid : UsedOf(v, {})[j] = 0
  BY DEF UsedOf
<1>. QED BY <1>1, CidFinite, SumZero

\* A balance gains what is made less what is used.
LEMMA GainIs ==
  ASSUME LedgerOK, NEW used, \A k \in used : k \in Cid /\ hold[k] # None,
         NEW made \in Seq(TGHolding), Replace(used, made), NEW p, NEW i
  PROVE  /\ Gain(p, i) = SeqTotal(Worth(p, i), made)
                         - SumFunctionOnSet(UsedOf(Worth(p, i), used), Cid)
         /\ Balance(p, i) \in Int
<1>. DEFINE v == Worth(p, i)
<1>1. hold \in Holdings /\ v \in [TGHolding -> Int]
  BY WorthTyped DEF LedgerOK, Holdings
<1>2. hold' \in Holdings
  BY <1>1, ReplaceTyped DEF Holdings
<1>3. /\ Balance(p, i) = SumFunctionOnSet(Values(v, hold), Cid)
      /\ Balance(p, i)' = SumFunctionOnSet(Values(v, hold'), Cid)
  BY <1>1, <1>2, BalanceIs, NextBalanceIs
<1>. HIDE DEF v
<1>4. /\ SumFunctionOnSet(Values(v, hold'), Cid)
            = SumFunctionOnSet(Values(v, hold), Cid)
              - SumFunctionOnSet(UsedOf(v, used), Cid) + SeqTotal(v, made)
      /\ SumFunctionOnSet(Values(v, hold), Cid) \in Int
      /\ SumFunctionOnSet(UsedOf(v, used), Cid) \in Int
  BY <1>1, ReplaceTotal
<1>5. SeqTotal(v, made) \in Int
  BY <1>1, SeqTotalInt
<1>. QED BY <1>3, <1>4, <1>5 DEF Gain, v

LEMMA OneIsWorth ==
  ASSUME NEW h \in TGHolding, NEW p, NEW i
  PROVE  SeqTotal(Worth(p, i), <<h>>) = Worth(p, i)[h]
         /\ Worth(p, i)[h] = (IF h.owner = p /\ h.instrument = i THEN h.amount ELSE 0)
         /\ Worth(p, i)[h] \in Int
<1>1. Worth(p, i) \in [TGHolding -> Int]
  BY WorthTyped
<1>2. Worth(p, i)[h] \in Int
  BY <1>1
<1>. QED BY <1>2, SeqTotalOne DEF Worth

-----------------------------------------------------------------------------
(* The steps of the rail.                                                   *)

SettledSame ==
  {c \in Call : settlement[c] = "executed"}' = {c \in Call : settlement[c] = "executed"}

LEMMA SameSettled ==
  ASSUME UNCHANGED settlement
  PROVE  SettledSame
BY DEF SettledSame

LEMMA MarksSettled ==
  ASSUME LedgerOK, NEW c \in Call, Marks(c)
  PROVE  SettledSame
<1>1. PICK s \in {"open", "cancelled"} : settlement' = [settlement EXCEPT ![c] = s]
  BY DEF Marks
<1>2. settlement[c] # "executed" /\ DOMAIN settlement = Call
  BY DEF Marks, LedgerOK
<1>3. \A d \in Call : settlement'[d] = "executed" <=> settlement[d] = "executed"
  BY <1>1, <1>2
<1>. QED BY <1>3 DEF SettledSame

LEMMA NoGain ==
  ASSUME \A p \in Party, i \in Instrument : Balance(p, i)' = Balance(p, i), SettledSame
  PROVE  UNCHANGED Rail!rvars
<1>1. [p \in Party |-> [i \in Instrument |-> Balance(p, i)]]'
        = [p \in Party |-> [i \in Instrument |-> Balance(p, i)]]
  OBVIOUS
<1>. QED BY <1>1 DEF Rail!rvars, SettledSame

LEMMA OneGains ==
  ASSUME NEW p \in Party, NEW i \in Instrument, SettledSame, NEW n, n # 0,
         Gain(p, i) = n,
         \A q \in Party, j \in Instrument : q # p \/ j # i => Gain(q, j) = 0,
         Rail!FundOrBurn(Record(p, i, n))
  PROVE  Rail!OtherChange
<1>. DEFINE g == Record(p, i, n)
<1>1. g.gain = n
  BY DEF Record
<1>2. ASSUME NEW q \in Party, NEW j \in Instrument, NEW x,
             x = Record(q, j, Gain(q, j)), x.gain # 0
      PROVE  x = g
  <2>1. x.gain = Gain(q, j)
    BY <1>2 DEF Record
  <2>2. q = p /\ j = i
    BY <1>2, <2>1
  <2>. QED BY <1>2, <2>2
<1>3. ASSUME NEW x  PROVE x \in Rail!Changed <=> x = g
  <2>1. x \in Rail!Changed => x = g
    BY <1>2, ChangedIs
  <2>2. g = Record(p, i, Gain(p, i)) /\ g.gain # 0
    BY <1>1
  <2>. HIDE DEF g
  <2>3. g \in Rail!Changed
    BY <2>2, ChangedIs
  <2>. QED BY <2>1, <2>3
<1>4. Rail!Changed = {g}
  BY <1>3
<1>. QED BY <1>4 DEF Rail!OtherChange, SettledSame

LEMMA TwoGain ==
  ASSUME NEW p \in Party, NEW r \in Party, p # r, NEW i \in Instrument, SettledSame,
         NEW n \in Int, n # 0, Gain(p, i) = -n, Gain(r, i) = n,
         \A q \in Party, j \in Instrument : (q # p /\ q # r) \/ j # i => Gain(q, j) = 0
  PROVE  Rail!OtherChange
<1>. DEFINE g == Record(p, i, -n)
            h == Record(r, i, n)
<1>1. g.gain = -n /\ h.gain = n /\ g.instrument = i /\ h.instrument = i
  BY DEF Record
<1>2. ASSUME NEW q \in Party, NEW j \in Instrument, NEW x,
             x = Record(q, j, Gain(q, j)), x.gain # 0
      PROVE  x \in {g, h}
  <2>1. x.gain = Gain(q, j)
    BY <1>2 DEF Record
  <2>2. (q = p \/ q = r) /\ j = i
    BY <1>2, <2>1
  <2>. QED BY <1>2, <2>2
<1>3. Rail!Changed = {g, h}
  <2>1. \A x : x \in Rail!Changed => x \in {g, h}
    BY <1>2, ChangedIs
  <2>2. /\ g = Record(p, i, Gain(p, i)) /\ g.gain # 0
        /\ h = Record(r, i, Gain(r, i)) /\ h.gain # 0
    BY <1>1
  <2>. HIDE DEF g, h
  <2>3. g \in Rail!Changed /\ h \in Rail!Changed
    BY <2>2, ChangedIs
  <2>. QED BY <2>1, <2>3
<1>4. Rail!Give(g, h)
  BY <1>1 DEF Rail!Give
<1>. HIDE DEF g, h
<1>. QED BY <1>3, <1>4 DEF Rail!OtherChange, SettledSame

LEMMA ArchiveBurns ==
  ASSUME LedgerOK, NEW k \in Cid, Archive(k)
  PROVE  Rail!RNext
<1>1. hold[k] # None /\ Replace({k}, <<>>) /\ UNCHANGED settlement
  BY DEF Archive
<1>2. hold \in Holdings /\ hold[k] \in TGHolding
  BY <1>1 DEF LedgerOK, Holdings
<1>. PICK h \in TGHolding : h = hold[k]
  BY <1>2
<1>3. <<>> \in Seq(TGHolding)
  OBVIOUS
<1>4. ASSUME NEW p, NEW i
      PROVE  Gain(p, i) = IF h.owner = p /\ h.instrument = i THEN -h.amount ELSE 0
  <2>1. Gain(p, i) = SeqTotal(Worth(p, i), <<>>)
                     - SumFunctionOnSet(UsedOf(Worth(p, i), {k}), Cid)
    BY <1>1, <1>3, GainIs
  <2>2. SeqTotal(Worth(p, i), <<>>) = 0
    BY SeqTotalEmpty
  <2>3. SumFunctionOnSet(UsedOf(Worth(p, i), {k}), Cid) = Worth(p, i)[h]
    BY <1>1, <1>2, WorthTyped, UsedOne
  <2>4. Worth(p, i)[h] = (IF h.owner = p /\ h.instrument = i THEN h.amount ELSE 0)
        /\ Worth(p, i)[h] \in Int
    BY ONLY h \in TGHolding, OneIsWorth
  <2>5. h.amount \in Int
    BY DEF TGHolding, Amount
  <2>6. Gain(p, i) = 0 - Worth(p, i)[h]
    BY <2>1, <2>2, <2>3
  <2>7. CASE h.owner = p /\ h.instrument = i
    BY <2>4, <2>5, <2>6, <2>7
  <2>8. CASE ~ (h.owner = p /\ h.instrument = i)
    BY <2>4, <2>6, <2>8
  <2>. QED BY <2>7, <2>8
<1>5. /\ h.owner \in Party /\ h.instrument \in Instrument /\ -h.amount \in Int
      /\ -h.amount # 0 /\ -h.amount < 0
  BY DEF TGHolding, Amount
<1>6. Rail!FundOrBurn(Record(h.owner, h.instrument, -h.amount))
  BY <1>5 DEF Rail!FundOrBurn, Record
<1>7. SettledSame
  BY <1>1, SameSettled
<1>8. Rail!OtherChange
  <2>. DEFINE p == h.owner
              i == h.instrument
              n == -h.amount
  <2>1. /\ p \in Party /\ i \in Instrument /\ n # 0 /\ Gain(p, i) = n
        /\ \A q \in Party, j \in Instrument : q # p \/ j # i => Gain(q, j) = 0
        /\ Rail!FundOrBurn(Record(p, i, n))
    BY <1>4, <1>5, <1>6
  <2>. HIDE DEF p, i, n
  <2>. QED BY <1>7, <2>1, OneGains
<1>. QED BY <1>8 DEF Rail!RNext

LEMMA MintFunds ==
  ASSUME LedgerOK, NEW h, MintOK(h), Mint(h)
  PROVE  Rail!RNext
<1>1. h \in TGHolding /\ Replace({}, <<h>>) /\ UNCHANGED settlement
  BY DEF Mint, MintOK
<1>2. PICK c \in Call : h.amount = Gross(c, h.owner, h.instrument)
  BY DEF MintOK
<1>3. <<h>> \in Seq(TGHolding)
  BY <1>1, OneHolding
<1>4. ASSUME NEW p, NEW i
      PROVE  Gain(p, i) = IF h.owner = p /\ h.instrument = i THEN h.amount ELSE 0
  <2>1. Gain(p, i) = SeqTotal(Worth(p, i), <<h>>)
                     - SumFunctionOnSet(UsedOf(Worth(p, i), {}), Cid)
    BY <1>1, <1>3, GainIs
  <2>. QED BY <1>1, <2>1, UsedNone, OneIsWorth
<1>5. /\ h.owner \in Party /\ h.instrument \in Instrument /\ h.amount # 0
  BY <1>1 DEF TGHolding, Amount
<1>6. Rail!FundOrBurn(Record(h.owner, h.instrument, h.amount))
  <2>. DEFINE g == Record(h.owner, h.instrument, h.amount)
  <2>1. g.party = h.owner /\ g.instrument = h.instrument /\ g.gain = h.amount
    BY DEF Record
  <2>2. g.gain = Rail!Gross(c, g.party, g.instrument)
    BY <1>2, <2>1, NetIs
  <2>. QED BY <2>2 DEF Rail!FundOrBurn
<1>7. SettledSame
  BY <1>1, SameSettled
<1>8. Rail!OtherChange
  <2>. DEFINE p == h.owner
              i == h.instrument
              n == h.amount
  <2>1. /\ p \in Party /\ i \in Instrument /\ n # 0 /\ Gain(p, i) = n
        /\ \A q \in Party, j \in Instrument : q # p \/ j # i => Gain(q, j) = 0
        /\ Rail!FundOrBurn(Record(p, i, n))
    BY <1>4, <1>5, <1>6
  <2>. HIDE DEF p, i, n
  <2>. QED BY <1>7, <2>1, OneGains
<1>. QED BY <1>8 DEF Rail!RNext

LEMMA SwapGives ==
  ASSUME LedgerOK, NEW k \in Cid, NEW h \in TGHolding, Swaps(k, h)
  PROVE  Rail!RNext \/ UNCHANGED Rail!rvars
<1>1. /\ hold[k] # None /\ h.amount = hold[k].amount /\ h.instrument = hold[k].instrument
      /\ Replace({k}, <<h>>) /\ UNCHANGED settlement
  BY DEF Swaps
<1>2. hold \in Holdings /\ hold[k] \in TGHolding
  BY <1>1 DEF LedgerOK, Holdings
<1>. PICK old \in TGHolding : old = hold[k]
  BY <1>2
<1>3. <<h>> \in Seq(TGHolding)
  BY OneHolding
<1>. PICK p \in Party, r \in Party, i \in Instrument, n \in Int :
       /\ p = old.owner /\ r = h.owner /\ i = h.instrument /\ n = h.amount /\ n # 0
       /\ old.instrument = i /\ old.amount = n
  BY <1>1 DEF TGHolding, Amount
<1>4. ASSUME NEW q, NEW j
      PROVE  /\ Gain(q, j) = (IF r = q /\ i = j THEN n ELSE 0) - (IF p = q /\ i = j THEN n ELSE 0)
             /\ Balance(q, j) \in Int
  <2>1. /\ Gain(q, j) = SeqTotal(Worth(q, j), <<h>>)
                        - SumFunctionOnSet(UsedOf(Worth(q, j), {k}), Cid)
        /\ Balance(q, j) \in Int
    BY <1>1, <1>3, GainIs
  <2>2. SumFunctionOnSet(UsedOf(Worth(q, j), {k}), Cid) = Worth(q, j)[old]
    BY <1>1, <1>2, WorthTyped, UsedOne
  <2>3. SeqTotal(Worth(q, j), <<h>>) = IF r = q /\ i = j THEN n ELSE 0
    BY OneIsWorth
  <2>4. Worth(q, j)[old] = IF p = q /\ i = j THEN n ELSE 0
    <3>1. Worth(q, j)[old] = IF old.owner = q /\ old.instrument = j THEN old.amount ELSE 0
      BY ONLY old \in TGHolding, OneIsWorth
    <3>. QED BY ONLY <3>1, p = old.owner, old.instrument = i, old.amount = n
  <2>. QED BY <2>1, <2>2, <2>3, <2>4
<1>5. SettledSame
  BY <1>1, SameSettled
<1>6. CASE p # r
  <2>1. /\ Gain(p, i) = -n /\ Gain(r, i) = n
        /\ \A q \in Party, j \in Instrument : (q # p /\ q # r) \/ j # i => Gain(q, j) = 0
    BY <1>4, <1>6
  <2>2. Rail!OtherChange
    BY <1>5, <1>6, <2>1, TwoGain
  <2>. QED BY <2>2 DEF Rail!RNext
<1>7. CASE p = r
  <2>1. hold' \in Holdings
    BY <1>1, <1>2, <1>3, ReplaceTyped DEF Holdings
  <2>2. ASSUME NEW q \in Party, NEW j \in Instrument  PROVE Balance(q, j)' = Balance(q, j)
    <3>1. Gain(q, j) = 0 /\ Balance(q, j) \in Int
      BY <1>4, <1>7
    <3>2. Balance(q, j)' \in Int
      <4>1. Balance(q, j)' = SumFunctionOnSet(Values(Worth(q, j), hold'), Cid)
        BY <2>1, NextBalanceIs
      <4>2. Worth(q, j) \in [TGHolding -> Int]
        BY WorthTyped
      <4>3. \A x \in Cid : Values(Worth(q, j), hold')[x] \in Int
        BY <2>1, <4>2, ValuesTyped
      <4>4. Cid \in SUBSET Cid
        OBVIOUS
      <4>. QED BY <4>1, <4>3, <4>4, CidFinite, SumInt
    <3>. QED BY <3>1, <3>2 DEF Gain
  <2>. QED BY <1>5, <2>2, NoGain
<1>. QED BY <1>6, <1>7

LEMMA LedgerStepRefines ==
  ASSUME LedgerOK, LedgerStep
  PROVE  Rail!RNext \/ UNCHANGED Rail!rvars
<1>1. ASSUME UNCHANGED hold, SettledSame  PROVE UNCHANGED Rail!rvars
  <2>1. \A p \in Party, i \in Instrument : Balance(p, i)' = Balance(p, i)
    <3>1. hold \in Holdings /\ hold' \in Holdings /\ hold' = hold
      BY <1>1 DEF LedgerOK, Holdings
    <3>2. \A p, i : Balance(p, i) = SumFunctionOnSet(Values(Worth(p, i), hold), Cid)
      BY <3>1, BalanceIs
    <3>3. \A p, i : Balance(p, i)' = SumFunctionOnSet(Values(Worth(p, i), hold'), Cid)
      BY <3>1, NextBalanceIs
    <3>. QED BY <3>1, <3>2, <3>3
  <2>. QED BY <1>1, <2>1, NoGain
<1>2. CASE UNCHANGED ledger
  <2>1. UNCHANGED hold /\ SettledSame
    BY <1>2, SameSettled DEF ledger
  <2>. QED BY <1>1, <2>1
<1>3. CASE \E c \in Call : Marks(c)
  <2>1. UNCHANGED hold /\ SettledSame
    BY <1>3, MarksSettled DEF Marks
  <2>. QED BY <1>1, <2>1
<1>4. ASSUME NEW c, NEW parts, Execution(c, parts)  PROVE Rail!RNext
  <2>1. /\ c \in Call /\ settlement[c] # "executed" /\ DOMAIN settlement = Call
        /\ settlement' = [settlement EXCEPT ![c] = "executed"]
    BY <1>4 DEF Execution, Settle, LedgerOK
  <2>2. \A p \in Party, i \in Instrument : Gain(p, i) = Incoming(c, p, i) - Gross(c, p, i)
    BY <1>4, ExecutionMoves
  <2>. QED BY <2>1, <2>2, NetChangeIs
<1>. QED BY <1>2, <1>3, <1>4, ArchiveBurns, MintFunds, SwapGives DEF LedgerStep

LEMMA StartRefines == Init => Rail!RInit
<1>. SUFFICES ASSUME Init  PROVE Rail!RInit
  OBVIOUS
<1>1. hold \in Holdings
  BY TokenInvInit DEF TokenInv, LedgerOK, Holdings
<1>2. ASSUME NEW p \in Party, NEW i \in Instrument  PROVE Balance(p, i) \in Nat
  <2>1. Balance(p, i) = SumFunctionOnSet(Values(Worth(p, i), hold), Cid)
    BY <1>1, BalanceIs
  <2>2. ASSUME NEW k \in Cid  PROVE Values(Worth(p, i), hold)[k] \in Nat
    <3>1. hold[k] \in TGHolding \/ hold[k] = None
      BY <1>1 DEF Holdings
    <3>2. Worth(p, i) \in [TGHolding -> Nat]
      BY WorthTyped
    <3>. QED BY <3>1, <3>2 DEF Values
  <2>. QED BY <2>1, <2>2, CidFinite, SumNat
<1>3. {c \in Call : settlement[c] = "executed"} = {}
  BY DEF Init
<1>. QED BY <1>2, <1>3 DEF Rail!RInit

\* RefinesTokenRail, for any books, holdings, calls and number of contract ids:
\* every execution moves every balance by what its settlement's book nets to, at
\* once and once only; otherwise tokens appear for a book's gross, go with a reset,
\* or pass from one party to another (TokenSettlement.daml 170-174, 250-252).
THEOREM TokensRefineRail == Spec => RefinesTokenRail
<1>1. TokenInv /\ [Next]_vars => [Rail!RNext]_(Rail!rvars)
  <2>. SUFFICES ASSUME TokenInv, [Next]_vars  PROVE [Rail!RNext]_(Rail!rvars)
    OBVIOUS
  <2>1. LedgerOK /\ LedgerStep
    BY StepIs DEF TokenInv
  <2>. QED BY <2>1, LedgerStepRefines
<1>. QED BY <1>1, StartRefines, TokenInvInit, TokenInvInductive, PTL
         DEF Spec, RefinesTokenRail, Rail!RSpec

=============================================================================
