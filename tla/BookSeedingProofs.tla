-------------------------- MODULE BookSeedingProofs --------------------------
(***************************************************************************)
(* For any book, any ledger, any number of processes and of faults: the    *)
(* types, every failure has an error to show (FailureIsExplained), a clean *)
(* report of a process that ran by itself lasts (CleanReportLasts), and    *)
(* seedings that went wrong together know it (OverlapIsReported).          *)
(***************************************************************************)
EXTENDS BookSeeding, FiniteSetTheorems, TLAPS

-----------------------------------------------------------------------------
(* Type correctness.  The commands over a set go in the order of their        *)
(* creation, which exists because ranks are different and there are as many   *)
(* of them as elements.                                                       *)

LEMMA OrderExists ==
  ASSUME NEW S, IsFiniteSet(S), S \subseteq Nat, NEW n \in 1..Cardinality(S)
  PROVE  \E i \in S : Cardinality({j \in S : j < i}) = n - 1
<1>. DEFINE Before(i) == {j \in S : j < i}
            rank == [i \in S |-> Cardinality(Before(i))]
            ranks == 0..(Cardinality(S) - 1)
<1>1. Cardinality(S) \in Nat
  BY FS_CardinalityType
<1>2. \A i \in S : IsFiniteSet(Before(i)) /\ Cardinality(Before(i)) \in Nat
                     /\ Cardinality(Before(i)) < Cardinality(S)
  <2>. SUFFICES ASSUME NEW i \in S
                PROVE  IsFiniteSet(Before(i)) /\ Cardinality(Before(i)) \in Nat
                         /\ Cardinality(Before(i)) < Cardinality(S)
    OBVIOUS
  <2>1. Before(i) \in SUBSET S /\ Before(i) # S
    OBVIOUS
  <2>. HIDE DEF Before
  <2>2. IsFiniteSet(Before(i)) /\ Cardinality(Before(i)) <= Cardinality(S)
          /\ (Cardinality(S) = Cardinality(Before(i)) => S = Before(i))
    BY <2>1, FS_Subset
  <2>3. Cardinality(Before(i)) \in Nat
    BY <2>2, FS_CardinalityType
  <2>. QED BY <1>1, <2>1, <2>2, <2>3
<1>3. \A i, j \in S : i < j => Cardinality(Before(i)) < Cardinality(Before(j))
  <2>. SUFFICES ASSUME NEW i \in S, NEW j \in S, i < j
                PROVE  Cardinality(Before(i)) < Cardinality(Before(j))
    OBVIOUS
  <2>1. Before(i) \in SUBSET Before(j) /\ Before(i) # Before(j)
    <3>0. S \subseteq Nat /\ i \in Nat /\ j \in Nat
      OBVIOUS
    <3>1. i \in Before(j) /\ i \notin Before(i)
      BY <3>0
    <3>2. \A k \in S : k < i => k < j
      BY <3>0
    <3>3. Before(i) \subseteq Before(j)
      BY <3>2
    <3>. QED BY <3>1, <3>3
  <2>2. /\ IsFiniteSet(Before(j))
        /\ Cardinality(Before(i)) \in Nat /\ Cardinality(Before(j)) \in Nat
    BY <1>2
  <2>. HIDE DEF Before
  <2>3. Cardinality(Before(i)) <= Cardinality(Before(j))
          /\ (Cardinality(Before(j)) = Cardinality(Before(i)) => Before(j) = Before(i))
    BY <2>1, <2>2, FS_Subset
  <2>. QED BY <2>1, <2>2, <2>3
<1>4. rank \in Injection(S, ranks)
  <2>. HIDE DEF Before
  <2>1. rank \in [S -> ranks]
    BY <1>1, <1>2
  <2>2. \A i, j \in S : rank[i] = rank[j] => i = j
    <3>. SUFFICES ASSUME NEW i \in S, NEW j \in S, i # j PROVE rank[i] # rank[j]
      OBVIOUS
    <3>1. i \in Nat /\ j \in Nat
      OBVIOUS
    <3>2. i < j \/ j < i
      BY <3>1
    <3>3. Cardinality(Before(i)) \in Nat /\ Cardinality(Before(j)) \in Nat
      BY <1>2
    <3>. QED BY <1>3, <3>2, <3>3
  <2>. HIDE DEF rank
  <2>. QED BY <2>1, <2>2 DEF Injection, IsInjective
<1>5. IsFiniteSet(ranks) /\ Cardinality(ranks) = Cardinality(S)
  <2>1. 0 \in Int /\ Cardinality(S) - 1 \in Int
    BY <1>1
  <2>2. /\ IsFiniteSet(ranks)
        /\ Cardinality(ranks) = IF 0 > Cardinality(S) - 1 THEN 0 ELSE Cardinality(S) - 1 - 0 + 1
    BY <2>1, FS_Interval
  <2>. HIDE DEF ranks
  <2>. QED BY <1>1, <2>2
<1>6. rank \in Surjection(S, ranks)
  <2>. HIDE DEF rank, ranks
  <2>. QED BY <1>4, <1>5, FS_Injection
<1>7. n - 1 \in ranks
  BY <1>1
<1>8. \E i \in S : rank[i] = n - 1
  <2>. HIDE DEF rank, ranks
  <2>. QED BY <1>6, <1>7 DEF Surjection
<1>9. \A i \in S : rank[i] = Cardinality({j \in S : j < i})
  OBVIOUS
<1>10. PICK i \in S : rank[i] = n - 1
  BY <1>8
<1>11. Cardinality({j \in S : j < i}) = n - 1
  BY <1>9, <1>10, Zenon
<1>. QED BY <1>11, Zenon

LEMMA InOrderInside ==
  ASSUME NEW S, IsFiniteSet(S), S \subseteq Nat
  PROVE  \A n \in 1..Cardinality(S) : InOrder(S)[n] \in S
<1>. SUFFICES ASSUME NEW n \in 1..Cardinality(S) PROVE InOrder(S)[n] \in S
  OBVIOUS
<1>1. \E i \in S : Cardinality({j \in S : j < i}) = n - 1
  BY OrderExists
<1>. QED BY <1>1 DEF InOrder

\* The writes planned over a set of contracts archive one of them each.
LEMMA ArchivesInside ==
  ASSUME NEW S, IsFiniteSet(S), S \subseteq Nat
  PROVE  Archives(S) \in Seq({Archive(i) : i \in S})
<1>1. Cardinality(S) \in Nat
  BY FS_CardinalityType
<1>2. \A n \in 1..Cardinality(S) : Archive(InOrder(S)[n]) \in {Archive(i) : i \in S}
  BY InOrderInside
<1>. QED BY <1>1, <1>2 DEF Archives

\* And the writes planned over a set of references create each row once.
LEMMA CreatesInside ==
  ASSUME NEW R, IsFiniteSet(R)
  PROVE  /\ Creates(R) \in Seq({Create(Row(r)) : r \in R})
         /\ \A m, n \in DOMAIN Creates(R) : Creates(R)[m] = Creates(R)[n] => m = n
<1>. DEFINE order == SetToSeq(R)
<1>1. Cardinality(R) \in Nat /\ ExistsBijection(1..Cardinality(R), R)
  BY FS_CardinalityType
<1>2. order \in [1..Cardinality(R) -> R] /\ IsInjective(order)
  <2>1. \E f \in [1..Cardinality(R) -> R] : IsInjective(f)
    BY <1>1 DEF ExistsBijection, Bijection, Injection
  <2>. QED BY <2>1 DEF SetToSeq
<1>. HIDE DEF order
<1>3. DOMAIN order = 1..Cardinality(R) /\ \A n \in 1..Cardinality(R) : order[n] \in R
  BY <1>2
<1>4. Creates(R) = [n \in 1..Cardinality(R) |-> Create(Row(order[n]))]
  BY <1>3 DEF Creates, order
<1>5. \A m, n \in 1..Cardinality(R) : Create(Row(order[m])) = Create(Row(order[n])) => m = n
  <2>1. \A a, b : Create(Row(a)) = Create(Row(b)) => a = b
    BY DEF Create, Row
  <2>. QED BY <1>2, <1>3, <2>1 DEF IsInjective
<1>. QED BY <1>1, <1>3, <1>4, <1>5

LEMMA PlannedType ==
  ASSUME SeedTypeOK, NEW query
  PROVE  Planned(query) \in Seq(Write)
<1>1. /\ IsFiniteSet(live) /\ live \subseteq Nat /\ live \subseteq DOMAIN made
      /\ \A S \in SUBSET live : IsFiniteSet(S) /\ S \subseteq Nat
  <2>1. DOMAIN made = 1..Len(made) /\ Len(made) \in Nat /\ live \subseteq DOMAIN made
    BY DEF SeedTypeOK
  <2>2. IsFiniteSet(1..Len(made)) /\ 1..Len(made) \subseteq Nat
    BY <2>1, FS_Interval
  <2>3. IsFiniteSet(live)
    BY <2>1, <2>2, FS_Subset
  <2>. QED BY <2>1, <2>2, <2>3, FS_Subset
<1>2. \A S \in SUBSET live : Archives(S) \in Seq(Write)
  <2>. SUFFICES ASSUME NEW S \in SUBSET live PROVE Archives(S) \in Seq(Write)
    OBVIOUS
  <2>1. Archives(S) \in Seq({Archive(i) : i \in S})
    BY <1>1, ArchivesInside
  <2>2. {Archive(i) : i \in S} \subseteq Write
    BY <1>1 DEF Write
  <2>. QED BY <2>1, <2>2
<1>3. Creates(Missing) \in Seq(Write)
  <2>1. Missing \in SUBSET Reference /\ IsFiniteSet(Missing)
    <3>1. Missing \in SUBSET Reference
      BY DEF Missing
    <3>. QED BY <3>1, FS_Subset, LedgerContents
  <2>2. Creates(Missing) \in Seq({Create(Row(r)) : r \in Missing})
    BY <2>1, CreatesInside
  <2>3. \A r \in Reference : Row(r) \in Contract
    BY DEF Row, Contract
  <2>4. {Create(Row(r)) : r \in Missing} \subseteq Write
    BY <2>1, <2>3 DEF Write
  <2>. QED BY <2>2, <2>4
<1>4. <<Create(Limit)>> \in Seq(Write)
  <2>1. Limit \in Contract
    BY DEF Limit, Contract
  <2>2. Create(Limit) \in Write
    BY <2>1 DEF Write
  <2>. QED BY <2>2
<1>5. <<>> \in Seq(Write)
  OBVIOUS
<1>6. /\ Book \in SUBSET live /\ Book \ Kept \in SUBSET live
      /\ Live("batch") \in SUBSET live /\ Live("limit") \in SUBSET live
  BY DEF Book, Live
<1>7. /\ Archives(Book) \in Seq(Write) /\ Archives(Book \ Kept) \in Seq(Write)
      /\ Archives(Live("batch")) \in Seq(Write) /\ Archives(Live("limit")) \in Seq(Write)
  BY <1>2, <1>6
<1>. HIDE <1>1, <1>2
<1>8. CASE query = "read obligations"
  BY <1>7, <1>8 DEF Planned
<1>9. CASE query = "read batches"
  BY <1>7, <1>9 DEF Planned
<1>10. CASE query = "read limits"
  BY <1>7, <1>10 DEF Planned
<1>11. CASE query = "sweep"
  BY <1>7, <1>11 DEF Planned
<1>12. CASE query = "create"
  BY <1>3, <1>12 DEF Planned
<1>13. CASE query = "agree"
  BY <1>4, <1>13 DEF Planned
<1>14. CASE query \notin {"read obligations", "read batches", "read limits", "sweep", "create", "agree"}
  BY <1>5, <1>14 DEF Planned
<1>. QED BY <1>8, <1>9, <1>10, <1>11, <1>12, <1>13, <1>14

LEMMA VerificationType ==
  ASSUME NEW p, NEW query
  PROVE  Verified(p, query) \in BOOLEAN /\ Explained(p, query) \in BOOLEAN
<1>1. Exact \in BOOLEAN /\ Named \in BOOLEAN
  BY DEF Exact, Named
<1>2. Verified(p, query) \in BOOLEAN
  BY <1>1 DEF Verified
<1>. QED BY <1>1, <1>2 DEF Explained

\* What a commit does to the ledger, for each kind of write.
LEMMA CommitType ==
  ASSUME SeedTypeOK, NEW w \in Write, Commit(w)
  PROVE  /\ made' \in Seq(Contract) /\ live' \subseteq DOMAIN made'
         /\ Write \subseteq Write'
<1>1. ASSUME NEW i \in DOMAIN made, w = Archive(i)
      PROVE  live' = live \ {i} /\ made' = made
  <2>1. w.choice = "archive" /\ w.cid = i
    BY <1>1 DEF Archive
  <2>. QED BY <2>1 DEF Commit
<1>2. ASSUME NEW c \in Contract, w = Create(c)
      PROVE  made' = Append(made, c) /\ live' = live \union {Len(made) + 1}
  <2>1. w.choice # "archive" /\ w.payload = c
    BY <1>2 DEF Create
  <2>. QED BY <2>1 DEF Commit
<1>3. CASE \E i \in DOMAIN made : w = Archive(i)
  BY <1>1, <1>3 DEF SeedTypeOK, Write
<1>4. ASSUME NEW c \in Contract, w = Create(c)
      PROVE  /\ made' \in Seq(Contract) /\ live' \subseteq DOMAIN made'
             /\ Write \subseteq Write'
  <2>1. made' = Append(made, c) /\ live' = live \union {Len(made) + 1}
    BY <1>2, <1>4
  <2>2. made \in Seq(Contract) /\ live \subseteq 1..Len(made) /\ Len(made) \in Nat
    BY DEF SeedTypeOK
  <2>3. made' \in Seq(Contract) /\ Len(made') = Len(made) + 1
    BY <1>4, <2>1, <2>2
  <2>4. DOMAIN made = 1..Len(made) /\ DOMAIN made' = 1..(Len(made) + 1)
    BY <2>2, <2>3
  <2>5. 1..Len(made) \subseteq 1..(Len(made) + 1) /\ Len(made) + 1 \in 1..(Len(made) + 1)
    BY <2>2
  <2>6. live' \subseteq DOMAIN made' /\ DOMAIN made \subseteq DOMAIN made'
    BY <2>1, <2>2, <2>4, <2>5
  <2>. QED BY <2>3, <2>6 DEF Write
<1>. QED BY <1>3, <1>4 DEF Write

\* A plan loses its first write, or gets the writes planned from a query.
LEMMA WritingType ==
  ASSUME SeedTypeOK, NEW p \in Process, Writing(p)
  PROVE  /\ Head(todo[p]) \in Write /\ todo' \in [Process -> Seq(Write)]
         /\ UNCHANGED <<kind, step, foreign>> /\ alone' \subseteq Process
<1>1. todo[p] \in Seq(Write) /\ todo[p] # <<>>
  BY DEF SeedTypeOK, Writing
<1>2. Head(todo[p]) \in Write /\ Tail(todo[p]) \in Seq(Write)
  BY <1>1
<1>. QED BY <1>2 DEF SeedTypeOK, Writing, Alone

LEMMA SeqMonotone ==
  ASSUME NEW S, NEW T, S \subseteq T, NEW f \in [Process -> Seq(S)]
  PROVE  f \in [Process -> Seq(T)]
<1>1. \A s \in Seq(S) : s \in Seq(T)
  OBVIOUS
<1>. QED BY <1>1

LEMMA ReportType ==
  ASSUME SeedTypeOK, NEW p \in Process, NEW w, NotesError(p, w) \/ NotesNothing
  PROVE  errors' \in [Process -> BOOLEAN] /\ ok' \in [Process -> BOOLEAN]
  BY DEF SeedTypeOK, NotesError, NotesNothing, AgreesLimit, ClearsLimit

\* Type correctness, for any book and any ledger, which covers that each write
\* planned from a query archives a contract there was or creates one of the
\* contracts there can be.
THEOREM TypeCorrect == Spec => []SeedTypeOK
<1>1. Init => SeedTypeOK
  <2>1. SUFFICES ASSUME Init PROVE SeedTypeOK
    OBVIOUS
  <2>2. made \in Seq(Contract) /\ 0 \in 0..MaxFaults /\ 0 \in 0..MaxForeign
    BY <2>1, LedgerContents DEF Init
  <2>3. [p \in Process |-> "idle"] \in [Process -> DOMAIN Program \union {"idle", "dead"}]
    OBVIOUS
  <2>4. [p \in Process |-> <<>>] \in [Process -> Seq(Write)]
    OBVIOUS
  <2>. QED BY <2>1, <2>2, <2>3, <2>4 DEF Init, SeedTypeOK
<1>2. SeedTypeOK /\ [Next]_vars => SeedTypeOK'
  <2>. SUFFICES ASSUME SeedTypeOK, [Next]_vars PROVE SeedTypeOK'
    OBVIOUS
  <2>1. ASSUME NEW w \in late, CommitLate(w) PROVE SeedTypeOK'
    <3>1. w \in Write /\ Commit(w)
      BY <2>1 DEF CommitLate, SeedTypeOK
    <3>2. /\ made' \in Seq(Contract) /\ live' \subseteq DOMAIN made'
          /\ Write \subseteq Write'
      BY <3>1, CommitType
    <3>3. todo \in [Process -> Seq(Write')]
      BY <3>2, SeqMonotone DEF SeedTypeOK
    <3>. QED BY <2>1, <3>2, <3>3 DEF SeedTypeOK, CommitLate
  <2>2. ASSUME NEW w \in late, NeverCommits(w) PROVE SeedTypeOK'
    BY <2>2 DEF SeedTypeOK, NeverCommits, Write
  <2>3. CASE Others
    <3>1. \E w \in Write : Commit(w)
      BY <2>3, LedgerContents DEF Others, SeedTypeOK, Write
    <3>2. /\ made' \in Seq(Contract) /\ live' \subseteq DOMAIN made'
          /\ Write \subseteq Write'
      BY <3>1, CommitType
    <3>3. todo \in [Process -> Seq(Write')]
      BY <3>2, SeqMonotone DEF SeedTypeOK
    <3>4. foreign' \in 0..MaxForeign
      BY <2>3, LedgerContents DEF Others, SeedTypeOK
    <3>. QED BY <2>3, <3>2, <3>3, <3>4 DEF SeedTypeOK, Others
  <2>4. ASSUME NEW p \in Process, NEW k \in DOMAIN Program, Start(p, k) PROVE SeedTypeOK'
    BY <2>4 DEF SeedTypeOK, Start, Write
  <2>5. ASSUME NEW p \in Process, Reads(p) PROVE SeedTypeOK'
    <3>1. todo[p] \o Planned(Query(p)) \in Seq(Write)
      BY PlannedType DEF SeedTypeOK
    <3>2. Verified(p, Query(p)) \in BOOLEAN /\ Explained(p, Query(p)) \in BOOLEAN
      BY VerificationType
    <3>3. /\ todo' = [todo EXCEPT ![p] = @ \o Planned(Query(p))]
          /\ ok' = [ok EXCEPT ![p] = @ /\ Verified(p, Query(p))]
          /\ errors' = [errors EXCEPT ![p] = @ \/ Explained(p, Query(p))]
          /\ step' = [step EXCEPT ![p] = @ + 1] /\ alone' = alone \intersect {p}
          /\ UNCHANGED <<made, live, late, kind, faults, foreign>>
      BY <2>5 DEF Reads, Alone
    <3>4. Write' = Write
      BY <3>3 DEF Write
    <3>5. todo' \in [Process -> Seq(Write)] /\ step' \in [Process -> Nat]
      BY <3>1, <3>3 DEF SeedTypeOK
    <3>6. errors' \in [Process -> BOOLEAN] /\ ok' \in [Process -> BOOLEAN]
      BY <3>2, <3>3 DEF SeedTypeOK
    <3>. QED BY <3>3, <3>4, <3>5, <3>6 DEF SeedTypeOK
  <2>6. ASSUME NEW p \in Process, Succeeds(p) PROVE SeedTypeOK'
    <3>0. Writing(p) /\ Commit(Head(todo[p])) /\ NotesNothing /\ UNCHANGED <<late, faults>>
      BY <2>6 DEF Succeeds
    <3>1. /\ Head(todo[p]) \in Write /\ todo' \in [Process -> Seq(Write)]
          /\ UNCHANGED <<kind, step, foreign>> /\ alone' \subseteq Process
      BY <3>0, WritingType
    <3>2. /\ made' \in Seq(Contract) /\ live' \subseteq DOMAIN made'
          /\ Write \subseteq Write'
      BY <3>0, <3>1, CommitType
    <3>3. todo' \in [Process -> Seq(Write')]
      BY <3>1, <3>2, SeqMonotone
    <3>. QED BY <3>0, <3>1, <3>2, <3>3 DEF SeedTypeOK, NotesNothing
  <2>7. ASSUME NEW p \in Process, Refused(p) PROVE SeedTypeOK'
    <3>0. Writing(p) /\ NotesError(p, Head(todo[p])) /\ UNCHANGED <<made, live, late, faults>>
      BY <2>7 DEF Refused
    <3>1. /\ todo' \in [Process -> Seq(Write)]
          /\ UNCHANGED <<kind, step, foreign>> /\ alone' \subseteq Process
      BY <3>0, WritingType
    <3>2. errors' \in [Process -> BOOLEAN] /\ ok' \in [Process -> BOOLEAN]
      BY <3>0, ReportType
    <3>. QED BY <3>0, <3>1, <3>2 DEF SeedTypeOK, Write
  <2>8. ASSUME NEW p \in Process, Fault(p) PROVE SeedTypeOK'
    <3>. DEFINE w == Head(todo[p])
    <3>0. /\ Writing(p) /\ faults < MaxFaults /\ faults' = faults + 1
          /\ \/ Commit(w) /\ late' = late
             \/ late' = late \union {w} /\ UNCHANGED <<made, live>>
          /\ Unanswered(p, w)
      BY <2>8 DEF Fault, ledger
    <3>1. /\ w \in Write /\ todo' \in [Process -> Seq(Write)]
          /\ UNCHANGED <<kind, step, foreign>> /\ alone' \subseteq Process
      BY <3>0, WritingType
    <3>2. errors' \in [Process -> BOOLEAN] /\ ok' \in [Process -> BOOLEAN]
      BY <3>0, ReportType DEF Unanswered
    <3>3. faults' \in 0..MaxFaults
      BY <3>0, LedgerContents DEF SeedTypeOK
    <3>4. /\ made' \in Seq(Contract) /\ live' \subseteq DOMAIN made'
          /\ Write \subseteq Write' /\ late' \subseteq Write
      <4>. HIDE DEF w
      <4>1. CASE Commit(w) /\ late' = late
        BY <3>1, <4>1, CommitType DEF SeedTypeOK
      <4>2. CASE late' = late \union {w} /\ UNCHANGED <<made, live>>
        BY <3>1, <4>2 DEF SeedTypeOK, Write
      <4>. QED BY <3>0, <4>1, <4>2
    <3>5. todo' \in [Process -> Seq(Write')]
      BY <3>1, <3>4, SeqMonotone
    <3>. QED BY <3>1, <3>2, <3>3, <3>4, <3>5 DEF SeedTypeOK
  <2>9. ASSUME NEW p \in Process, QueryFails(p) PROVE SeedTypeOK'
    <3>1. /\ UNCHANGED <<made, live, late, kind, todo, foreign>>
          /\ faults' \in 0..MaxFaults /\ alone' \subseteq Process
      <4>1. /\ UNCHANGED <<made, live, late, kind, todo, foreign>>
            /\ faults < MaxFaults /\ faults' = faults + 1 /\ alone' = alone \intersect {p}
        BY <2>9 DEF QueryFails, Alone
      <4>. QED BY <4>1, LedgerContents DEF SeedTypeOK
    <3>2. step' \in [Process -> Nat]
      <4>1. \E n \in Nat : step' = [step EXCEPT ![p] = n]
        <5>1. step[p] + 1 \in Nat /\ step[p] + 2 \in Nat
          BY DEF SeedTypeOK
        <5>2. step' = [step EXCEPT ![p] = IF Query(p) = "read limits" THEN step[p] + 2 ELSE step[p] + 1]
          BY <2>9 DEF QueryFails
        <5>. QED BY <5>1, <5>2
      <4>. QED BY <4>1 DEF SeedTypeOK
    <3>3. errors' \in [Process -> BOOLEAN] /\ ok' \in [Process -> BOOLEAN]
      <4>1. ok' = [ok EXCEPT ![p] = FALSE] /\ errors' = [errors EXCEPT ![p] = TRUE]
        BY <2>9 DEF QueryFails
      <4>. QED BY <4>1 DEF SeedTypeOK
    <3>4. Write' = Write
      BY <3>1 DEF Write
    <3>. QED BY <3>1, <3>2, <3>3, <3>4 DEF SeedTypeOK
  <2>10. ASSUME NEW p \in Process, Dies(p) PROVE SeedTypeOK'
    <3>1. /\ UNCHANGED <<made, live, late, step, errors, ok, foreign>>
          /\ faults' \in 0..MaxFaults /\ alone' \subseteq Process
      BY <2>10, LedgerContents DEF SeedTypeOK, Dies, Alone
    <3>2. kind' \in [Process -> DOMAIN Program \union {"idle", "dead"}]
      BY <2>10 DEF SeedTypeOK, Dies
    <3>3. todo' \in [Process -> Seq(Write)]
      BY <2>10 DEF SeedTypeOK, Dies
    <3>4. Write' = Write
      BY <3>1 DEF Write
    <3>. QED BY <3>1, <3>2, <3>3, <3>4 DEF SeedTypeOK
  <2>11. CASE UNCHANGED vars
    BY <2>11 DEF SeedTypeOK, vars, Write
  <2>. QED BY <2>1, <2>2, <2>3, <2>4, <2>5, <2>6, <2>7, <2>8, <2>9, <2>10, <2>11 DEF Next
<1>. QED BY <1>1, <1>2, PTL DEF Spec

-----------------------------------------------------------------------------
(* FailureIsExplained.                                                       *)

\* Whoever found something wrong has listed an error, and finitely many
\* contracts are active: of a reference that is not there exactly once there is
\* either none, or a second, which the report can name.
NotedInv ==
  /\ IsFiniteSet(live)
  /\ errors \in [Process -> BOOLEAN] /\ ok \in [Process -> BOOLEAN]
  /\ \A p \in Process : ~ok[p] => errors[p]

\* A commit adds one contract or takes one away.
LEMMA CommitKeepsFinite ==
  ASSUME NEW w, Commit(w), IsFiniteSet(live)
  PROVE  IsFiniteSet(live')
<1>1. CASE live' = live \ {w.cid}
  BY <1>1, FS_RemoveElement
<1>2. CASE live' = live \union {Len(made) + 1}
  BY <1>2, FS_AddElement
<1>. QED BY <1>1, <1>2 DEF Commit

\* What the verification of a seeding holds against the ledger it can name
\* (the drift report of seed_partial_book).
LEMMA DriftIsNamed ==
  ASSUME IsFiniteSet(live), ~Exact
  PROVE  Named
<1>1. CASE \E i \in Book : ~Matches(i)
  BY <1>1 DEF Named
<1>2. CASE \E r \in Reference : Cardinality(Copies(r)) # 1
  <2>1. PICK r \in Reference : Cardinality(Copies(r)) # 1
    BY <1>2
  <2>2. IsFiniteSet(Copies(r))
    <3>1. Copies(r) \subseteq live
      BY DEF Copies, Book, Live
    <3>. QED BY <3>1, FS_Subset
  <2>3. Cardinality(Copies(r)) \in Nat /\ (Cardinality(Copies(r)) = 0 => Copies(r) = {})
    BY <2>2, FS_CardinalityType, FS_EmptySet
  <2>4. Copies(r) = {} \/ Cardinality(Copies(r)) > 1
    BY <2>1, <2>3
  <2>. QED BY <2>4 DEF Named
<1>. QED BY <1>1, <1>2 DEF Exact

\* A query whose verification fails adds an error to the report.
LEMMA VerificationIsExplained ==
  ASSUME NEW p, NEW query, IsFiniteSet(live), ~Verified(p, query)
  PROVE  Explained(p, query)
<1>1. CASE query = "verify obligations" /\ kind[p] = "seed"
  BY <1>1, DriftIsNamed DEF Verified, Explained
<1>2. CASE ~(query = "verify obligations" /\ kind[p] = "seed")
  BY <1>2 DEF Explained
<1>. QED BY <1>1, <1>2

\* The write that agrees a limit is no clearing of limits, so its failure is
\* counted as an error as well.
LEMMA NotesErrorExplains ==
  ASSUME NotedInv, NEW p \in Process, NEW w, NotesError(p, w)
  PROVE  /\ errors' \in [Process -> BOOLEAN] /\ ok' \in [Process -> BOOLEAN]
         /\ \A q \in Process : ~ok'[q] => errors'[q]
<1>1. AgreesLimit(w) => ~ClearsLimit(w)
  BY DEF AgreesLimit, ClearsLimit, Create
<1>2. AgreesLimit(w) \in BOOLEAN /\ ClearsLimit(w) \in BOOLEAN
  BY DEF AgreesLimit, ClearsLimit
<1>. QED BY <1>1, <1>2 DEF NotesError, NotedInv

\* Every report that is not a success has an error to show: reports that nothing
\* was wrong but fail, or fail in silence, are what an operator cannot act on.
THEOREM NothingFailsInSilence == Spec => []FailureIsExplained
<1>1. Init => NotedInv
  <2>1. SUFFICES ASSUME Init PROVE NotedInv
    OBVIOUS
  <2>2. made \in Seq(Contract)
    BY <2>1, LedgerContents DEF Init
  <2>3. DOMAIN made = 1..Len(made) /\ Len(made) \in Nat
    BY <2>2
  <2>4. IsFiniteSet(live)
    BY <2>1, <2>3, FS_Interval DEF Init
  <2>. QED BY <2>1, <2>4 DEF Init, NotedInv
<1>2. NotedInv /\ [Next]_vars => NotedInv'
  <2>. SUFFICES ASSUME NotedInv, [Next]_vars PROVE NotedInv'
    OBVIOUS
  <2>0. IsFiniteSet(live)
    BY DEF NotedInv
  <2>1. ASSUME NEW w \in late, CommitLate(w) PROVE NotedInv'
    BY <2>0, <2>1, CommitKeepsFinite DEF NotedInv, CommitLate
  <2>2. ASSUME NEW w \in late, NeverCommits(w) PROVE NotedInv'
    BY <2>2 DEF NotedInv, NeverCommits
  <2>3. CASE Others
    <3>1. \E w : Commit(w)
      BY <2>3 DEF Others
    <3>. QED BY <2>0, <2>3, <3>1, CommitKeepsFinite DEF NotedInv, Others
  <2>4. ASSUME NEW p \in Process, NEW k \in DOMAIN Program, Start(p, k) PROVE NotedInv'
    BY <2>4 DEF NotedInv, Start
  <2>5. ASSUME NEW p \in Process, Reads(p) PROVE NotedInv'
    <3>1. /\ Verified(p, Query(p)) \in BOOLEAN /\ Explained(p, Query(p)) \in BOOLEAN
          /\ ~Verified(p, Query(p)) => Explained(p, Query(p))
      BY <2>0, VerificationType, VerificationIsExplained
    <3>2. /\ ok' = [ok EXCEPT ![p] = @ /\ Verified(p, Query(p))]
          /\ errors' = [errors EXCEPT ![p] = @ \/ Explained(p, Query(p))]
          /\ live' = live
      BY <2>5 DEF Reads
    <3>. QED BY <3>1, <3>2 DEF NotedInv
  <2>6. ASSUME NEW p \in Process, Succeeds(p) PROVE NotedInv'
    <3>1. Commit(Head(todo[p])) /\ UNCHANGED <<errors, ok>>
      BY <2>6 DEF Succeeds, NotesNothing
    <3>2. IsFiniteSet(live')
      BY <2>0, <3>1, CommitKeepsFinite
    <3>. QED BY <3>1, <3>2 DEF NotedInv
  <2>7. ASSUME NEW p \in Process, Refused(p) PROVE NotedInv'
    <3>1. NotesError(p, Head(todo[p])) /\ live' = live
      BY <2>7 DEF Refused
    <3>. QED BY <3>1, NotesErrorExplains DEF NotedInv
  <2>8. ASSUME NEW p \in Process, Fault(p) PROVE NotedInv'
    <3>. DEFINE w == Head(todo[p])
    <3>1. Commit(w) \/ live' = live
      BY <2>8 DEF Fault, ledger
    <3>2. IsFiniteSet(live')
      BY <2>0, <3>1, CommitKeepsFinite
    <3>3. NotesError(p, w) \/ UNCHANGED <<errors, ok>>
      BY <2>8 DEF Fault, Unanswered, NotesNothing
    <3>4. CASE NotesError(p, w)
      BY <3>2, <3>4, NotesErrorExplains DEF NotedInv
    <3>5. CASE UNCHANGED <<errors, ok>>
      BY <3>2, <3>5 DEF NotedInv
    <3>. QED BY <3>3, <3>4, <3>5
  <2>9. ASSUME NEW p \in Process, QueryFails(p) PROVE NotedInv'
    BY <2>9 DEF NotedInv, QueryFails
  <2>10. ASSUME NEW p \in Process, Dies(p) PROVE NotedInv'
    BY <2>10 DEF NotedInv, Dies
  <2>11. CASE UNCHANGED vars
    BY <2>11 DEF NotedInv, vars
  <2>. QED BY <2>1, <2>2, <2>3, <2>4, <2>5, <2>6, <2>7, <2>8, <2>9, <2>10, <2>11 DEF Next
<1>3. NotedInv => FailureIsExplained
  BY DEF NotedInv, FailureIsExplained
<1>. QED BY <1>1, <1>2, <1>3, PTL DEF Spec

-----------------------------------------------------------------------------
(* CleanReportLasts.  While a process is alone and has no error to report,   *)
(* every write that is still undecided is one that can do no harm: the       *)
(* archival of a limit, whose errors stay out of the report, or the creation *)
(* of a row that was taken for created because the ledger had another copy   *)
(* of it.  The verifications see the end of both.                            *)

ArchivesOf(types) == {Archive(i) : i \in {j \in DOMAIN made : made[j].type \in types}}
NewRows == {Create(Row(r)) : r \in Reference}

\* The archivals of limits that may still commit, and never again once the
\* limits are verified to be gone.
LateLimits(verified) == {w \in ArchivesOf({"limit"}) : verified => w.cid \notin live}

\* No row is created by two of the writes, those of s and those of L.
EachOnce(s, L) ==
  \A n \in DOMAIN s : s[n] \in NewRows =>
    s[n] \notin L /\ \A m \in DOMAIN s : s[m] = s[n] => m = n

\* A row yet to be created, in the plan or late, is there in no copy, and is
\* created once.
RowsAreMissing(p) ==
  /\ \A r \in Reference : Create(Row(r)) \in late \union Range(todo[p]) => r \in Missing
  /\ EachOnce(todo[p], late)

\* Queries 1 and 2 of a seeding read and verify the limits, 8 and 9 verify the
\* obligations and the batches, 10 agrees the limit.
SeedClean(p) ==
  /\ step[p] \in 1..11
  /\ \A w \in Range(todo[p]) :
       \/ step[p] = 2 /\ w \in ArchivesOf({"limit"})
       \/ step[p] \in {4, 5, 6, 8} /\ w \in ArchivesOf({"obligation", "batch"})
       \/ step[p] = 7 /\ w \in NewRows
       \/ step[p] = 11 /\ w = Create(Limit)
  /\ step[p] = 11 => Len(todo[p]) <= 1
  /\ \A w \in late : w \in LateLimits(step[p] > 2) \/ (step[p] \in {7, 8} /\ w \in NewRows)
  /\ RowsAreMissing(p)
  /\ step[p] > 2 => IF step[p] = 11 /\ todo[p] = <<>>
                    THEN \E i \in live : Live("limit") = {i}
                    ELSE Live("limit") = {}
  /\ step[p] > 8 => Exact
  /\ step[p] > 9 => Live("batch") = {}

\* A reset verifies the obligations, the batches and the limits with its
\* queries 3, 4 and 6, and creates nothing.
ResetClean(p) ==
  /\ step[p] \in 1..7
  /\ \A w \in Range(todo[p]) :
       w \in ArchivesOf(IF step[p] = 6 THEN {"limit"} ELSE {"obligation", "batch"})
  /\ late \subseteq ArchivesOf({"limit"})
  /\ step[p] > 3 => Book = {}
  /\ step[p] > 4 => Live("batch") = {}
  /\ step[p] > 6 => Live("limit") = {}

CleanInv ==
  /\ \A p \in Process : kind[p] = "idle" => step[p] = 1 /\ todo[p] = <<>>
  /\ \A p \in alone : ~errors[p] =>
       /\ kind[p] = "seed" => SeedClean(p)
       /\ kind[p] = "reset" => ResetClean(p)

\* The ledger after a commit.

LEMMA IdsOfMade ==
  ASSUME SeedTypeOK
  PROVE  /\ DOMAIN made = 1..Len(made) /\ Len(made) \in Nat
         /\ live \subseteq DOMAIN made /\ Len(made) + 1 \notin DOMAIN made
  BY DEF SeedTypeOK

LEMMA ArchiveCommits ==
  ASSUME NEW i, Commit(Archive(i))
  PROVE  i \in live /\ live' = live \ {i} /\ made' = made
<1>1. Archive(i).choice = "archive" /\ Archive(i).cid = i
  BY DEF Archive
<1>. QED BY <1>1 DEF Commit, CanCommit

LEMMA CreateCommits ==
  ASSUME SeedTypeOK, NEW c \in Contract, Commit(Create(c))
  PROVE  /\ live' = live \union {Len(made) + 1}
         /\ \A i \in DOMAIN made : made'[i] = made[i]
         /\ made'[Len(made) + 1] = c
         /\ DOMAIN made' = DOMAIN made \union {Len(made) + 1}
<1>1. Create(c).choice # "archive" /\ Create(c).payload = c
  BY DEF Create
<1>2. made' = Append(made, c) /\ live' = live \union {Len(made) + 1}
  BY <1>1 DEF Commit
<1>3. made \in Seq(Contract)
  BY DEF SeedTypeOK
<1>4. DOMAIN made' = 1..(Len(made) + 1) /\ DOMAIN made = 1..Len(made) /\ Len(made) \in Nat
  BY <1>2, <1>3
<1>5. 1..(Len(made) + 1) = (1..Len(made)) \union {Len(made) + 1}
  BY <1>4
<1>. QED BY <1>2, <1>3, <1>4, <1>5

\* An archival takes from the ledger and adds to what is missing.
LEMMA AfterArchive ==
  ASSUME NEW i, live' = live \ {i}, made' = made
  PROVE  /\ \A t : Live(t)' = Live(t) \ {i}
         /\ Book' = Book \ {i}
         /\ \A r : Copies(r)' = Copies(r) \ {i}
         /\ Missing \subseteq Missing'
         /\ \A T : ArchivesOf(T)' = ArchivesOf(T)
<1>1. \A t : Live(t)' = Live(t) \ {i}
  BY DEF Live
<1>2. Book' = Book \ {i}
  BY <1>1 DEF Book
<1>3. \A r : Copies(r)' = Copies(r) \ {i}
  BY <1>2 DEF Copies
<1>4. Missing \subseteq Missing'
  BY <1>3 DEF Missing, Matches
<1>5. \A T : ArchivesOf(T)' = ArchivesOf(T)
  BY DEF ArchivesOf
<1>. QED BY <1>1, <1>2, <1>3, <1>4, <1>5

\* A creation adds one contract of its type, and no copy of another row.
LEMMA AfterCreate ==
  ASSUME SeedTypeOK, NEW c \in Contract, Commit(Create(c))
  PROVE  /\ \A t : Live(t)' = Live(t) \union (IF c.type = t THEN {Len(made) + 1} ELSE {})
         /\ c.type # "obligation" => Book' = Book /\ Missing' = Missing /\ (Exact => Exact')
         /\ \A r \in Missing : c.ref # r => r \in Missing'
         /\ \A T : ArchivesOf(T) \subseteq ArchivesOf(T)'
<1>. DEFINE n == Len(made) + 1
<1>1. /\ live' = live \union {n} /\ made'[n] = c /\ \A i \in DOMAIN made : made'[i] = made[i]
      /\ DOMAIN made' = DOMAIN made \union {n}
  BY CreateCommits
<1>2. live \subseteq DOMAIN made /\ n \notin DOMAIN made
  BY IdsOfMade
<1>. HIDE DEF n
<1>3. \A t : Live(t)' = Live(t) \union (IF c.type = t THEN {n} ELSE {})
  BY <1>1, <1>2 DEF Live
<1>4. Book' = Book \union (IF c.type = "obligation" THEN {n} ELSE {})
  BY <1>3 DEF Book
<1>5. Book \subseteq DOMAIN made /\ \A i \in Book : Matches(i)' <=> Matches(i)
  <2>1. Book \subseteq DOMAIN made
    BY <1>2 DEF Book, Live
  <2>. QED BY <1>1, <2>1 DEF Matches
<1>6. \A r : Copies(r)' = Copies(r) \union (IF c.type = "obligation" /\ c.ref = r THEN {n} ELSE {})
  BY <1>1, <1>4, <1>5 DEF Copies
<1>7. ASSUME NEW r \in Missing, ~(c.type = "obligation" /\ c.ref = r) PROVE r \in Missing'
  <2>1. Copies(r)' = Copies(r) /\ Copies(r) \subseteq Book
    BY <1>6, <1>7 DEF Copies
  <2>. QED BY <1>5, <2>1 DEF Missing
<1>8. ASSUME c.type # "obligation" PROVE Book' = Book /\ Missing' = Missing /\ (Exact => Exact')
  <2>1. Book' = Book /\ \A r : Copies(r)' = Copies(r) /\ Copies(r) \subseteq Book
    BY <1>4, <1>6, <1>8 DEF Copies
  <2>2. Missing' = Missing
    BY <1>5, <2>1 DEF Missing
  <2>3. Exact => Exact'
    BY <1>5, <2>1 DEF Exact
  <2>. QED BY <2>1, <2>2, <2>3
<1>9. \A T : ArchivesOf(T) \subseteq ArchivesOf(T)'
  BY <1>1 DEF ArchivesOf
<1>. QED BY <1>3, <1>7, <1>8, <1>9 DEF n

LEMMA Kinds ==
  /\ \A i : Archive(i).choice = "archive" /\ Archive(i).cid = i
  /\ \A c : Create(c).choice = "create" /\ Create(c).payload = c
  /\ \A i, j : Archive(i) = Archive(j) => i = j
  /\ \A c, d : Create(c) = Create(d) => c = d
  /\ \A i, c : Archive(i) # Create(c)
  /\ \A q, r : Row(q) = Row(r) => q = r
  /\ \A r : Row(r) # Limit /\ Row(r).type = "obligation" /\ Row(r).ref = r
  /\ Limit.type = "limit" /\ Limit \in Contract /\ \A r \in Reference : Row(r) \in Contract
<1>1. /\ \A i : Archive(i).choice = "archive" /\ Archive(i).cid = i
      /\ \A c : Create(c).choice = "create" /\ Create(c).payload = c
  BY DEF Archive, Create
<1>2. /\ \A r : Row(r).type = "obligation" /\ Row(r).ref = r
      /\ Limit.type = "limit"
  BY DEF Row, Limit
<1>3. Limit \in Contract /\ \A r \in Reference : Row(r) \in Contract
  BY DEF Limit, Row, Contract
<1>4. /\ \A i, j : Archive(i) = Archive(j) => i = j
      /\ \A c, d : Create(c) = Create(d) => c = d
      /\ \A i, c : Archive(i) # Create(c)
  BY <1>1
<1>5. (\A q, r : Row(q) = Row(r) => q = r) /\ \A r : Row(r) # Limit
  BY <1>2
<1>. QED BY <1>1, <1>2, <1>3, <1>4, <1>5

\* The plan of a process that has written its first write.
LEMMA FirstAndRest ==
  ASSUME NEW X, NEW s \in Seq(X), s # <<>>
  PROVE  /\ Head(s) \in Range(s) /\ Range(Tail(s)) \subseteq Range(s)
         /\ Len(s) <= 1 => Tail(s) = <<>>
         /\ \A L : EachOnce(s, L) => /\ EachOnce(Tail(s), L \union {Head(s)})
                                     /\ Head(s) \in NewRows => Head(s) \notin L \union Range(Tail(s))
<1>1. /\ 1 \in DOMAIN s /\ Head(s) = s[1] /\ Tail(s) \in Seq(X)
      /\ \A n \in DOMAIN Tail(s) : n + 1 \in DOMAIN s /\ n + 1 # 1 /\ n \in Nat /\ Tail(s)[n] = s[n + 1]
  OBVIOUS
<1>2. Head(s) \in Range(s) /\ Range(Tail(s)) \subseteq Range(s)
  BY <1>1 DEF Range
<1>3. Len(s) <= 1 => Tail(s) = <<>>
  OBVIOUS
<1>4. ASSUME NEW L, EachOnce(s, L)
      PROVE  /\ EachOnce(Tail(s), L \union {Head(s)})
             /\ Head(s) \in NewRows => Head(s) \notin L \union Range(Tail(s))
  <2>1. ASSUME NEW n \in DOMAIN Tail(s), Tail(s)[n] \in NewRows
        PROVE  Tail(s)[n] \notin L /\ Tail(s)[n] # Head(s)
    BY <1>1, <1>4, <2>1 DEF EachOnce
  <2>2. ASSUME NEW n \in DOMAIN Tail(s), Tail(s)[n] \in NewRows,
               NEW m \in DOMAIN Tail(s), Tail(s)[m] = Tail(s)[n]
        PROVE  m = n
    <3>1. m + 1 = n + 1
      BY <1>1, <1>4, <2>2 DEF EachOnce
    <3>. QED BY <1>1, <3>1
  <2>3. Head(s) \in NewRows => Head(s) \notin L
    BY <1>1, <1>4 DEF EachOnce
  <2>4. Head(s) \in NewRows => Head(s) \notin Range(Tail(s))
    BY <2>1 DEF Range
  <2>. QED BY <2>1, <2>2, <2>3, <2>4 DEF EachOnce
<1>. QED BY <1>2, <1>3, <1>4

LEMMA EachOnceWithin ==
  ASSUME NEW s, NEW L, NEW M, EachOnce(s, L), M \intersect NewRows \subseteq L
  PROVE  EachOnce(s, M)
  BY DEF EachOnce

LEMMA NothingPlanned == Range(<<>>) = {} /\ \A L : EachOnce(<<>>, L)
  BY DEF Range, EachOnce

LEMMA Joined ==
  ASSUME NEW W, NEW a \in Seq(W), NEW b \in Seq(W)
  PROVE  /\ a \o b \in Seq(W) /\ Len(a \o b) = Len(a) + Len(b)
         /\ \A i \in 1..Len(a) : (a \o b)[i] = a[i]
         /\ \A i \in 1..Len(b) : (a \o b)[Len(a) + i] = b[i]
  OBVIOUS

LEMMA Queries ==
  /\ DOMAIN Program = {"seed", "reset"}
  /\ Len(Program["seed"]) = 10 /\ Len(Program["reset"]) = 6
  /\ Program["seed"][1] = "read limits" /\ Program["seed"][2] = "verify limits"
  /\ Program["seed"][3] = "read obligations" /\ Program["seed"][4] = "read batches"
  /\ Program["seed"][5] = "sweep" /\ Program["seed"][6] = "create" /\ Program["seed"][7] = "sweep"
  /\ Program["seed"][8] = "verify obligations" /\ Program["seed"][9] = "verify batches"
  /\ Program["seed"][10] = "agree"
  /\ Program["reset"][1] = "read obligations" /\ Program["reset"][2] = "read batches"
  /\ Program["reset"][3] = "verify obligations" /\ Program["reset"][4] = "verify batches"
  /\ Program["reset"][5] = "read limits" /\ Program["reset"][6] = "verify limits"
<1>. DEFINE W == {"read limits", "verify limits", "read obligations", "read batches", "sweep",
                  "create", "verify obligations", "verify batches", "agree"}
            First == ClearingLimits \o Seeding
            S == First \o <<"agree">>
            R == ClearingBook \o ClearingLimits
<1>1. DOMAIN Program = {"seed", "reset"} /\ Program["seed"] = S /\ Program["reset"] = R
  BY DEF Program
<1>2. Len(ClearingLimits) = 2 /\ Len(Seeding) = 7 /\ Len(ClearingBook) = 4
  BY DEF ClearingLimits, Seeding, ClearingBook
<1>3. ClearingLimits \in Seq(W) /\ Seeding \in Seq(W) /\ ClearingBook \in Seq(W)
  BY DEF ClearingLimits, Seeding, ClearingBook
<1>4. Len(<<"agree">>) = 1 /\ <<"agree">>[1] = "agree"
  OBVIOUS
<1>5. <<"agree">> \in Seq(W)
  OBVIOUS
<1>6. /\ ClearingLimits[1] = "read limits" /\ ClearingLimits[2] = "verify limits"
      /\ Seeding[1] = "read obligations" /\ Seeding[2] = "read batches" /\ Seeding[3] = "sweep"
      /\ Seeding[4] = "create" /\ Seeding[5] = "sweep"
      /\ Seeding[6] = "verify obligations" /\ Seeding[7] = "verify batches"
      /\ ClearingBook[1] = "read obligations" /\ ClearingBook[2] = "read batches"
      /\ ClearingBook[3] = "verify obligations" /\ ClearingBook[4] = "verify batches"
  BY DEF ClearingLimits, Seeding, ClearingBook
<1>. HIDE DEF W
<1>7. /\ First \in Seq(W) /\ Len(First) = Len(ClearingLimits) + Len(Seeding)
      /\ \A i \in 1..Len(ClearingLimits) : First[i] = ClearingLimits[i]
      /\ \A i \in 1..Len(Seeding) : First[Len(ClearingLimits) + i] = Seeding[i]
  BY <1>3, Joined
<1>. HIDE DEF First
<1>8. /\ Len(S) = Len(First) + Len(<<"agree">>) /\ \A i \in 1..Len(First) : S[i] = First[i]
      /\ \A i \in 1..Len(<<"agree">>) : S[Len(First) + i] = <<"agree">>[i]
  BY <1>5, <1>7, Joined
<1>9. /\ Len(R) = Len(ClearingBook) + Len(ClearingLimits)
      /\ \A i \in 1..Len(ClearingBook) : R[i] = ClearingBook[i]
      /\ \A i \in 1..Len(ClearingLimits) : R[Len(ClearingBook) + i] = ClearingLimits[i]
  BY <1>3, Joined
<1>. HIDE DEF S, R
<1>10. /\ First[1] = ClearingLimits[1] /\ First[2] = ClearingLimits[2]
       /\ First[3] = Seeding[1] /\ First[4] = Seeding[2] /\ First[5] = Seeding[3]
       /\ First[6] = Seeding[4] /\ First[7] = Seeding[5] /\ First[8] = Seeding[6] /\ First[9] = Seeding[7]
       /\ Len(First) = 9
  BY <1>2, <1>7
<1>11. /\ S[1] = First[1] /\ S[2] = First[2] /\ S[3] = First[3] /\ S[4] = First[4] /\ S[5] = First[5]
       /\ S[6] = First[6] /\ S[7] = First[7] /\ S[8] = First[8] /\ S[9] = First[9]
       /\ S[10] = <<"agree">>[1] /\ Len(S) = 10
  BY <1>4, <1>8, <1>10
<1>12. /\ R[1] = ClearingBook[1] /\ R[2] = ClearingBook[2] /\ R[3] = ClearingBook[3]
       /\ R[4] = ClearingBook[4] /\ R[5] = ClearingLimits[1] /\ R[6] = ClearingLimits[2] /\ Len(R) = 6
  BY <1>2, <1>9
<1>13. /\ S[1] = "read limits" /\ S[2] = "verify limits" /\ S[3] = "read obligations"
       /\ S[4] = "read batches" /\ S[5] = "sweep" /\ S[6] = "create" /\ S[7] = "sweep"
       /\ S[8] = "verify obligations" /\ S[9] = "verify batches" /\ S[10] = "agree"
  BY <1>4, <1>6, <1>10, <1>11
<1>14. /\ R[1] = "read obligations" /\ R[2] = "read batches" /\ R[3] = "verify obligations"
       /\ R[4] = "verify batches" /\ R[5] = "read limits" /\ R[6] = "verify limits"
  BY <1>6, <1>12
<1>. QED BY <1>1, <1>11, <1>12, <1>13, <1>14, ZenonT(60)

-----------------------------------------------------------------------------
(* A write of a process that is alone, and what is late, leave it clean.     *)

LEMMA RowsStay ==
  ASSUME NEW p, RowsAreMissing(p), EachOnce(todo'[p], late'),
         (late' \union Range(todo'[p])) \intersect NewRows \subseteq late \union Range(todo[p]),
         \A r \in Missing : Create(Row(r)) \in late' \union Range(todo'[p]) => r \in Missing'
  PROVE  RowsAreMissing(p)'
<1>1. \A r \in Reference : Create(Row(r)) \in NewRows
  BY DEF NewRows
<1>. QED BY <1>1 DEF RowsAreMissing

LEMMA ArchivalsOf ==
  ASSUME NEW T, NEW w \in ArchivesOf(T)
  PROVE  /\ \E i \in DOMAIN made : w = Archive(i) /\ made[i].type \in T
         /\ w \notin NewRows /\ w # Create(Limit)
  BY Kinds DEF ArchivesOf, NewRows

LEMMA LateSeed ==
  ASSUME SeedTypeOK, NEW p \in Process, SeedClean(p), NEW w \in late, Commit(w),
         late' = late \ {w}, todo' = todo, step' = step
  PROVE  SeedClean(p)'
<1>1. EachOnce(todo'[p], late')
  BY EachOnceWithin DEF SeedClean, RowsAreMissing
<1>2. CASE w \in LateLimits(step[p] > 2)
  <2>1. PICK i \in DOMAIN made : w = Archive(i) /\ (step[p] > 2 => i \notin live)
    BY <1>2, ArchivalsOf, Kinds DEF LateLimits
  <2>2. i \in live /\ live' = live \ {i} /\ made' = made
    BY <2>1, ArchiveCommits
  <2>3. ~(step[p] > 2) /\ step[p] \in 1..11
    BY <2>1, <2>2 DEF SeedClean
  <2>4. Missing \subseteq Missing' /\ \A T : ArchivesOf(T)' = ArchivesOf(T)
    BY <2>2, AfterArchive
  <2>5. RowsAreMissing(p)'
    BY <1>1, <2>4, RowsStay DEF SeedClean
  <2>6. \A v \in late' : v \in LateLimits(step[p] > 2)'
    BY <2>2, <2>3, <2>4 DEF SeedClean, LateLimits
  <2>. QED BY <2>3, <2>4, <2>5, <2>6 DEF SeedClean
<1>3. CASE step[p] \in {7, 8} /\ w \in NewRows
  <2>1. PICK r \in Reference : w = Create(Row(r))
    BY <1>3 DEF NewRows
  <2>2. Row(r) \in Contract /\ Commit(Create(Row(r)))
    BY <2>1, Kinds
  <2>3. /\ Live("limit")' = Live("limit")
        /\ \A q \in Missing : r # q => q \in Missing'
        /\ \A T : ArchivesOf(T) \subseteq ArchivesOf(T)'
    BY <2>2, AfterCreate, Kinds
  <2>4. live' = live \union {Len(made) + 1}
    BY <2>2, CreateCommits
  <2>5. \A v \in ArchivesOf({"limit"}) : v.cid # Len(made) + 1
    BY ArchivalsOf, IdsOfMade, Kinds
  <2>6. w \notin late' /\ w \notin Range(todo'[p])
    BY <1>3 DEF SeedClean, RowsAreMissing, EachOnce, Range
  <2>7. RowsAreMissing(p)'
    BY <1>1, <2>1, <2>3, <2>6, RowsStay DEF SeedClean
  <2>8. \A v \in late' : v \in LateLimits(step[p] > 2) => v \in LateLimits(step[p] > 2)'
    BY <2>3, <2>4, <2>5 DEF LateLimits
  <2>9. \A v \in late' : v \in LateLimits(step[p] > 2)' \/ (step[p] \in {7, 8} /\ v \in NewRows)
    <3>1. \A v \in late : v \in LateLimits(step[p] > 2) \/ (step[p] \in {7, 8} /\ v \in NewRows)
      BY DEF SeedClean
    <3>. QED BY <2>8, <3>1
  <2>10. \A v \in Range(todo[p]) : \/ step[p] \in {4, 5, 6, 8} /\ v \in ArchivesOf({"obligation", "batch"})'
                                   \/ step[p] = 7 /\ v \in NewRows
    BY <1>3, <2>3 DEF SeedClean
  <2>11. Live("limit")' = {}
    BY <1>3, <2>3 DEF SeedClean
  <2>. QED BY <1>3, <2>7, <2>9, <2>10, <2>11 DEF SeedClean
<1>. QED BY <1>2, <1>3 DEF SeedClean

\* The plan after its first write, whatever became of that.
LEMMA RestOfPlan ==
  ASSUME SeedTypeOK, NEW p \in Process, Writing(p)
  PROVE  /\ todo[p] # <<>> /\ step' = step
         /\ Head(todo[p]) \in Range(todo[p]) /\ Range(todo'[p]) \subseteq Range(todo[p])
         /\ Len(todo[p]) <= 1 => todo'[p] = <<>>
         /\ Len(todo'[p]) <= Len(todo[p])
         /\ RowsAreMissing(p) =>
              /\ EachOnce(todo'[p], late \union {Head(todo[p])})
              /\ Head(todo[p]) \in NewRows => Head(todo[p]) \notin late \union Range(todo'[p])
<1>. DEFINE h == Head(todo[p])
<1>1. todo[p] # <<>> /\ todo'[p] = Tail(todo[p]) /\ step' = step
  BY DEF Writing, SeedTypeOK
<1>2. todo[p] \in Seq(Write)
  BY DEF SeedTypeOK
<1>3. /\ h \in Range(todo[p]) /\ Range(Tail(todo[p])) \subseteq Range(todo[p])
      /\ Len(todo[p]) <= 1 => Tail(todo[p]) = <<>>
  BY <1>1, <1>2, FirstAndRest
<1>4. Len(Tail(todo[p])) <= Len(todo[p])
  BY <1>1, <1>2
<1>5. EachOnce(todo[p], late) =>
        /\ EachOnce(Tail(todo[p]), late \union {h})
        /\ h \in NewRows => h \notin late \union Range(Tail(todo[p]))
  BY <1>1, <1>2, FirstAndRest
<1>. HIDE DEF h
<1>6. RowsAreMissing(p) => EachOnce(todo[p], late)
  BY DEF RowsAreMissing
<1>. QED BY <1>1, <1>3, <1>4, <1>5, <1>6 DEF h

LEMMA HeadOfSeed ==
  ASSUME SeedTypeOK, NEW p \in Process, SeedClean(p), Writing(p), Commit(Head(todo[p])), late' = late
  PROVE  SeedClean(p)'
<1>. DEFINE h == Head(todo[p])
<1>1. todo[p] # <<>> /\ step' = step
  BY RestOfPlan
<1>2. /\ h \in Range(todo[p]) /\ Range(todo'[p]) \subseteq Range(todo[p])
      /\ Len(todo[p]) <= 1 => todo'[p] = <<>>
      /\ Len(todo'[p]) <= Len(todo[p])
      /\ EachOnce(todo'[p], late \union {h})
      /\ h \in NewRows => h \notin late \union Range(todo'[p])
  BY RestOfPlan DEF SeedClean
<1>3. EachOnce(todo'[p], late')
  BY <1>2, EachOnceWithin
<1>. HIDE DEF h
<1>4. \/ step[p] = 2 /\ h \in ArchivesOf({"limit"})
      \/ step[p] \in {4, 5, 6, 8} /\ h \in ArchivesOf({"obligation", "batch"})
      \/ step[p] = 7 /\ h \in NewRows
      \/ step[p] = 11 /\ h = Create(Limit)
  BY <1>2 DEF SeedClean
<1>5. \A v \in Range(todo'[p]) :
         \/ step[p] = 2 /\ v \in ArchivesOf({"limit"})
         \/ step[p] \in {4, 5, 6, 8} /\ v \in ArchivesOf({"obligation", "batch"})
         \/ step[p] = 7 /\ v \in NewRows
         \/ step[p] = 11 /\ v = Create(Limit)
  BY <1>2 DEF SeedClean
<1>6. ASSUME NEW T, h \in ArchivesOf(T), step[p] \in {2, 4, 5, 6, 8} PROVE SeedClean(p)'
  <2>1. PICK i \in DOMAIN made : h = Archive(i)
    BY <1>6, ArchivalsOf
  <2>2. live' = live \ {i} /\ made' = made
    BY <2>1, ArchiveCommits DEF h
  <2>3. /\ Missing \subseteq Missing' /\ \A U : ArchivesOf(U)' = ArchivesOf(U)
        /\ Live("limit")' = Live("limit") \ {i}
    BY <2>2, AfterArchive
  <2>4. RowsAreMissing(p)'
    BY <1>2, <1>3, <2>3, RowsStay DEF SeedClean
  <2>5. \A v \in late' : v \in LateLimits(step[p] > 2) => v \in LateLimits(step[p] > 2)'
    BY <1>1, <2>2, <2>3 DEF LateLimits
  <2>6. \A v \in late' : v \in LateLimits(step[p] > 2)' \/ (step[p] \in {7, 8} /\ v \in NewRows)
    BY <2>5 DEF SeedClean
  <2>7. step[p] > 2 => Live("limit")' = {}
    BY <1>6, <2>3 DEF SeedClean
  <2>. QED BY <1>1, <1>5, <1>6, <2>3, <2>4, <2>6, <2>7 DEF SeedClean
<1>7. CASE step[p] = 7 /\ h \in NewRows
  <2>1. PICK r \in Reference : h = Create(Row(r))
    BY <1>7 DEF NewRows
  <2>2. Row(r) \in Contract /\ Commit(Create(Row(r)))
    BY <2>1, Kinds DEF h
  <2>3. /\ Live("limit")' = Live("limit")
        /\ \A q \in Missing : r # q => q \in Missing'
        /\ \A T : ArchivesOf(T) \subseteq ArchivesOf(T)'
    BY <2>2, AfterCreate, Kinds
  <2>4. live' = live \union {Len(made) + 1}
    BY <2>2, CreateCommits
  <2>5. \A v \in ArchivesOf({"limit"}) : v.cid # Len(made) + 1
    BY ArchivalsOf, IdsOfMade, Kinds
  <2>6. RowsAreMissing(p)'
    BY <1>2, <1>3, <1>7, <2>1, <2>3, RowsStay DEF SeedClean
  <2>7. \A v \in late' : v \in LateLimits(step[p] > 2) => v \in LateLimits(step[p] > 2)'
    BY <1>1, <2>3, <2>4, <2>5 DEF LateLimits
  <2>8. \A v \in late' : v \in LateLimits(step[p] > 2)' \/ (step[p] \in {7, 8} /\ v \in NewRows)
    BY <2>7 DEF SeedClean
  <2>9. Live("limit")' = {}
    BY <1>7, <2>3 DEF SeedClean
  <2>10. \A v \in Range(todo'[p]) : step[p] = 7 /\ v \in NewRows
    BY <1>5, <1>7
  <2>. QED BY <1>1, <1>7, <2>6, <2>8, <2>9, <2>10 DEF SeedClean
<1>8. CASE step[p] = 11 /\ h = Create(Limit)
  <2>. DEFINE n == Len(made) + 1
  <2>1. Limit \in Contract /\ Commit(Create(Limit)) /\ Limit.type = "limit"
    BY <1>8, Kinds DEF h
  <2>2. /\ Live("limit")' = Live("limit") \union {n} /\ Live("batch")' = Live("batch")
        /\ Missing' = Missing /\ (Exact => Exact')
        /\ \A T : ArchivesOf(T) \subseteq ArchivesOf(T)'
    BY <2>1, AfterCreate
  <2>3. live' = live \union {n}
    BY <2>1, CreateCommits
  <2>4. \A v \in ArchivesOf({"limit"}) : v.cid # n
    BY ArchivalsOf, IdsOfMade, Kinds
  <2>. HIDE DEF n
  <2>5. RowsAreMissing(p)'
    BY <1>2, <1>3, <2>2, RowsStay DEF SeedClean
  <2>6. \A v \in late' : v \in LateLimits(step[p] > 2) => v \in LateLimits(step[p] > 2)'
    BY <1>1, <2>2, <2>3, <2>4 DEF LateLimits
  <2>7. \A v \in late' : v \in LateLimits(step[p] > 2)'
    BY <1>8, <2>6 DEF SeedClean
  <2>8. todo'[p] = <<>> /\ Len(todo'[p]) <= 1 /\ Live("limit") = {} /\ Exact /\ Live("batch") = {}
    BY <1>1, <1>2, <1>8 DEF SeedClean
  <2>9. \E i \in live' : Live("limit")' = {i}
    BY <2>2, <2>3, <2>8
  <2>. QED BY <1>1, <1>5, <1>8, <2>2, <2>5, <2>7, <2>8, <2>9 DEF SeedClean
<1>. QED BY <1>4, <1>6, <1>7, <1>8

LEMMA SameLedger ==
  ASSUME made' = made, live' = live
  PROVE  /\ \A t : Live(t)' = Live(t)
         /\ Book' = Book /\ Missing' = Missing /\ (Exact => Exact')
         /\ \A T : ArchivesOf(T)' = ArchivesOf(T)
         /\ \A v : LateLimits(v)' = LateLimits(v)
<1>1. \A t : Live(t)' = Live(t)
  BY DEF Live
<1>2. Book' = Book /\ \A r : Copies(r)' = Copies(r)
  BY <1>1 DEF Book, Copies
<1>3. Missing' = Missing /\ (Exact => Exact')
  BY <1>2 DEF Missing, Exact, Matches
<1>4. \A T : ArchivesOf(T)' = ArchivesOf(T)
  BY DEF ArchivesOf
<1>5. \A v : LateLimits(v)' = LateLimits(v)
  BY <1>4 DEF LateLimits
<1>. QED BY <1>1, <1>2, <1>3, <1>4, <1>5

\* A write that is lost or refused without an error in the report archives a
\* limit, or creates a row there was another copy of.
LEMMA QuietLoss ==
  ASSUME NEW h, ClearsLimit(h) \/ Reconciled(h)
  PROVE  /\ h # Create(Limit)
         /\ \A T : h \in ArchivesOf(T) => "limit" \in T
<1>1. h # Create(Limit)
  BY Kinds DEF ClearsLimit, Reconciled
<1>2. ASSUME NEW T, h \in ArchivesOf(T) PROVE "limit" \in T
  <2>1. PICK i \in DOMAIN made : h = Archive(i) /\ made[i].type \in T
    BY <1>2, ArchivalsOf
  <2>2. h.choice = "archive" /\ h.cid = i
    BY <2>1, Kinds
  <2>3. made[i].type = "limit"
    BY <2>2 DEF ClearsLimit, Reconciled
  <2>. QED BY <2>1, <2>3
<1>. QED BY <1>1, <1>2

\* The first write of the plan is late from now on, or refused for good.
LEMMA HeadOfSeedLost ==
  ASSUME SeedTypeOK, NEW p \in Process, SeedClean(p), Writing(p), made' = made, live' = live,
         \/ late' = late \union {Head(todo[p])}
         \/ late' = late,
         ClearsLimit(Head(todo[p])) \/ Reconciled(Head(todo[p]))
  PROVE  SeedClean(p)'
<1>. DEFINE h == Head(todo[p])
<1>1. step' = step
  BY RestOfPlan
<1>2. /\ h \in Range(todo[p]) /\ Range(todo'[p]) \subseteq Range(todo[p])
      /\ Len(todo[p]) <= 1 => todo'[p] = <<>>
      /\ Len(todo'[p]) <= Len(todo[p])
      /\ EachOnce(todo'[p], late \union {h})
  BY RestOfPlan DEF SeedClean
<1>3. /\ \A t : Live(t)' = Live(t)
      /\ Missing' = Missing /\ (Exact => Exact')
      /\ \A T : ArchivesOf(T)' = ArchivesOf(T)
      /\ \A v : LateLimits(v)' = LateLimits(v)
  BY SameLedger
<1>4. h # Create(Limit) /\ \A T : h \in ArchivesOf(T) => "limit" \in T
  BY QuietLoss
<1>5. late' \subseteq late \union {h}
  OBVIOUS
<1>. HIDE DEF h
<1>6. \/ step[p] = 2 /\ h \in ArchivesOf({"limit"})
      \/ step[p] = 7 /\ h \in NewRows
  BY <1>2, <1>4 DEF SeedClean
<1>7. \A v \in Range(todo'[p]) : \/ step[p] = 2 /\ v \in ArchivesOf({"limit"})
                                 \/ step[p] = 7 /\ v \in NewRows
  BY <1>2, <1>6 DEF SeedClean
<1>8. RowsAreMissing(p)'
  <2>1. EachOnce(todo'[p], late')
    BY <1>2, <1>5, EachOnceWithin
  <2>. QED BY <1>2, <1>3, <1>5, <2>1, RowsStay DEF SeedClean
<1>9. \A v \in late' : v \in LateLimits(step[p] > 2) \/ (step[p] \in {7, 8} /\ v \in NewRows)
  <2>1. h \in LateLimits(step[p] > 2) \/ (step[p] \in {7, 8} /\ h \in NewRows)
    BY <1>6 DEF LateLimits
  <2>. QED BY <1>5, <2>1 DEF SeedClean
<1>10. step[p] > 2 => Live("limit") = {}
  BY <1>6 DEF SeedClean
<1>. QED BY <1>1, <1>3, <1>6, <1>7, <1>8, <1>9, <1>10 DEF SeedClean

\* A reset only archives, so what it has verified stays as it was.
LEMMA LateReset ==
  ASSUME NEW p \in Process, ResetClean(p), NEW w \in late, Commit(w),
         late' = late \ {w}, todo' = todo, step' = step
  PROVE  ResetClean(p)'
<1>1. PICK i \in DOMAIN made : w = Archive(i)
  BY ArchivalsOf DEF ResetClean
<1>2. live' = live \ {i} /\ made' = made
  BY <1>1, ArchiveCommits
<1>3. /\ \A t : Live(t)' = Live(t) \ {i} /\ \A T : ArchivesOf(T)' = ArchivesOf(T)
      /\ Book' = Book \ {i}
  BY <1>2, AfterArchive
<1>. QED BY <1>3 DEF ResetClean

LEMMA HeadOfReset ==
  ASSUME SeedTypeOK, NEW p \in Process, ResetClean(p), Writing(p), Commit(Head(todo[p])), late' = late
  PROVE  ResetClean(p)'
<1>. DEFINE h == Head(todo[p])
<1>1. /\ h \in Range(todo[p]) /\ Range(todo'[p]) \subseteq Range(todo[p]) /\ step' = step
  BY RestOfPlan
<1>2. PICK i \in DOMAIN made : h = Archive(i)
  BY <1>1, ArchivalsOf DEF ResetClean
<1>3. live' = live \ {i} /\ made' = made
  BY <1>2, ArchiveCommits
<1>4. /\ \A t : Live(t)' = Live(t) \ {i} /\ \A T : ArchivesOf(T)' = ArchivesOf(T)
      /\ Book' = Book \ {i}
  BY <1>3, AfterArchive
<1>. QED BY <1>1, <1>4 DEF ResetClean

LEMMA HeadOfResetLost ==
  ASSUME SeedTypeOK, NEW p \in Process, ResetClean(p), Writing(p), made' = made, live' = live,
         \/ late' = late \union {Head(todo[p])}
         \/ late' = late,
         ClearsLimit(Head(todo[p])) \/ Reconciled(Head(todo[p]))
  PROVE  ResetClean(p)'
<1>. DEFINE h == Head(todo[p])
<1>1. /\ h \in Range(todo[p]) /\ Range(todo'[p]) \subseteq Range(todo[p]) /\ step' = step
  BY RestOfPlan
<1>2. /\ \A t : Live(t)' = Live(t) /\ \A T : ArchivesOf(T)' = ArchivesOf(T)
      /\ Book' = Book
  BY SameLedger
<1>3. \A T : h \in ArchivesOf(T) => "limit" \in T
  BY QuietLoss
<1>4. h \in ArchivesOf({"limit"})
  BY <1>1, <1>3 DEF ResetClean
<1>. HIDE DEF h
<1>5. late' \subseteq late \union {h}
  BY DEF h
<1>. QED BY <1>1, <1>2, <1>4, <1>5 DEF ResetClean

-----------------------------------------------------------------------------
(* A query of a process that is alone plans and verifies.                    *)

\* The plan over contracts of some types archives contracts of these types.
LEMMA ArchivesOfTypes ==
  ASSUME SeedTypeOK, NEW S \in SUBSET live, NEW T, \A i \in S : made[i].type \in T
  PROVE  Archives(S) \in Seq(ArchivesOf(T))
<1>1. DOMAIN made = 1..Len(made) /\ Len(made) \in Nat /\ live \subseteq DOMAIN made
  BY IdsOfMade
<1>2. IsFiniteSet(1..Len(made)) /\ 1..Len(made) \subseteq Nat
  BY <1>1, FS_Interval
<1>3. IsFiniteSet(S) /\ S \subseteq Nat
  BY <1>1, <1>2, FS_Subset
<1>4. Archives(S) \in Seq({Archive(i) : i \in S})
  BY <1>3, ArchivesInside
<1>5. {Archive(i) : i \in S} \subseteq ArchivesOf(T)
  BY <1>1 DEF ArchivesOf
<1>. QED BY <1>4, <1>5

LEMMA RangeInside ==
  ASSUME NEW S, NEW s \in Seq(S)
  PROVE  Range(s) \subseteq S
  BY DEF Range

LEMMA RangeJoined ==
  ASSUME NEW S, NEW s \in Seq(S), NEW t \in Seq(S)
  PROVE  Range(s \o t) \subseteq S
<1>1. s \o t \in Seq(S)
  OBVIOUS
<1>. QED BY <1>1, RangeInside

LEMMA RangeOfJoined ==
  ASSUME NEW S, NEW s \in Seq(S), NEW t \in Seq(S)
  PROVE  Range(s \o t) \subseteq Range(s) \union Range(t)
<1>1. \A i \in DOMAIN (s \o t) :
         \/ i \in DOMAIN s /\ (s \o t)[i] = s[i]
         \/ i - Len(s) \in DOMAIN t /\ (s \o t)[i] = t[i - Len(s)]
  OBVIOUS
<1>. QED BY <1>1 DEF Range

LEMMA PlanOf ==
  /\ Planned("read obligations") = Archives(Book)
  /\ Planned("read batches") = Archives(Live("batch"))
  /\ Planned("read limits") = Archives(Live("limit"))
  /\ Planned("sweep") = Archives(Book \ Kept)
  /\ Planned("create") = Creates(Missing)
  /\ Planned("agree") = <<Create(Limit)>>
  /\ Planned("verify obligations") = <<>> /\ Planned("verify batches") = <<>>
  /\ Planned("verify limits") = <<>>
  BY DEF Planned

LEMMA VerifiedIs ==
  ASSUME NEW p
  PROVE  /\ Verified(p, "verify obligations") => IF kind[p] = "seed" THEN Exact ELSE Book = {}
         /\ Verified(p, "verify batches") => Live("batch") = {}
         /\ Verified(p, "verify limits") => Live("limit") = {}
  BY DEF Verified

\* What is exact misses nothing.
LEMMA ExactIsComplete ==
  ASSUME Exact
  PROVE  Missing = {}
<1>. SUFFICES ASSUME NEW r \in Missing PROVE FALSE
  OBVIOUS
<1>1. Cardinality(Copies(r)) = 1
  BY DEF Exact, Missing
<1>2. Copies(r) # {}
  BY <1>1, FS_EmptySet
<1>. QED BY <1>2 DEF Missing, Copies, Exact

\* The plan that a query leads to, if it leads to no creation of rows.
LEMMA NoRowsPlanned ==
  ASSUME NEW p, RowsAreMissing(p), made' = made, live' = live, late' = late,
         Range(todo'[p]) \intersect NewRows = {}
  PROVE  RowsAreMissing(p)'
<1>1. EachOnce(todo'[p], late')
  BY DEF EachOnce, Range
<1>2. Missing' = Missing
  BY SameLedger
<1>. QED BY <1>1, <1>2, RowsStay

LEMMA ReadsOf ==
  ASSUME SeedTypeOK, NEW p \in Process, Reads(p)
  PROVE  /\ made' = made /\ live' = live /\ late' = late /\ kind' = kind
         /\ kind[p] \in DOMAIN Program /\ step[p] <= Len(Program[kind[p]]) /\ step'[p] = step[p] + 1
         /\ todo'[p] = todo[p] \o Planned(Query(p))
         /\ todo[p] = <<>> \/ Query(p) = "read batches"
         /\ todo[p] = <<>> => todo'[p] = Planned(Query(p))
         /\ todo[p] \in Seq(Write) /\ Planned(Query(p)) \in Seq(Write)
<1>1. todo[p] \in Seq(Write) /\ Planned(Query(p)) \in Seq(Write)
  BY PlannedType DEF SeedTypeOK
<1>2. todo'[p] = todo[p] \o Planned(Query(p))
  BY DEF Reads, SeedTypeOK
<1>3. todo[p] = <<>> => todo'[p] = Planned(Query(p))
  BY <1>1, <1>2
<1>4. step'[p] = step[p] + 1
  BY DEF Reads, SeedTypeOK
<1>. QED BY <1>1, <1>2, <1>3, <1>4 DEF Reads, Running, Active

LEMMA SeedReads ==
  ASSUME SeedTypeOK, NEW p \in Process, kind[p] = "seed", SeedClean(p),
         Reads(p), Verified(p, Query(p))
  PROVE  SeedClean(p)'
<1>1. /\ made' = made /\ live' = live /\ late' = late
      /\ step[p] \in 1..10 /\ step'[p] = step[p] + 1
      /\ Query(p) = Program["seed"][step[p]]
  <2>1. /\ made' = made /\ live' = live /\ late' = late
        /\ step[p] <= Len(Program[kind[p]]) /\ step'[p] = step[p] + 1
    BY ReadsOf
  <2>2. Len(Program[kind[p]]) = 10
    BY Queries
  <2>3. step[p] \in 1..11
    BY DEF SeedClean
  <2>4. Query(p) = Program["seed"][step[p]]
    BY DEF Query
  <2>. QED BY <2>1, <2>2, <2>3, <2>4
<1>2. step[p] \in {1, 2, 3, 4, 5, 6, 7, 8, 9, 10}
  BY <1>1
<1>3. /\ step[p] = 1 => Query(p) = "read limits"
      /\ step[p] = 2 => Query(p) = "verify limits"
      /\ step[p] = 3 => Query(p) = "read obligations"
      /\ step[p] = 4 => Query(p) = "read batches"
      /\ step[p] \in {5, 7} => Query(p) = "sweep"
      /\ step[p] = 6 => Query(p) = "create"
      /\ step[p] = 8 => Query(p) = "verify obligations"
      /\ step[p] = 9 => Query(p) = "verify batches"
      /\ step[p] = 10 => Query(p) = "agree"
  BY <1>1, Queries
<1>4. /\ \A t : Live(t)' = Live(t)
      /\ Missing' = Missing /\ (Exact => Exact')
      /\ \A T : ArchivesOf(T)' = ArchivesOf(T)
      /\ \A v : LateLimits(v)' = LateLimits(v)
  BY <1>1, SameLedger
<1>5. \A v \in late : v \in LateLimits(step[p] > 2) \/ (step[p] \in {7, 8} /\ v \in NewRows)
  BY DEF SeedClean
<1>6. RowsAreMissing(p) /\ \A T : ArchivesOf(T) \intersect NewRows = {}
  BY ArchivalsOf DEF SeedClean
<1>7. ASSUME step[p] # 4
      PROVE  todo[p] = <<>> /\ todo'[p] = Planned(Query(p))
  <2>1. Query(p) # "read batches"
    BY <1>7, <1>2, <1>3
  <2>. QED BY <2>1, ReadsOf
<1>8. ASSUME NEW T, Range(todo'[p]) \subseteq ArchivesOf(T) PROVE RowsAreMissing(p)'
  BY <1>1, <1>6, <1>8, NoRowsPlanned
<1>9. ASSUME todo'[p] = <<>> PROVE Range(todo'[p]) = {} /\ RowsAreMissing(p)' /\ Len(todo'[p]) = 0
  <2>1. Range(todo'[p]) = {}
    BY <1>9, NothingPlanned
  <2>2. Len(<<>>) = 0
    OBVIOUS
  <2>. QED BY <1>1, <1>6, <1>9, <2>1, <2>2, NoRowsPlanned
<1>10. CASE step[p] = 1
  <2>1. todo'[p] = Archives(Live("limit"))
    BY <1>7, <1>3, <1>10, PlanOf
  <2>2. Live("limit") \in SUBSET live /\ \A i \in Live("limit") : made[i].type \in {"limit"}
    BY DEF Live
  <2>3. Range(todo'[p]) \subseteq ArchivesOf({"limit"})
    BY <2>1, <2>2, ArchivesOfTypes, RangeInside
  <2>4. RowsAreMissing(p)'
    BY <1>8, <2>3
  <2>5. step'[p] = 2
    BY <1>1, <1>10
  <2>6. \A v \in late : v \in LateLimits(2 > 2)
    BY <1>5, <1>10 DEF LateLimits
  <2>. QED BY <1>1, <1>4, <2>3, <2>4, <2>5, <2>6 DEF SeedClean
<1>11. CASE step[p] = 2
  <2>1. todo'[p] = <<>> /\ Live("limit") = {}
    BY <1>7, <1>3, <1>11, PlanOf, VerifiedIs
  <2>2. step'[p] = 3
    BY <1>1, <1>11
  <2>3. \A v \in late : v \in LateLimits(3 > 2)
    <3>. SUFFICES ASSUME NEW v \in late PROVE v \in LateLimits(3 > 2)
      OBVIOUS
    <3>1. v \in ArchivesOf({"limit"})
      BY <1>5, <1>11 DEF LateLimits
    <3>2. PICK i \in DOMAIN made : v = Archive(i) /\ made[i].type = "limit"
      BY <3>1, ArchivalsOf
    <3>3. v.cid = i /\ i \notin live
      BY <2>1, <3>2, Kinds DEF Live
    <3>. QED BY <3>1, <3>3 DEF LateLimits
  <2>. QED BY <1>1, <1>4, <1>9, <2>1, <2>2, <2>3 DEF SeedClean
<1>12. ASSUME step[p] \in {3, 5, 7}
       PROVE  SeedClean(p)'
  <2>1. todo'[p] = Archives(Book) \/ todo'[p] = Archives(Book \ Kept)
    BY <1>7, <1>3, <1>12, PlanOf
  <2>2. /\ Book \in SUBSET live /\ Book \ Kept \in SUBSET live
        /\ \A i \in Book : made[i].type \in {"obligation", "batch"}
    BY DEF Book, Live
  <2>3. /\ Archives(Book) \in Seq(ArchivesOf({"obligation", "batch"}))
        /\ Archives(Book \ Kept) \in Seq(ArchivesOf({"obligation", "batch"}))
    BY <2>2, ArchivesOfTypes
  <2>4. Range(todo'[p]) \subseteq ArchivesOf({"obligation", "batch"})
    BY <2>1, <2>3, RangeInside
  <2>5. RowsAreMissing(p)'
    BY <1>8, <2>4
  <2>6. step'[p] \in {4, 6, 8} /\ step'[p] # 7 /\ (step'[p] = 8 <=> step[p] = 7) /\ step'[p] > 2
    BY <1>1, <1>12
  <2>7. \A v \in late : v \in LateLimits(TRUE) \/ (step'[p] = 8 /\ v \in NewRows)
    BY <1>5, <1>12, <2>6 DEF LateLimits
  <2>8. Live("limit") = {}
    BY <1>12 DEF SeedClean
  <2>. QED BY <1>1, <1>4, <2>4, <2>5, <2>6, <2>7, <2>8 DEF SeedClean
<1>13. CASE step[p] = 4
  <2>1. todo'[p] = todo[p] \o Archives(Live("batch"))
    BY <1>13, <1>3, PlanOf, ReadsOf
  <2>2. /\ Live("batch") \in SUBSET live
        /\ \A i \in Live("batch") : made[i].type \in {"obligation", "batch"}
    BY DEF Live
  <2>3. Archives(Live("batch")) \in Seq(ArchivesOf({"obligation", "batch"}))
    BY <2>2, ArchivesOfTypes
  <2>4. todo[p] \in Seq(ArchivesOf({"obligation", "batch"}))
    <3>1. Range(todo[p]) \subseteq ArchivesOf({"obligation", "batch"})
      BY <1>13 DEF SeedClean
    <3>2. todo[p] \in Seq(Write)
      BY ReadsOf
    <3>. QED BY <3>1, <3>2 DEF Range
  <2>5. Range(todo'[p]) \subseteq ArchivesOf({"obligation", "batch"})
    BY <2>1, <2>3, <2>4, RangeJoined
  <2>6. RowsAreMissing(p)'
    BY <1>8, <2>5
  <2>7. step'[p] = 5
    BY <1>1, <1>13
  <2>8. Live("limit") = {} /\ \A v \in late : v \in LateLimits(5 > 2)
    BY <1>5, <1>13 DEF SeedClean, LateLimits
  <2>. QED BY <1>1, <1>4, <2>5, <2>6, <2>7, <2>8 DEF SeedClean
<1>14. CASE step[p] = 6
  <2>1. todo'[p] = Creates(Missing)
    BY <1>7, <1>3, <1>14, PlanOf
  <2>2. Missing \in SUBSET Reference /\ IsFiniteSet(Missing)
    <3>1. Missing \in SUBSET Reference
      BY DEF Missing
    <3>. QED BY <3>1, FS_Subset, LedgerContents
  <2>3. Range(todo'[p]) \subseteq {Create(Row(r)) : r \in Missing}
    BY <2>1, <2>2, CreatesInside, RangeInside
  <2>4. Range(todo'[p]) \subseteq NewRows
    BY <2>2, <2>3 DEF NewRows
  <2>5. \A v \in late : v \in LateLimits(TRUE) /\ v \notin NewRows
    BY <1>5, <1>6, <1>14 DEF LateLimits
  <2>6. RowsAreMissing(p)'
    <3>1. \A r \in Reference : Create(Row(r)) \in late' \union Range(todo'[p]) => r \in Missing'
      <4>. SUFFICES ASSUME NEW r \in Reference, Create(Row(r)) \in late' \union Range(todo'[p])
                    PROVE  r \in Missing'
        OBVIOUS
      <4>1. Create(Row(r)) \in NewRows
        BY DEF NewRows
      <4>2. Create(Row(r)) \in Range(todo'[p])
        BY <1>1, <2>5, <4>1
      <4>3. PICK q \in Missing : Create(Row(r)) = Create(Row(q))
        BY <2>3, <4>2
      <4>. QED BY <1>4, <4>3, Kinds
    <3>2. EachOnce(todo'[p], late')
      <4>1. \A m, n \in DOMAIN todo'[p] : todo'[p][m] = todo'[p][n] => m = n
        BY <2>1, <2>2, CreatesInside
      <4>. QED BY <1>1, <2>5, <4>1 DEF EachOnce
    <3>. QED BY <3>1, <3>2 DEF RowsAreMissing
  <2>7. step'[p] = 7
    BY <1>1, <1>14
  <2>8. Live("limit") = {}
    BY <1>14 DEF SeedClean
  <2>. QED BY <1>1, <1>4, <2>4, <2>5, <2>6, <2>7, <2>8 DEF SeedClean
<1>15. CASE step[p] = 8
  <2>1. todo'[p] = <<>> /\ Exact
    <3>1. Query(p) = "verify obligations" /\ todo'[p] = <<>>
      BY <1>7, <1>3, <1>15, PlanOf
    <3>. QED BY <3>1, VerifiedIs
  <2>2. \A v \in late : v \notin NewRows
    <3>1. \A r \in Reference : Create(Row(r)) \notin late
      BY <1>6, <2>1, ExactIsComplete DEF RowsAreMissing
    <3>. QED BY <3>1 DEF NewRows
  <2>3. step'[p] = 9
    BY <1>1, <1>15
  <2>4. Live("limit") = {} /\ \A v \in late : v \in LateLimits(9 > 2)
    BY <1>5, <1>15, <2>2 DEF SeedClean, LateLimits
  <2>. QED BY <1>1, <1>4, <1>9, <2>1, <2>3, <2>4 DEF SeedClean
<1>16. CASE step[p] = 9
  <2>1. todo'[p] = <<>> /\ Live("batch") = {}
    BY <1>7, <1>3, <1>16, PlanOf, VerifiedIs
  <2>2. step'[p] = 10
    BY <1>1, <1>16
  <2>3. Exact /\ Live("limit") = {} /\ \A v \in late : v \in LateLimits(10 > 2)
    BY <1>5, <1>16 DEF SeedClean, LateLimits
  <2>. QED BY <1>1, <1>4, <1>9, <2>1, <2>2, <2>3 DEF SeedClean
<1>17. CASE step[p] = 10
  <2>1. todo'[p] = <<Create(Limit)>>
    BY <1>7, <1>3, <1>17, PlanOf
  <2>2. Range(todo'[p]) = {Create(Limit)} /\ Len(todo'[p]) = 1 /\ todo'[p] # <<>>
    <3>1. \A x : DOMAIN <<x>> = {1} /\ <<x>>[1] = x /\ Len(<<x>>) = 1 /\ <<x>> # <<>>
      OBVIOUS
    <3>. QED BY <2>1, <3>1 DEF Range
  <2>3. Range(todo'[p]) \intersect NewRows = {}
    BY <2>2, Kinds DEF NewRows
  <2>4. RowsAreMissing(p)'
    BY <1>1, <1>6, <2>3, NoRowsPlanned
  <2>5. step'[p] = 11
    BY <1>1, <1>17
  <2>6. /\ Exact /\ Live("limit") = {} /\ Live("batch") = {}
        /\ \A v \in late : v \in LateLimits(11 > 2)
    BY <1>5, <1>17 DEF SeedClean, LateLimits
  <2>. QED BY <1>1, <1>4, <2>2, <2>4, <2>5, <2>6 DEF SeedClean
<1>. QED BY <1>10, <1>11, <1>12, <1>13, <1>14, <1>15, <1>16, <1>17, <1>2

LEMMA ResetReads ==
  ASSUME SeedTypeOK, NEW p \in Process, kind[p] = "reset", ResetClean(p),
         Reads(p), Verified(p, Query(p))
  PROVE  ResetClean(p)'
<1>1. /\ made' = made /\ live' = live /\ late' = late
      /\ step[p] \in 1..6 /\ step'[p] = step[p] + 1
      /\ Query(p) = Program["reset"][step[p]]
  <2>1. /\ made' = made /\ live' = live /\ late' = late
        /\ step[p] <= Len(Program[kind[p]]) /\ step'[p] = step[p] + 1
    BY ReadsOf
  <2>2. Len(Program[kind[p]]) = 6
    BY Queries
  <2>3. step[p] \in 1..7
    BY DEF ResetClean
  <2>4. Query(p) = Program["reset"][step[p]]
    BY DEF Query
  <2>. QED BY <2>1, <2>2, <2>3, <2>4
<1>2. /\ \A t : Live(t)' = Live(t)
      /\ Book' = Book
      /\ \A T : ArchivesOf(T)' = ArchivesOf(T)
  BY <1>1, SameLedger
<1>3. step[p] \in {1, 2, 3, 4, 5, 6}
  BY <1>1
<1>4. /\ step[p] = 1 => Query(p) = "read obligations"
      /\ step[p] = 2 => Query(p) = "read batches"
      /\ step[p] = 3 => Query(p) = "verify obligations"
      /\ step[p] = 4 => Query(p) = "verify batches"
      /\ step[p] = 5 => Query(p) = "read limits"
      /\ step[p] = 6 => Query(p) = "verify limits"
  BY <1>1, Queries
<1>5. ASSUME step[p] # 2
      PROVE  todo'[p] = Planned(Query(p))
  <2>1. Query(p) # "read batches"
    BY <1>3, <1>4, <1>5
  <2>. QED BY <2>1, ReadsOf
<1>6. CASE step[p] \in {1, 2}
  <2>1. /\ Book \in SUBSET live /\ Live("batch") \in SUBSET live
        /\ \A i \in Book \union Live("batch") : made[i].type \in {"obligation", "batch"}
    BY DEF Book, Live
  <2>2. /\ Archives(Book) \in Seq(ArchivesOf({"obligation", "batch"}))
        /\ Archives(Live("batch")) \in Seq(ArchivesOf({"obligation", "batch"}))
    BY <2>1, ArchivesOfTypes
  <2>3. Range(todo'[p]) \subseteq ArchivesOf({"obligation", "batch"})
    <3>1. CASE step[p] = 1
      BY <1>4, <1>5, <2>2, <3>1, PlanOf, RangeInside
    <3>2. CASE step[p] = 2
      <4>1. todo'[p] = todo[p] \o Archives(Live("batch"))
        BY <1>4, <3>2, PlanOf, ReadsOf
      <4>2. Range(todo[p]) \subseteq ArchivesOf({"obligation", "batch"})
        BY <3>2 DEF ResetClean
      <4>3. todo[p] \in Seq(Write)
        BY ReadsOf
      <4>4. todo[p] \in Seq(ArchivesOf({"obligation", "batch"}))
        BY <4>2, <4>3 DEF Range
      <4>. QED BY <2>2, <4>1, <4>4, RangeJoined
    <3>. QED BY <1>6, <3>1, <3>2
  <2>4. step'[p] \in {2, 3}
    BY <1>1, <1>6
  <2>. QED BY <1>1, <1>2, <2>3, <2>4 DEF ResetClean
<1>7. CASE step[p] = 5
  <2>1. Live("limit") \in SUBSET live /\ \A i \in Live("limit") : made[i].type \in {"limit"}
    BY DEF Live
  <2>2. Range(todo'[p]) \subseteq ArchivesOf({"limit"})
    BY <1>4, <1>5, <1>7, <2>1, PlanOf, ArchivesOfTypes, RangeInside
  <2>3. step'[p] = 6 /\ Book = {} /\ Live("batch") = {}
    BY <1>1, <1>7 DEF ResetClean
  <2>. QED BY <1>1, <1>2, <2>2, <2>3 DEF ResetClean
<1>8. CASE step[p] \in {3, 4, 6}
  <2>1. todo'[p] = <<>>
    BY <1>4, <1>5, <1>8, PlanOf
  <2>2. Range(todo'[p]) = {}
    BY <2>1, NothingPlanned
  <2>3. step'[p] \in {4, 5, 7}
    BY <1>1, <1>8
  <2>4. /\ step[p] = 3 => Book = {}
        /\ step[p] = 4 => Book = {} /\ Live("batch") = {}
        /\ step[p] = 6 => Book = {} /\ Live("batch") = {} /\ Live("limit") = {}
    <3>1. /\ step[p] = 3 => Book = {}
          /\ step[p] = 4 => Live("batch") = {}
          /\ step[p] = 6 => Live("limit") = {}
      BY <1>4, VerifiedIs
    <3>. QED BY <3>1 DEF ResetClean
  <2>. QED BY <1>1, <1>2, <1>8, <2>2, <2>3, <2>4 DEF ResetClean
<1>. QED BY <1>3, <1>6, <1>7, <1>8

-----------------------------------------------------------------------------

LEMMA StartsClean ==
  ASSUME NEW p, step'[p] = 1, todo'[p] = <<>>, late' = {}
  PROVE  SeedClean(p)' /\ ResetClean(p)'
<1>1. Range(todo'[p]) = {} /\ EachOnce(todo'[p], late')
  BY NothingPlanned
<1>2. RowsAreMissing(p)'
  BY <1>1 DEF RowsAreMissing
<1>. QED BY <1>1, <1>2 DEF SeedClean, ResetClean

\* What a write that is not answered or refused may be if the report stays
\* without an error.
LEMMA QuietWrite ==
  ASSUME SeedTypeOK, NEW p \in Process, NEW w, ~errors'[p],
         NotesError(p, w) \/ (Reconciled(w) /\ NotesNothing)
  PROVE  ~errors[p] /\ (ClearsLimit(w) \/ Reconciled(w))
  BY DEF SeedTypeOK, NotesError, NotesNothing

\* A clean report of a process that was alone is true, and stays true whatever
\* is still late: the success that the console shows is the state of the ledger.
THEOREM CleanReportStays == Spec => []CleanReportLasts
<1>. DEFINE Clean(p) == (kind[p] = "seed" => SeedClean(p)) /\ (kind[p] = "reset" => ResetClean(p))
<1>1. Init => CleanInv
  BY DEF Init, CleanInv
<1>2. SeedTypeOK /\ SeedTypeOK' /\ CleanInv /\ [Next]_vars => CleanInv'
  <2>. SUFFICES ASSUME SeedTypeOK, SeedTypeOK', CleanInv, [Next]_vars PROVE CleanInv'
    OBVIOUS
  <2>0. IsFiniteSet(live)
    <3>1. DOMAIN made = 1..Len(made) /\ Len(made) \in Nat /\ live \subseteq DOMAIN made
      BY IdsOfMade
    <3>2. IsFiniteSet(1..Len(made))
      BY <3>1, FS_Interval
    <3>. QED BY <3>1, <3>2, FS_Subset
  \* It is enough to look at the process that is alone before and after.
  <2>1. ASSUME \A p \in Process : kind'[p] = "idle" => kind[p] = "idle" /\ step'[p] = step[p] /\ todo'[p] = todo[p],
               \A p \in alone' : ~errors'[p] /\ kind'[p] \in {"seed", "reset"} => Clean(p)'
        PROVE  CleanInv'
    BY <2>1 DEF CleanInv
  <2>2. ASSUME NEW w \in late, CommitLate(w) PROVE CleanInv'
    <3>1. /\ Commit(w) /\ late' = late \ {w}
          /\ UNCHANGED <<kind, step, todo, errors, alone>>
      BY <2>2 DEF CommitLate
    <3>2. ASSUME NEW p \in alone, ~errors[p] PROVE Clean(p)'
      <4>1. Clean(p) /\ p \in Process
        BY <3>2 DEF CleanInv, SeedTypeOK
      <4>. QED BY <3>1, <4>1, LateSeed, LateReset
    <3>. QED BY <2>1, <3>1, <3>2
  <2>3. ASSUME NEW w \in late, NeverCommits(w) PROVE CleanInv'
    <3>1. /\ late' = late \ {w} /\ UNCHANGED <<made, live, kind, step, todo, errors, alone>>
      BY <2>3 DEF NeverCommits
    <3>2. /\ \A t : Live(t)' = Live(t)
          /\ Book' = Book /\ Missing' = Missing /\ (Exact => Exact')
          /\ \A T : ArchivesOf(T)' = ArchivesOf(T)
          /\ \A v : LateLimits(v)' = LateLimits(v)
      BY <3>1, SameLedger
    <3>3. ASSUME NEW p, SeedClean(p) PROVE SeedClean(p)'
      <4>1. EachOnce(todo'[p], late')
        BY <3>1, <3>3, EachOnceWithin DEF SeedClean, RowsAreMissing
      <4>2. RowsAreMissing(p)'
        BY <3>1, <3>2, <3>3, <4>1, RowsStay DEF SeedClean
      <4>. QED BY <3>1, <3>2, <3>3, <4>2 DEF SeedClean
    <3>4. ASSUME NEW p, ResetClean(p) PROVE ResetClean(p)'
      BY <3>1, <3>2, <3>4 DEF ResetClean
    <3>. QED BY <2>1, <3>1, <3>3, <3>4 DEF CleanInv
  <2>4. CASE Others
    BY <2>4 DEF Others, CleanInv
  <2>5. ASSUME NEW q \in Process, NEW k \in DOMAIN Program, Start(q, k) PROVE CleanInv'
    <3>1. /\ kind[q] = "idle" /\ kind' = [kind EXCEPT ![q] = k]
          /\ UNCHANGED <<made, live, late, step, todo, errors>>
          /\ \A p \in alone' : p = q /\ late = {}
      BY <2>5 DEF Start
    <3>2. step[q] = 1 /\ todo[q] = <<>>
      BY <3>1 DEF CleanInv
    <3>3. \A p \in alone' : Clean(p)'
      BY <3>1, <3>2, StartsClean
    <3>4. k # "idle"
      BY Queries
    <3>. QED BY <2>1, <3>1, <3>3, <3>4 DEF SeedTypeOK
  <2>6. ASSUME NEW q \in Process, alone' = alone \intersect {q}, kind' = kind, kind[q] # "idle",
               step' = [step EXCEPT ![q] = step'[q]], todo' = [todo EXCEPT ![q] = todo'[q]],
               q \in alone /\ ~errors'[q] => ~errors[q] /\ (Clean(q) => Clean(q)')
        PROVE  CleanInv'
    <3>1. \A p \in Process : kind'[p] = "idle" => kind[p] = "idle" /\ step'[p] = step[p] /\ todo'[p] = todo[p]
      BY <2>6 DEF SeedTypeOK
    <3>2. \A p \in alone' : ~errors'[p] => Clean(p)'
      BY <2>6 DEF CleanInv
    <3>. QED BY <2>1, <3>1, <3>2
  <2>7. ASSUME NEW q \in Process, Reads(q) PROVE CleanInv'
    <3>1. /\ alone' = alone \intersect {q} /\ kind' = kind /\ kind[q] # "idle"
          /\ step' = [step EXCEPT ![q] = step'[q]] /\ todo' = [todo EXCEPT ![q] = todo'[q]]
      BY <2>7, Queries DEF Reads, Alone, Running, Active, SeedTypeOK
    <3>2. ASSUME ~errors'[q] PROVE ~errors[q] /\ Verified(q, Query(q))
      <4>1. ~errors[q] /\ ~Explained(q, Query(q))
        BY <2>7, <3>2 DEF Reads, SeedTypeOK
      <4>. QED BY <2>0, <4>1, VerificationIsExplained
    <3>3. ASSUME ~errors'[q], Clean(q) PROVE Clean(q)'
      BY <2>7, <3>1, <3>2, <3>3, SeedReads, ResetReads
    <3>. QED BY <2>6, <3>1, <3>2, <3>3
  <2>8. ASSUME NEW q \in Process, Writing(q)
        PROVE  /\ alone' = alone \intersect {q} /\ kind' = kind /\ kind[q] # "idle"
               /\ step' = [step EXCEPT ![q] = step'[q]] /\ todo' = [todo EXCEPT ![q] = todo'[q]]
    BY <2>8, Queries DEF Writing, Alone, Active, SeedTypeOK
  <2>9. ASSUME NEW q \in Process, Succeeds(q) PROVE CleanInv'
    <3>1. Writing(q) /\ Commit(Head(todo[q])) /\ late' = late /\ errors' = errors
      BY <2>9 DEF Succeeds, NotesNothing
    <3>2. Clean(q) => Clean(q)'
      BY <2>8, <3>1, HeadOfSeed, HeadOfReset
    <3>. QED BY <2>6, <2>8, <3>1, <3>2
  <2>10. ASSUME NEW q \in Process, Refused(q) PROVE CleanInv'
    <3>. DEFINE w == Head(todo[q])
    <3>1. Writing(q) /\ late' = late /\ made' = made /\ live' = live /\ NotesError(q, w)
      BY <2>10 DEF Refused
    <3>2. ~errors'[q] => ~errors[q] /\ (ClearsLimit(w) \/ Reconciled(w))
      BY <3>1, QuietWrite
    <3>3. ~errors'[q] /\ Clean(q) => Clean(q)'
      BY <2>8, <3>1, <3>2, HeadOfSeedLost, HeadOfResetLost
    <3>. QED BY <2>6, <2>8, <3>1, <3>2, <3>3
  <2>11. ASSUME NEW q \in Process, Fault(q) PROVE CleanInv'
    <3>. DEFINE w == Head(todo[q])
    <3>1. /\ Writing(q)
          /\ NotesError(q, w) \/ (Reconciled(w) /\ NotesNothing)
          /\ \/ Commit(w) /\ late' = late
             \/ late' = late \union {w} /\ made' = made /\ live' = live
      BY <2>11 DEF Fault, Unanswered, ledger
    <3>2. ~errors'[q] => ~errors[q] /\ (ClearsLimit(w) \/ Reconciled(w))
      BY <3>1, QuietWrite
    <3>3. ASSUME ~errors'[q], Clean(q) PROVE Clean(q)'
      <4>1. CASE Commit(w) /\ late' = late
        BY <2>8, <3>1, <3>3, <4>1, HeadOfSeed, HeadOfReset
      <4>2. CASE late' = late \union {w} /\ made' = made /\ live' = live
        BY <2>8, <3>1, <3>2, <3>3, <4>2, HeadOfSeedLost, HeadOfResetLost
      <4>. QED BY <3>1, <4>1, <4>2
    <3>. QED BY <2>6, <2>8, <3>1, <3>2, <3>3
  <2>12. ASSUME NEW q \in Process, QueryFails(q) PROVE CleanInv'
    <3>1. /\ alone' = alone \intersect {q} /\ kind' = kind /\ kind[q] # "idle"
          /\ step' = [step EXCEPT ![q] = step'[q]] /\ todo' = [todo EXCEPT ![q] = todo'[q]]
          /\ errors'[q]
      BY <2>12, Queries DEF QueryFails, Alone, Running, Active, SeedTypeOK
    <3>. QED BY <2>6, <3>1
  <2>13. ASSUME NEW q \in Process, Dies(q) PROVE CleanInv'
    <3>1. /\ \A p \in alone' : p = q
          /\ kind' = [kind EXCEPT ![q] = "dead"] /\ step' = step
          /\ todo' = [todo EXCEPT ![q] = <<>>]
      BY <2>13 DEF Dies, Alone
    <3>. QED BY <2>1, <3>1 DEF SeedTypeOK
  <2>14. CASE UNCHANGED vars
    <3>1. /\ made' = made /\ live' = live /\ late' = late /\ kind' = kind /\ step' = step
          /\ todo' = todo /\ errors' = errors /\ alone' = alone
      BY <2>14 DEF vars
    <3>2. /\ \A t : Live(t)' = Live(t)
          /\ Book' = Book /\ Missing' = Missing /\ (Exact => Exact')
          /\ \A T : ArchivesOf(T)' = ArchivesOf(T)
          /\ \A v : LateLimits(v)' = LateLimits(v)
      BY <3>1, SameLedger
    <3>3. ASSUME NEW p, SeedClean(p) PROVE SeedClean(p)'
      BY <3>1, <3>2, <3>3 DEF SeedClean, RowsAreMissing, EachOnce
    <3>4. ASSUME NEW p, ResetClean(p) PROVE ResetClean(p)'
      BY <3>1, <3>2, <3>4 DEF ResetClean
    <3>. QED BY <2>1, <3>1, <3>3, <3>4 DEF CleanInv
  <2>. QED BY <2>2, <2>3, <2>4, <2>5, <2>7, <2>9, <2>10, <2>11, <2>12, <2>13, <2>14 DEF Next
<1>3. SeedTypeOK /\ CleanInv => CleanReportLasts
  <2>. SUFFICES ASSUME SeedTypeOK, CleanInv, NEW p \in alone, Ended(p), ~errors[p]
                PROVE  Describes(p)
    BY DEF CleanReportLasts
  <2>1. kind[p] \in {"seed", "reset"} /\ step[p] > Len(Program[kind[p]]) /\ todo[p] = <<>>
    BY Queries DEF Ended, Active
  <2>2. CASE kind[p] = "seed"
    <3>1. SeedClean(p)
      BY <2>2 DEF CleanInv
    <3>2. step[p] = 11
      <4>1. Len(Program[kind[p]]) = 10
        BY <2>2, Queries
      <4>2. step[p] \in 1..11
        BY <3>1 DEF SeedClean
      <4>. QED BY <2>1, <4>1, <4>2
    <3>3. /\ Exact /\ Live("batch") = {}
          /\ \E i : Live("limit") = {i}
      BY <2>1, <3>1, <3>2 DEF SeedClean
    <3>4. Cardinality(Live("limit")) = 1
      BY <3>3, FS_Singleton
    <3>. QED BY <2>2, <3>3, <3>4 DEF Describes
  <2>3. CASE kind[p] = "reset"
    <3>1. ResetClean(p)
      BY <2>3 DEF CleanInv
    <3>2. step[p] = 7
      <4>1. Len(Program[kind[p]]) = 6
        BY <2>3, Queries
      <4>2. step[p] \in 1..7
        BY <3>1 DEF ResetClean
      <4>. QED BY <2>1, <4>1, <4>2
    <3>. QED BY <2>3, <3>1, <3>2 DEF Describes, ResetClean
  <2>. QED BY <2>1, <2>2, <2>3
<1>. QED BY <1>1, <1>2, <1>3, TypeCorrect, PTL DEF Spec
-----------------------------------------------------------------------------
(* OverlapIsReported.  A seeding that has verified the obligations writes     *)
(* nothing more but the limit it agrees.  The last one to verify them         *)
(* therefore speaks for all, and so does the last one to verify the batches;  *)
(* and the last one to clear the limits agrees its own after that.            *)

AllPast(n) == \A p \in Process : kind[p] = "seed" /\ step[p] > n
AllOk == \A p \in Process : ok[p]

WritesOf(p) ==
  /\ step[p] > 2 => Range(todo[p]) \intersect ArchivesOf({"limit"}) = {}
  /\ step[p] > 8 => Range(todo[p]) \subseteq {Create(Limit)}

LimitComes == \E p \in Process : step[p] <= 10 \/ todo[p] # <<>>

Undisturbed ==
  /\ late = {}
  /\ \A p \in Process : kind[p] = "seed" => WritesOf(p)
  /\ AllPast(8) /\ AllOk => Exact
  /\ AllPast(9) /\ AllOk => Live("batch") = {}
  /\ AllPast(2) => Live("limit") # {} \/ LimitComes

SharedInv ==
  /\ \A p \in Process : step[p] # 0 /\ (kind[p] = "idle" => step[p] = 1 /\ todo[p] = <<>>)
  /\ faults = 0 /\ foreign = 0 => Undisturbed

\* Whoever commits, what was no archival of a limit does not become one.
LEMMA LimitsStayTold ==
  ASSUME SeedTypeOK, NEW w \in Write, Commit(w), NEW s \in Seq(Write),
         Range(s) \intersect ArchivesOf({"limit"}) = {}
  PROVE  Range(s) \intersect ArchivesOf({"limit"})' = {}
<1>1. \A i \in DOMAIN made : made'[i] = made[i]
  <2>1. CASE \E i \in DOMAIN made : w = Archive(i)
    BY <2>1, ArchiveCommits
  <2>2. CASE \E c \in Contract : w = Create(c)
    BY <2>2, CreateCommits
  <2>. QED BY <2>1, <2>2 DEF Write
<1>. SUFFICES ASSUME NEW v \in Range(s), v \in ArchivesOf({"limit"})' PROVE FALSE
  OBVIOUS
<1>2. PICK i \in DOMAIN made' : v = Archive(i) /\ made'[i].type = "limit"
  BY DEF ArchivesOf
<1>3. v \in Write
  BY RangeInside
<1>4. i \in DOMAIN made
  BY <1>2, <1>3, Kinds DEF Write
<1>5. v \in ArchivesOf({"limit"})
  BY <1>1, <1>2, <1>4 DEF ArchivesOf
<1>. QED BY <1>5

\* A limit that is agreed disturbs neither the book nor the batches.
LEMMA LimitAgreed ==
  ASSUME SeedTypeOK, Commit(Create(Limit))
  PROVE  (Exact => Exact') /\ Live("batch")' = Live("batch") /\ Live("limit")' # {}
<1>1. Limit \in Contract /\ Limit.type = "limit"
  BY Kinds
<1>2. /\ \A t : Live(t)' = Live(t) \union (IF Limit.type = t THEN {Len(made) + 1} ELSE {})
      /\ Exact => Exact'
  BY <1>1, AfterCreate
<1>3. Live("batch")' = Live("batch") /\ Live("limit")' = Live("limit") \union {Len(made) + 1}
  BY <1>1, <1>2
<1>. QED BY <1>2, <1>3

\* And what archives no limit leaves the limits.
LEMMA LimitsLeft ==
  ASSUME SeedTypeOK, NEW w \in Write, Commit(w), w \notin ArchivesOf({"limit"}), Live("limit") # {}
  PROVE  Live("limit")' # {}
<1>1. ASSUME NEW i \in DOMAIN made, w = Archive(i) PROVE Live("limit")' # {}
  <2>1. live' = live \ {i} /\ made' = made
    BY <1>1, ArchiveCommits
  <2>2. i \notin Live("limit")
    BY <1>1 DEF Live, ArchivesOf
  <2>3. Live("limit")' = Live("limit") \ {i}
    BY <2>1, AfterArchive
  <2>. QED BY <2>2, <2>3
<1>2. ASSUME NEW c \in Contract, w = Create(c) PROVE Live("limit")' # {}
  BY <1>2, AfterCreate
<1>. QED BY <1>1, <1>2 DEF Write

LEMMA OneWrite == \A w : Range(<<w>>) = {w} /\ <<w>> # <<>>
<1>1. \A w : DOMAIN <<w>> = {1} /\ <<w>>[1] = w /\ <<w>> # <<>>
  OBVIOUS
<1>. QED BY <1>1 DEF Range

\* Only the query for limits plans the archival of one.
LEMMA PlanSparesLimits ==
  ASSUME SeedTypeOK, NEW query, query # "read limits"
  PROVE  Range(Planned(query)) \intersect ArchivesOf({"limit"}) = {}
<1>1. ASSUME NEW S \in SUBSET live, \A i \in S : made[i].type \in {"obligation", "batch"}
      PROVE  Range(Archives(S)) \intersect ArchivesOf({"limit"}) = {}
  <2>1. Range(Archives(S)) \subseteq ArchivesOf({"obligation", "batch"})
    BY <1>1, ArchivesOfTypes, RangeInside
  <2>2. ArchivesOf({"obligation", "batch"}) \intersect ArchivesOf({"limit"}) = {}
    <3>. SUFFICES ASSUME NEW w \in ArchivesOf({"obligation", "batch"}), w \in ArchivesOf({"limit"})
                  PROVE  FALSE
      OBVIOUS
    <3>1. PICK i \in DOMAIN made : w = Archive(i) /\ made[i].type \in {"obligation", "batch"}
      BY ArchivalsOf
    <3>2. PICK j \in DOMAIN made : w = Archive(j) /\ made[j].type \in {"limit"}
      BY ArchivalsOf
    <3>3. i = j
      BY <3>1, <3>2, Kinds
    <3>. QED BY <3>1, <3>2, <3>3
  <2>. QED BY <2>1, <2>2
<1>2. /\ Book \in SUBSET live /\ Book \ Kept \in SUBSET live /\ Live("batch") \in SUBSET live
      /\ \A i \in Book : made[i].type \in {"obligation", "batch"}
      /\ \A i \in Live("batch") : made[i].type \in {"obligation", "batch"}
  BY DEF Book, Live
<1>3. /\ Range(Archives(Book)) \intersect ArchivesOf({"limit"}) = {}
      /\ Range(Archives(Book \ Kept)) \intersect ArchivesOf({"limit"}) = {}
      /\ Range(Archives(Live("batch"))) \intersect ArchivesOf({"limit"}) = {}
  BY <1>1, <1>2
<1>4. Range(Creates(Missing)) \intersect ArchivesOf({"limit"}) = {}
  <2>1. Missing \in SUBSET Reference /\ IsFiniteSet(Missing)
    <3>1. Missing \in SUBSET Reference
      BY DEF Missing
    <3>. QED BY <3>1, FS_Subset, LedgerContents
  <2>2. Range(Creates(Missing)) \subseteq {Create(Row(r)) : r \in Missing}
    BY <2>1, CreatesInside, RangeInside
  <2>3. Range(Creates(Missing)) \subseteq NewRows
    BY <2>1, <2>2 DEF NewRows
  <2>. QED BY <2>3, ArchivalsOf
<1>5. Range(<<Create(Limit)>>) \intersect ArchivesOf({"limit"}) = {}
  <2>1. Range(<<Create(Limit)>>) = {Create(Limit)}
    BY OneWrite
  <2>2. Create(Limit) \notin ArchivesOf({"limit"})
    BY ArchivalsOf
  <2>. QED BY <2>1, <2>2
<1>6. Range(<<>>) = {}
  BY NothingPlanned
<1>. QED BY <1>3, <1>4, <1>5, <1>6 DEF Planned

\* A seeding reads: what it plans, and what it finds if it is the last.
LEMMA SharedReads ==
  ASSUME SeedTypeOK, Undisturbed, NEW q \in Process, kind[q] = "seed", step[q] # 0, Reads(q)
  PROVE  /\ WritesOf(q)'
         /\ ok'[q] /\ step'[q] > 8 => step[q] > 8 \/ Exact
         /\ ok'[q] /\ step'[q] > 9 => step[q] > 9 \/ Live("batch") = {}
         /\ step'[q] > 2 => step'[q] <= 10 \/ todo'[q] # <<>>
<1>1. step[q] \in {1, 2, 3, 4, 5, 6, 7, 8, 9, 10} /\ step'[q] = step[q] + 1
  <2>1. Len(Program[kind[q]]) = 10 /\ step[q] \in Nat
    BY Queries DEF SeedTypeOK
  <2>2. step[q] <= Len(Program[kind[q]]) /\ step'[q] = step[q] + 1
    BY ReadsOf
  <2>. QED BY <2>1, <2>2
<1>2. /\ made' = made /\ live' = live /\ Query(q) = Program["seed"][step[q]]
      /\ todo[q] = <<>> \/ Query(q) = "read batches"
      /\ todo[q] = <<>> => todo'[q] = Planned(Query(q))
  BY ReadsOf DEF Query
<1>3. ArchivesOf({"limit"})' = ArchivesOf({"limit"})
  BY <1>2, SameLedger
<1>4. ok'[q] => Verified(q, Query(q))
  BY DEF Reads, SeedTypeOK
<1>5. WritesOf(q)
  BY DEF Undisturbed
<1>6. /\ step[q] # 1 => Query(q) # "read limits"
      /\ step[q] # 4 => Query(q) # "read batches"
      /\ step[q] = 8 => Query(q) = "verify obligations"
      /\ step[q] = 9 => Query(q) = "verify batches"
      /\ step[q] = 10 => Query(q) = "agree"
  <2>1. /\ step[q] = 2 => Query(q) = "verify limits"
        /\ step[q] = 3 => Query(q) = "read obligations"
        /\ step[q] = 4 => Query(q) = "read batches"
        /\ step[q] \in {5, 7} => Query(q) = "sweep"
        /\ step[q] = 6 => Query(q) = "create"
        /\ step[q] = 8 => Query(q) = "verify obligations"
        /\ step[q] = 9 => Query(q) = "verify batches"
        /\ step[q] = 10 => Query(q) = "agree"
        /\ step[q] = 1 => Query(q) = "read limits"
    BY <1>2, Queries
  <2>2. step[q] # 1 => Query(q) # "read limits"
    BY <1>1, <2>1
  <2>3. step[q] # 4 => Query(q) # "read batches"
    BY <1>1, <2>1
  <2>. QED BY <2>1, <2>2, <2>3
<1>7. step[q] # 4 => todo[q] = <<>> /\ todo'[q] = Planned(Query(q))
  BY <1>2, <1>6
<1>8. WritesOf(q)'
  <2>1. ASSUME step'[q] > 2 PROVE Range(todo'[q]) \intersect ArchivesOf({"limit"}) = {}
    <3>1. step[q] # 1
      BY <1>1, <2>1
    <3>2. Range(Planned(Query(q))) \intersect ArchivesOf({"limit"}) = {}
      BY <1>6, <3>1, PlanSparesLimits
    <3>3. CASE step[q] # 4
      BY <1>7, <3>2, <3>3
    <3>4. CASE step[q] = 4
      <4>1. Range(todo[q]) \intersect ArchivesOf({"limit"}) = {}
        BY <1>5, <3>4 DEF WritesOf
      <4>2. Range(todo'[q]) \subseteq Range(todo[q]) \union Range(Planned(Query(q)))
        BY ReadsOf, RangeOfJoined
      <4>. QED BY <3>2, <4>1, <4>2
    <3>. QED BY <3>3, <3>4
  <2>2. ASSUME step'[q] > 8 PROVE Range(todo'[q]) \subseteq {Create(Limit)}
    <3>1. step[q] \in {8, 9, 10}
      BY <1>1, <2>2
    <3>2. todo'[q] = <<>> \/ todo'[q] = <<Create(Limit)>>
      <4>1. todo'[q] = Planned(Query(q))
        BY <1>7, <3>1
      <4>2. Query(q) \in {"verify obligations", "verify batches", "agree"}
        BY <1>6, <3>1
      <4>. QED BY <4>1, <4>2, PlanOf
    <3>. QED BY <3>2, NothingPlanned, OneWrite
  <2>. QED BY <1>3, <2>1, <2>2 DEF WritesOf
<1>9. ok'[q] /\ step'[q] > 8 => step[q] > 8 \/ Exact
  <2>. SUFFICES ASSUME ok'[q], step'[q] > 8, ~(step[q] > 8) PROVE Exact
    OBVIOUS
  <2>0. step[q] = 8
    BY <1>1
  <2>1. Query(q) = "verify obligations"
    BY <1>6, <2>0
  <2>. QED BY <1>4, <2>1, VerifiedIs
<1>10. ok'[q] /\ step'[q] > 9 => step[q] > 9 \/ Live("batch") = {}
  <2>. SUFFICES ASSUME ok'[q], step'[q] > 9, ~(step[q] > 9) PROVE Live("batch") = {}
    OBVIOUS
  <2>0. step[q] = 9
    BY <1>1
  <2>1. Query(q) = "verify batches"
    BY <1>6, <2>0
  <2>. QED BY <1>4, <2>1, VerifiedIs
<1>11. step'[q] <= 10 \/ todo'[q] # <<>>
  <2>. SUFFICES ASSUME ~(step'[q] <= 10) PROVE todo'[q] # <<>>
    OBVIOUS
  <2>1. step[q] = 10
    BY <1>1
  <2>2. todo'[q] = Planned(Query(q)) /\ Query(q) = "agree"
    BY <1>6, <1>7, <2>1
  <2>3. todo'[q] = <<Create(Limit)>>
    BY <2>2, PlanOf
  <2>. QED BY <2>3, OneWrite
<1>. QED BY <1>8, <1>9, <1>10, <1>11

\* A write commits while several seedings run.
LEMMA SharedWrites ==
  ASSUME SeedTypeOK, Undisturbed, NEW q \in Process, Succeeds(q)
  PROVE  Undisturbed'
<1>. DEFINE w == Head(todo[q])
<1>1. /\ Writing(q) /\ Commit(w) /\ late' = late /\ kind' = kind /\ step' = step /\ ok' = ok
      /\ todo' = [todo EXCEPT ![q] = Tail(@)]
  BY DEF Succeeds, Writing, NotesNothing
<1>2. w \in Write /\ w \in Range(todo[q]) /\ Range(todo'[q]) \subseteq Range(todo[q])
  BY <1>1, WritingType, RestOfPlan
<1>3. \A p \in Process : p # q => todo'[p] = todo[p]
  BY <1>1 DEF SeedTypeOK
<1>. HIDE DEF w
<1>4. ASSUME NEW p \in Process, WritesOf(p) PROVE WritesOf(p)'
  <2>1. Range(todo'[p]) \subseteq Range(todo[p]) /\ todo[p] \in Seq(Write)
    BY <1>2, <1>3 DEF SeedTypeOK
  <2>2. Range(todo[p]) \intersect ArchivesOf({"limit"}) = {} =>
          Range(todo[p]) \intersect ArchivesOf({"limit"})' = {}
    BY <1>1, <1>2, <2>1, LimitsStayTold
  <2>. QED BY <1>1, <1>4, <2>1, <2>2 DEF WritesOf
<1>5. ASSUME kind[q] = "seed", step[q] > 8
      PROVE  (Exact => Exact') /\ Live("batch")' = Live("batch") /\ Live("limit")' # {}
  <2>1. w = Create(Limit)
    BY <1>2, <1>5 DEF Undisturbed, WritesOf
  <2>. QED BY <1>1, <2>1, LimitAgreed
<1>6. step[q] \in Nat
  BY DEF SeedTypeOK
<1>7. AllPast(8)' /\ AllOk' => Exact'
  BY <1>1, <1>5 DEF Undisturbed, AllPast, AllOk
<1>8. AllPast(9)' /\ AllOk' => Live("batch")' = {}
  <2>. SUFFICES ASSUME AllPast(9), AllOk PROVE Live("batch")' = {}
    BY <1>1 DEF AllPast, AllOk
  <2>1. kind[q] = "seed" /\ step[q] > 8
    BY <1>6 DEF AllPast
  <2>. QED BY <1>5, <2>1 DEF Undisturbed
<1>9. AllPast(2)' => Live("limit")' # {} \/ LimitComes'
  <2>. SUFFICES ASSUME AllPast(2), ~LimitComes' PROVE Live("limit")' # {}
    BY <1>1 DEF AllPast
  <2>1. kind[q] = "seed" /\ step[q] > 2
    BY DEF AllPast
  <2>2. w \notin ArchivesOf({"limit"})
    BY <1>2, <2>1 DEF Undisturbed, WritesOf
  <2>3. CASE Live("limit") # {}
    BY <1>1, <1>2, <2>2, <2>3, LimitsLeft
  <2>4. CASE LimitComes
    <3>1. PICK p \in Process : step[p] <= 10 \/ todo[p] # <<>>
      BY <2>4 DEF LimitComes
    <3>2. p = q /\ ~(step[q] <= 10)
      BY <1>1, <1>3, <3>1 DEF LimitComes
    <3>3. step[q] > 8
      BY <1>6, <3>2
    <3>. QED BY <1>5, <2>1, <3>3
  <2>. QED BY <2>3, <2>4 DEF Undisturbed
<1>. QED BY <1>1, <1>4, <1>7, <1>8, <1>9 DEF Undisturbed

\* Whatever is verified while others still write, a seeding of several that all
\* report success leaves what each of them was asked for.
THEOREM OverlapsAreSeen == Spec => []OverlapIsReported
<1>1. Init => SharedInv
  <2>. SUFFICES ASSUME Init PROVE SharedInv
    OBVIOUS
  <2>1. \A p \in Process : kind[p] = "idle" /\ step[p] = 1 /\ todo[p] = <<>>
    BY DEF Init
  <2>2. \A n : ~AllPast(n)
    BY <2>1, LedgerContents DEF AllPast
  <2>3. late = {}
    BY DEF Init
  <2>. QED BY <2>1, <2>2, <2>3 DEF SharedInv, Undisturbed
<1>2. SeedTypeOK /\ SeedTypeOK' /\ SharedInv /\ [Next]_vars => SharedInv'
  <2>. SUFFICES ASSUME SeedTypeOK, SeedTypeOK', SharedInv, [Next]_vars PROVE SharedInv'
    OBVIOUS
  <2>. DEFINE Begun(p) == step[p] # 0 /\ (kind[p] = "idle" => step[p] = 1 /\ todo[p] = <<>>)
  <2>0. faults \in Nat /\ foreign \in Nat /\ \A p \in Process : Begun(p)
    BY LedgerContents DEF SeedTypeOK, SharedInv
  <2>1. ASSUME NEW v \in late, CommitLate(v) \/ NeverCommits(v) PROVE SharedInv'
    <3>1. UNCHANGED <<kind, step, todo, faults, foreign>>
      BY <2>1 DEF CommitLate, NeverCommits
    <3>2. ~(faults = 0 /\ foreign = 0)
      BY <2>1 DEF SharedInv, Undisturbed
    <3>. QED BY <3>1, <3>2 DEF SharedInv
  <2>2. CASE Others
    <3>1. UNCHANGED <<kind, step, todo>> /\ foreign' # 0
      BY <2>0, <2>2 DEF Others
    <3>. QED BY <3>1 DEF SharedInv
  <2>3. ASSUME NEW q \in Process, NEW k \in DOMAIN Program, Start(q, k) PROVE SharedInv'
    <3>1. /\ kind[q] = "idle" /\ kind' = [kind EXCEPT ![q] = k]
          /\ UNCHANGED <<made, live, late, step, todo, ok, faults, foreign>>
      BY <2>3 DEF Start
    <3>2. k # "idle" /\ step[q] = 1 /\ todo[q] = <<>>
      BY <2>0, <3>1, Queries
    <3>3. \A p \in Process : kind'[p] = IF p = q THEN k ELSE kind[p]
      BY <3>1 DEF SeedTypeOK
    <3>4. \A p \in Process : Begun(p)'
      BY <2>0, <3>1, <3>2, <3>3
    <3>5. ArchivesOf({"limit"})' = ArchivesOf({"limit"})
      BY <3>1, SameLedger
    <3>6. ASSUME Undisturbed PROVE Undisturbed'
      <4>1. WritesOf(q)'
        BY <3>1, <3>2 DEF WritesOf
      <4>2. \A p \in Process : kind'[p] = "seed" => WritesOf(p)'
        <5>. SUFFICES ASSUME NEW p \in Process, p # q, kind'[p] = "seed" PROVE WritesOf(p)'
          BY <4>1
        <5>1. WritesOf(p)
          BY <3>3, <3>6 DEF Undisturbed
        <5>. QED BY <3>1, <3>5, <5>1 DEF WritesOf
      <4>3. ~AllPast(8)' /\ ~AllPast(9)' /\ ~AllPast(2)'
        BY <3>1, <3>2 DEF AllPast
      <4>. QED BY <3>1, <3>6, <4>2, <4>3 DEF Undisturbed
    <3>. QED BY <3>1, <3>4, <3>6 DEF SharedInv
  <2>4. ASSUME NEW q \in Process, kind[q] # "idle", kind'[q] # "idle", step'[q] # 0,
               \A p \in Process : p # q => kind'[p] = kind[p] /\ step'[p] = step[p] /\ todo'[p] = todo[p]
        PROVE  \A p \in Process : Begun(p)'
    BY <2>0, <2>4
  <2>5. ASSUME NEW q \in Process, Running(q) PROVE kind[q] # "idle"
    BY <2>5, Queries DEF Running, Active
  <2>6. ASSUME NEW q \in Process, Reads(q) PROVE SharedInv'
    <3>1. /\ made' = made /\ live' = live /\ late' = late /\ kind' = kind
          /\ UNCHANGED <<faults, foreign>> /\ kind[q] # "idle" /\ step'[q] = step[q] + 1
          /\ \A p \in Process : p # q => step'[p] = step[p] /\ todo'[p] = todo[p]
          /\ \A p \in Process : ok'[p] => ok[p]
      <4>1. kind[q] # "idle"
        BY <2>6, <2>5 DEF Reads
      <4>2. /\ step' = [step EXCEPT ![q] = @ + 1]
            /\ todo' = [todo EXCEPT ![q] = @ \o Planned(Query(q))]
            /\ ok' = [ok EXCEPT ![q] = @ /\ Verified(q, Query(q))]
            /\ UNCHANGED <<made, live, late, kind, faults, foreign>>
        BY <2>6 DEF Reads
      <4>3. step'[q] = step[q] + 1 /\ \A p \in Process : p # q => step'[p] = step[p] /\ todo'[p] = todo[p]
        BY <4>2 DEF SeedTypeOK
      <4>4. \A p \in Process : ok'[p] => ok[p]
        BY <4>2 DEF SeedTypeOK
      <4>. QED BY <4>1, <4>2, <4>3, <4>4
    <3>2. step[q] \in Nat
      BY DEF SeedTypeOK
    <3>3. \A p \in Process : Begun(p)'
      BY <2>4, <3>1, <3>2
    <3>4. ArchivesOf({"limit"})' = ArchivesOf({"limit"}) /\ (Exact => Exact') /\ Live("batch")' = Live("batch")
      BY <3>1, SameLedger
    <3>5. ASSUME Undisturbed, kind[q] # "seed" PROVE Undisturbed'
      <4>1. \A p \in Process : kind'[p] = "seed" => WritesOf(p)'
        BY <3>1, <3>4, <3>5 DEF Undisturbed, WritesOf
      <4>2. \A n : ~AllPast(n)'
        BY <3>1, <3>5 DEF AllPast
      <4>. QED BY <3>1, <3>5, <4>1, <4>2 DEF Undisturbed
    <3>6. ASSUME Undisturbed, kind[q] = "seed" PROVE Undisturbed'
      <4>1. /\ WritesOf(q)'
            /\ ok'[q] /\ step'[q] > 8 => step[q] > 8 \/ Exact
            /\ ok'[q] /\ step'[q] > 9 => step[q] > 9 \/ Live("batch") = {}
            /\ step'[q] > 2 => step'[q] <= 10 \/ todo'[q] # <<>>
        BY <2>0, <2>6, <3>6, SharedReads
      <4>2. \A p \in Process : kind'[p] = "seed" => WritesOf(p)'
        BY <3>1, <3>4, <3>6, <4>1 DEF Undisturbed, WritesOf
      <4>3. AllPast(8)' /\ AllOk' => Exact'
        <5>1. AllPast(8)' /\ AllOk' => Exact \/ (AllPast(8) /\ AllOk)
          BY <3>1, <4>1 DEF AllPast, AllOk
        <5>. QED BY <3>4, <3>6, <5>1 DEF Undisturbed
      <4>4. AllPast(9)' /\ AllOk' => Live("batch")' = {}
        <5>1. AllPast(9)' /\ AllOk' => Live("batch") = {} \/ (AllPast(9) /\ AllOk)
          BY <3>1, <4>1 DEF AllPast, AllOk
        <5>. QED BY <3>4, <3>6, <5>1 DEF Undisturbed
      <4>5. AllPast(2)' => LimitComes'
        BY <4>1 DEF AllPast, LimitComes
      <4>. QED BY <3>1, <3>6, <4>2, <4>3, <4>4, <4>5 DEF Undisturbed
    <3>. QED BY <3>1, <3>3, <3>5, <3>6 DEF SharedInv
  <2>7. ASSUME NEW q \in Process, Writing(q)
        PROVE  /\ kind' = kind /\ step' = step /\ foreign' = foreign /\ kind[q] # "idle"
               /\ \A p \in Process : p # q => todo'[p] = todo[p]
               /\ \A p \in Process : Begun(p)'
    <3>1. /\ kind' = kind /\ step' = step /\ foreign' = foreign /\ kind[q] # "idle"
          /\ \A p \in Process : p # q => todo'[p] = todo[p]
      BY <2>7, Queries DEF Writing, Active, SeedTypeOK
    <3>. QED BY <2>0, <2>4, <3>1
  <2>8. ASSUME NEW q \in Process, Succeeds(q) PROVE SharedInv'
    <3>1. Writing(q) /\ faults' = faults
      BY <2>8 DEF Succeeds
    <3>. QED BY <2>7, <2>8, <3>1, SharedWrites DEF SharedInv
  <2>9. ASSUME NEW q \in Process, Refused(q) PROVE SharedInv'
    <3>1. /\ Writing(q) /\ ~CanCommit(Head(todo[q]))
          /\ UNCHANGED <<made, live, late, faults>> /\ \A p \in Process : ok'[p] => ok[p]
      BY <2>9 DEF Refused, NotesError, SeedTypeOK
    <3>2. Head(todo[q]) # Create(Limit)
      BY <3>1, Kinds DEF CanCommit
    <3>3. /\ Head(todo[q]) \in Range(todo[q]) /\ Range(todo'[q]) \subseteq Range(todo[q])
      BY <3>1, RestOfPlan
    <3>4. /\ ArchivesOf({"limit"})' = ArchivesOf({"limit"}) /\ (Exact => Exact')
          /\ Live("batch")' = Live("batch") /\ Live("limit")' = Live("limit")
      BY <3>1, SameLedger
    <3>5. ASSUME Undisturbed PROVE Undisturbed'
      <4>1. \A p \in Process : kind'[p] = "seed" => WritesOf(p)'
        BY <2>7, <3>1, <3>3, <3>4, <3>5 DEF Undisturbed, WritesOf
      <4>2. (\A n : AllPast(n)' <=> AllPast(n)) /\ (AllOk' => AllOk)
        BY <2>7, <3>1 DEF AllPast, AllOk
      <4>3. AllPast(2) /\ LimitComes => LimitComes'
        <5>. SUFFICES ASSUME AllPast(2), NEW p \in Process, step[p] <= 10 \/ todo[p] # <<>>
                      PROVE  LimitComes'
          BY DEF LimitComes
        <5>1. kind[q] = "seed" /\ step[q] \in Nat
          BY DEF AllPast, SeedTypeOK
        <5>2. ~(step[q] > 8)
          BY <3>2, <3>3, <3>5, <5>1 DEF Undisturbed, WritesOf
        <5>3. step[q] <= 10
          BY <5>1, <5>2
        <5>. QED BY <2>7, <3>1, <5>3 DEF LimitComes
      <4>. QED BY <3>1, <3>4, <3>5, <4>1, <4>2, <4>3 DEF Undisturbed
    <3>. QED BY <2>7, <3>1, <3>5 DEF SharedInv
  <2>10. ASSUME NEW q \in Process, Fault(q) PROVE SharedInv'
    <3>1. Writing(q) /\ faults' # 0
      BY <2>0, <2>10 DEF Fault
    <3>. QED BY <2>7, <3>1 DEF SharedInv
  <2>11. ASSUME NEW q \in Process, QueryFails(q) PROVE SharedInv'
    <3>1. /\ kind' = kind /\ kind[q] # "idle" /\ todo' = todo /\ faults' # 0
          /\ \A p \in Process : p # q => step'[p] = step[p]
          /\ step'[q] = step[q] + 1 \/ step'[q] = step[q] + 2
      <4>0. faults' = faults + 1 /\ Running(q)
        BY <2>11 DEF QueryFails
      <4>1. kind[q] # "idle" /\ faults' # 0
        BY <2>0, <2>5, <4>0
      <4>2. /\ UNCHANGED <<kind, todo>>
            /\ step' = [step EXCEPT ![q] = IF Query(q) = "read limits" THEN @ + 2 ELSE @ + 1]
        BY <2>11 DEF QueryFails
      <4>. QED BY <4>1, <4>2 DEF SeedTypeOK
    <3>2. step'[q] # 0
      <4>1. step[q] \in Nat
        BY DEF SeedTypeOK
      <4>. QED BY <3>1, <4>1
    <3>. QED BY <2>4, <3>1, <3>2 DEF SharedInv
  <2>12. ASSUME NEW q \in Process, Dies(q) PROVE SharedInv'
    <3>1. /\ kind[q] # "idle" /\ kind'[q] = "dead" /\ step' = step /\ faults' # 0
          /\ \A p \in Process : p # q => kind'[p] = kind[p] /\ todo'[p] = todo[p]
      <4>1. kind[q] # "idle" /\ faults' # 0
        BY <2>0, <2>12, <2>5 DEF Dies
      <4>2. kind' = [kind EXCEPT ![q] = "dead"] /\ todo' = [todo EXCEPT ![q] = <<>>] /\ step' = step
        BY <2>12 DEF Dies
      <4>. QED BY <4>1, <4>2 DEF SeedTypeOK
    <3>. QED BY <2>0, <2>4, <3>1 DEF SharedInv
  <2>13. CASE UNCHANGED vars
    <3>1. /\ made' = made /\ live' = live /\ late' = late /\ kind' = kind /\ step' = step
          /\ todo' = todo /\ ok' = ok /\ faults' = faults /\ foreign' = foreign
      BY <2>13 DEF vars
    <3>2. /\ \A t : Live(t)' = Live(t)
          /\ Exact => Exact'
          /\ ArchivesOf({"limit"})' = ArchivesOf({"limit"})
      BY <3>1, SameLedger
    <3>3. Undisturbed => Undisturbed'
      BY <3>1, <3>2 DEF Undisturbed, WritesOf, AllPast, AllOk, LimitComes
    <3>. QED BY <3>1, <3>3 DEF SharedInv
  <2>. QED BY <2>1, <2>2, <2>3, <2>6, <2>8, <2>9, <2>10, <2>11, <2>12, <2>13 DEF Next
<1>3. SeedTypeOK /\ SharedInv => OverlapIsReported
  <2>. SUFFICES ASSUME SeedTypeOK, Undisturbed,
                       \A p \in Process : Ended(p) /\ kind[p] = "seed" /\ ok[p]
                PROVE  Exact /\ Live("limit") # {} /\ Live("batch") = {}
    BY DEF OverlapIsReported, SharedInv
  <2>1. ASSUME NEW p \in Process PROVE step[p] \in Nat /\ step[p] > 10 /\ todo[p] = <<>> /\ kind[p] = "seed"
    <3>1. step[p] \in Nat /\ step[p] > Len(Program[kind[p]]) /\ todo[p] = <<>> /\ kind[p] = "seed"
      BY DEF Ended, SeedTypeOK
    <3>. QED BY <3>1, Queries
  <2>2. AllPast(8) /\ AllPast(9) /\ AllPast(2) /\ AllOk /\ ~LimitComes
    BY <2>1 DEF AllPast, AllOk, LimitComes
  <2>. QED BY <2>2 DEF Undisturbed
<1>. QED BY <1>1, <1>2, <1>3, TypeCorrect, PTL DEF Spec
=============================================================================
