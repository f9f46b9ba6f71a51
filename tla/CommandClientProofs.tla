------------------------- MODULE CommandClientProofs -------------------------
(***************************************************************************)
(* What a caller of RealLedgerClient may rely on, for any set of commands, *)
(* contracts and closures, and any number of processes.                    *)
(***************************************************************************)
EXTENDS CommandClient, TLAPS

USE DEF Attempt, Fault, Answer, Result, vars, client

LEMMA TypeInductive == TypeOK /\ [Next]_vars => TypeOK'
<1> SUFFICES ASSUME TypeOK, [Next]_vars PROVE TypeOK'
  OBVIOUS
<1>1. ASSUME NEW c \in Command, NEW n \in Attempt, Commit(c, n) PROVE TypeOK'
  BY <1>1, CommandTerms DEF Commit, Decide, TypeOK
<1>2. ASSUME NEW c \in Command, NEW n \in Attempt, Refuse(c, n) PROVE TypeOK'
  BY <1>2 DEF Refuse, Decide, TypeOK
<1>3. ASSUME NEW c \in Command, Send(c) PROVE TypeOK'
  BY <1>3 DEF Send, TypeOK
<1>4. ASSUME NEW c \in Command, Hear(c) PROVE TypeOK'
  BY <1>4 DEF Hear, Return, TypeOK
<1>5. ASSUME NEW c \in Command, NEW k \in Fault, Fails(c, k) PROVE TypeOK'
  BY <1>5 DEF Fails, TypeOK
<1>6. ASSUME NEW c \in Command, Reconcile(c) PROVE TypeOK'
  BY <1>6 DEF Reconcile, Return, Retry, GiveUp, TypeOK
<1>7. CASE UNCHANGED vars
  BY <1>7 DEF TypeOK
<1> QED
  BY <1>1, <1>2, <1>3, <1>4, <1>5, <1>6, <1>7 DEF Next, Participant, Calls

\* For every set of commands and closures, the variables keep their types; in
\* particular no call ever makes a third attempt.
THEOREM TypeCorrect == Spec => []TypeOK
<1>1. Init => TypeOK
  BY CommandTerms DEF Init, TypeOK
<1> QED
  BY <1>1, TypeInductive, PTL DEF Spec

-----------------------------------------------------------------------------
(* The first attempt.  While a call is in its first attempt, only that      *)
(* attempt can be in the participant's inbox, and a refusal heard then left *)
(* nothing behind.                                                          *)

Untouched(c) == ~effect[c] /\ inbox[c] = {}

FirstAttempt(c) ==
  attempt[c] = 1 =>
    /\ inbox[c] \subseteq {1}
    /\ inbox[c] # {} => ~effect[c]
    /\ pc[c] = "send" \/ answer[c] = "rejected" => Untouched(c)
    /\ result[c] = "failed" /\ Clashing[c] = {} => Untouched(c)
    /\ result[c] # "none" => pc[c] = "done"

FirstAttempts == \A c \in Command : FirstAttempt(c)

LEMMA FirstAttemptsInductive ==
  TypeOK /\ FirstAttempts /\ [Next]_vars => FirstAttempts'
<1> SUFFICES ASSUME TypeOK, FirstAttempts, [Next]_vars, NEW d \in Command
             PROVE  FirstAttempt(d)'
  BY DEF FirstAttempts
<1> USE DEF FirstAttempt, Untouched, TypeOK
<1>0. FirstAttempt(d)
  BY DEF FirstAttempts
<1>1. ASSUME NEW c \in Command, NEW n \in Attempt, Commit(c, n)
      PROVE  FirstAttempt(d)'
  BY <1>0, <1>1 DEF Commit, Decide
<1>2. ASSUME NEW c \in Command, NEW n \in Attempt, Refuse(c, n)
      PROVE  FirstAttempt(d)'
  BY <1>0, <1>2 DEF Refuse, Decide
<1>3. ASSUME NEW c \in Command, Send(c) PROVE FirstAttempt(d)'
  BY <1>0, <1>3 DEF Send
<1>4. ASSUME NEW c \in Command, Hear(c) PROVE FirstAttempt(d)'
  BY <1>0, <1>4 DEF Hear, Return
<1>5. ASSUME NEW c \in Command, NEW k \in Fault, Fails(c, k)
      PROVE  FirstAttempt(d)'
  BY <1>0, <1>5 DEF Fails
<1>6. ASSUME NEW c \in Command, Reconcile(c) PROVE FirstAttempt(d)'
  BY <1>0, <1>6 DEF Reconcile, Return, Retry, GiveUp, Clash
<1>7. CASE UNCHANGED vars
  BY <1>0, <1>7
<1> QED
  BY <1>1, <1>2, <1>3, <1>4, <1>5, <1>6, <1>7 DEF Next, Participant, Calls

\* Whatever the other processes and the network do, a failure reported to the
\* first attempt means that the command has no effect and never will.
THEOREM FirstRefusal == Spec => []FirstRefusalIsFinal
<1>1. Init => FirstAttempts
  BY DEF Init, FirstAttempts, FirstAttempt, Untouched
<1>2. FirstAttempts => FirstRefusalIsFinal
  BY DEF FirstAttempts, FirstAttempt, Untouched, FirstRefusalIsFinal
<1> QED
  BY <1>1, <1>2, TypeCorrect, FirstAttemptsInductive, PTL DEF Spec

-----------------------------------------------------------------------------
(* The closure.  Once a command has committed, the contracts it consumed    *)
(* are gone for good, so a closure that looks for them finds its evidence.  *)

Consumed == \A c \in Command : effect[c] => Consumes[c] \intersect active = {}

LEMMA ConsumedInductive == TypeOK /\ Consumed /\ [Next]_vars => Consumed'
<1> SUFFICES ASSUME TypeOK, Consumed, [Next]_vars, NEW d \in Command, effect'[d]
             PROVE  Consumes[d] \intersect active' = {}
  BY DEF Consumed
<1>1. ASSUME NEW c \in Command, NEW n \in Attempt, Commit(c, n)
      PROVE  Consumes[d] \intersect active' = {}
  <2>1. active' = (active \ Consumes[c]) \union Creates[c]
    BY <1>1 DEF Commit
  <2>2. c = d \/ effect[d]
    BY <1>1 DEF Commit, TypeOK
  <2>3. Creates[c] \intersect Consumes[d] = {}
    BY ContractIds
  <2> QED
    BY <2>1, <2>2, <2>3 DEF Consumed
<1>2. CASE UNCHANGED <<active, effect>>
  BY <1>2 DEF Consumed
<1> QED
  BY <1>1, <1>2 DEF Next, Participant, Calls, Refuse, Send, Hear, Fails, Reconcile

LEMMA AskingShowsCommit ==
  ASSUME Consumed, [Next]_vars, TypeOK, NEW c \in Command,
         Reconciler[c] = "gone", effect[c], pc[c] = "reconcile", pc'[c] # "reconcile"
  PROVE  pc'[c] = "done" /\ result'[c] \in {"reconciled", "ambiguous"}
<1>1. Reconcile(c)
  BY DEF Next, Participant, Calls, Commit, Refuse, Decide, Send, Hear, Fails,
         Reconcile, Return, Retry, GiveUp, TypeOK, client
<1>2. Evidence(c) /\ ~Clash(c)
  BY ContractIds DEF Evidence, Clash, Consumed
<1>3. \A r : Return(c, r) => pc'[c] = "done" /\ result'[c] = r
  BY DEF Return, TypeOK
<1> QED
  BY <1>1, <1>2, <1>3 DEF Reconcile

\* For any commands and closures: a call that asks its closure after the command
\* has committed does not decide to submit again, and does not report a failure.
THEOREM CommitSeen == Spec => CommitSeenWhenAsked
<1>1. Init => Consumed
  BY DEF Init, Consumed
<1>2. TypeOK /\ Consumed /\ [Next]_vars =>
        [\A c \in Command :
           Reconciler[c] = "gone" /\ effect[c] /\ pc[c] = "reconcile" /\ pc'[c] # "reconcile"
             => pc'[c] = "done" /\ result'[c] \in {"reconciled", "ambiguous"}]_vars
  BY AskingShowsCommit
<1> QED
  BY <1>1, <1>2, TypeCorrect, ConsumedInductive, PTL DEF Spec, CommitSeenWhenAsked

-----------------------------------------------------------------------------
(* Success.  A call hears "ok" only from a participant that committed its   *)
(* command, and what the ledger holds was there at the start or committed   *)
(* by somebody.                                                             *)

Committed ==
  \A c \in Command :
    /\ answer[c] = "ok" => effect[c]
    /\ result[c] = "ok" => effect[c]
    /\ pc[c] # "done" => result[c] = "none"

Origin == \A x \in active : x \in Initial \/ \E d \in Command : effect[d] /\ x \in Creates[d]

LEMMA CommittedInductive == TypeOK /\ Committed /\ [Next]_vars => Committed'
<1> SUFFICES ASSUME TypeOK, Committed, [Next]_vars PROVE Committed'
  OBVIOUS
<1> USE DEF Committed, TypeOK
<1>1. ASSUME NEW c \in Command, NEW n \in Attempt, Commit(c, n) PROVE Committed'
  BY <1>1 DEF Commit, Decide
<1>2. ASSUME NEW c \in Command, NEW n \in Attempt, Refuse(c, n) PROVE Committed'
  BY <1>2 DEF Refuse, Decide
<1>3. ASSUME NEW c \in Command, Send(c) PROVE Committed'
  BY <1>3 DEF Send
<1>4. ASSUME NEW c \in Command, Hear(c) PROVE Committed'
  BY <1>4 DEF Hear, Return
<1>5. ASSUME NEW c \in Command, NEW k \in Fault, Fails(c, k) PROVE Committed'
  BY <1>5 DEF Fails
<1>6. ASSUME NEW c \in Command, Reconcile(c) PROVE Committed'
  BY <1>6 DEF Reconcile, Return, Retry, GiveUp
<1>7. CASE UNCHANGED vars
  BY <1>7
<1> QED
  BY <1>1, <1>2, <1>3, <1>4, <1>5, <1>6, <1>7 DEF Next, Participant, Calls

\* Every step either commits one command or leaves the ledger as it is.
LEMMA LedgerStep ==
  ASSUME [Next]_vars, TypeOK
  PROVE  \/ UNCHANGED <<active, effect>>
         \/ /\ UNCHANGED <<result, pc>>
            /\ \E c \in Command : /\ active' = (active \ Consumes[c]) \union Creates[c]
                                  /\ effect' = [effect EXCEPT ![c] = TRUE]
  BY DEF Next, Participant, Commit, Refuse, Decide, Calls, Send, Hear, Fails, Reconcile

LEMMA OriginInductive == TypeOK /\ Origin /\ [Next]_vars => Origin'
  BY LedgerStep DEF Origin, TypeOK

LEMMA NothingOpenInductive ==
  TypeOK /\ Consumed /\ Committed /\ SuccessLeavesNothingOpen /\ [Next]_vars
    => SuccessLeavesNothingOpen'
<1> SUFFICES ASSUME TypeOK, Consumed, Committed, SuccessLeavesNothingOpen, [Next]_vars,
                    NEW d \in Command
             PROVE  /\ result'[d] = "ok" => Consumes[d] \intersect active' = {}
                    /\ result'[d] = "reconciled" /\ Reconciler[d] = "gone"
                         => Watched[d] \intersect active' = {}
  BY DEF SuccessLeavesNothingOpen
<1>1. result'[d] = "ok" => Consumes[d] \intersect active' = {}
  BY ConsumedInductive, CommittedInductive DEF Consumed, Committed
<1>2. ASSUME result'[d] = "reconciled", Reconciler[d] = "gone"
      PROVE  Watched[d] \intersect active' = {}
  <2>1. CASE result[d] = "reconciled"
    <3>1. Watched[d] \intersect active = {}
      BY <1>2, <2>1 DEF SuccessLeavesNothingOpen
    <3>2. \A c \in Command : Watched[d] \intersect Creates[c] = {}
      BY <1>2, ContractIds
    <3> QED
      BY <3>1, <3>2, LedgerStep
  <2>2. CASE result[d] # "reconciled"
    <3>1. Reconcile(d)
      BY <1>2, <2>2 DEF Next, Participant, Commit, Refuse, Decide, Calls, Send, Hear, Fails,
         Reconcile, Return, Retry, GiveUp, TypeOK
    <3>2. Evidence(d) /\ UNCHANGED active
      BY <1>2, <2>2, <3>1 DEF Reconcile, Return, Retry, GiveUp, TypeOK
    <3> QED
      BY <1>2, <3>2 DEF Evidence
  <2> QED
    BY <2>1, <2>2
<1> QED
  BY <1>1, <1>2

\* For any commands and processes: nothing that a successful call was to archive
\* is ever active again, whoever archived it.
THEOREM NothingLeftOpen == Spec => []SuccessLeavesNothingOpen
<1>1. Init => Consumed /\ Committed /\ SuccessLeavesNothingOpen
  BY DEF Init, Consumed, Committed, SuccessLeavesNothingOpen
<1> QED
  BY <1>1, TypeCorrect, ConsumedInductive, CommittedInductive, NothingOpenInductive, PTL
     DEF Spec

LEMMA MadeInductive ==
  TypeOK /\ Origin /\ Committed /\ SuccessMeansMade /\ [Next]_vars => SuccessMeansMade'
<1> SUFFICES ASSUME TypeOK, Origin, Committed, SuccessMeansMade, [Next]_vars,
                    NEW c \in Command, Reconciler[c] = "made",
                    result'[c] \in {"ok", "reconciled"}
             PROVE  \/ \E d \in Command : effect'[d] /\ Creates[d] \intersect Watched[c] # {}
                    \/ Watched[c] \intersect Initial # {}
  BY DEF SuccessMeansMade
<1>0. \A d \in Command : effect[d] => effect'[d]
  BY LedgerStep DEF TypeOK
<1>1. CASE result'[c] = result[c]
  BY <1>0, <1>1 DEF SuccessMeansMade
<1>2. CASE result'[c] = "ok"
  <2>1. effect'[c]
    BY <1>2, CommittedInductive DEF Committed
  <2> QED
    BY <2>1, ContractIds
<1>3. CASE result'[c] = "reconciled" /\ result'[c] # result[c]
  <2>1. Reconcile(c)
    BY <1>3 DEF Next, Participant, Commit, Refuse, Decide, Calls, Send, Hear, Fails,
       Reconcile, Return, Retry, GiveUp, TypeOK
  <2>2. Evidence(c)
    BY <1>3, <2>1 DEF Reconcile, Return, Retry, GiveUp, TypeOK
  <2>3. PICK x \in Watched[c] : x \in active
    BY <2>2 DEF Evidence
  <2> QED
    BY <1>0, <2>3 DEF Origin
<1> QED
  BY <1>1, <1>2, <1>3

\* For any commands and processes: a create that is reported as a success exists
\* because some call made it or because it was there from the start.
THEOREM SuccessIsMade == Spec => []SuccessMeansMade
<1>1. Init => Origin /\ Committed /\ SuccessMeansMade
  BY DEF Init, Origin, Committed, SuccessMeansMade
<1> QED
  BY <1>1, TypeCorrect, OriginInductive, CommittedInductive, MadeInductive, PTL DEF Spec
=============================================================================
