---------------------------- MODULE CommandClient ----------------------------
(***************************************************************************)
(* RealLedgerClient._post for command writes (agent/real_client.py): one   *)
(* submission, one retry after a backoff, and before each decision the     *)
(* caller's before_retry closure, which reads the ledger for evidence that *)
(* the command committed after all.  Several calls run at once: the        *)
(* console, the CLI and the scripts are separate processes, and POST_LOCK  *)
(* orders only the console's own.                                          *)
(*                                                                         *)
(* The participant is external.  It applies a command at most once (both   *)
(* attempts carry the same commandId, and a consumed contract cannot be    *)
(* exercised again), in its own time, whether or not anybody still waits.  *)
(***************************************************************************)
EXTENDS Naturals

CONSTANTS
  Command,     \* the write calls
  Contract,    \* contract ids
  Initial,     \* the contracts active at the start
  Consumes,    \* [Command -> SUBSET Contract]: what the command archives
  Creates,     \* [Command -> SUBSET Contract]: what it creates
  Reconciler,  \* [Command -> {"none", "gone", "made"}]: the kind of before_retry
  Watched,     \* [Command -> SUBSET Contract]: the contracts before_retry looks for
  Clashing     \* [Command -> SUBSET Contract]: obligations with the command's
               \* reference and other fields

ASSUME CommandTerms ==
  /\ Initial \subseteq Contract
  /\ Consumes \in [Command -> SUBSET Contract]
  /\ Creates \in [Command -> SUBSET Contract]
  /\ Watched \in [Command -> SUBSET Contract]
  /\ Clashing \in [Command -> SUBSET Contract]
  /\ Reconciler \in [Command -> {"none", "gone", "made"}]

\* A closure that waits for contracts to disappear looks only at contracts the
\* command archives, one that looks for a contract would know the one the command
\* creates, and a contract id is never created twice.
ASSUME ContractIds ==
  \A c \in Command :
    /\ Reconciler[c] = "gone" => Watched[c] \subseteq Consumes[c]
    /\ Reconciler[c] = "made" => Watched[c] \intersect Creates[c] # {}
    /\ \A d \in Command : Creates[c] \intersect Consumes[d] = {}
    /\ Creates[c] \intersect Initial = {}

Attempt == {1, 2}
Fault == {"busy",        \* HTTP 429 or 5xx
          "timeout",     \* no answer in time
          "urltimeout",  \* could not connect in time
          "transport"}   \* connection refused or broken, unreadable answer

VARIABLES
  active,   \* the contracts active on the ledger
  effect,   \* [Command -> BOOLEAN]: the command has committed
  inbox,    \* [Command -> SUBSET Attempt]: submissions the participant has yet to decide
  pc,       \* [Command -> {"send", "await", "reconcile", "done"}]
  attempt,  \* [Command -> Attempt]
  answer,   \* [Command -> Answer] to the attempt the call is waiting for
  fault,    \* [Command -> Fault \union {"none"}]
  result    \* [Command -> Result]: what the caller is told

Answer == {"none", "lost",     \* not waiting; waiting, but the request never arrived
           "pending", "ok", "rejected"}
Result == {"none", "ok", "reconciled", "ambiguous", "failed"}

ledger == <<active, effect, inbox>>
client == <<pc, attempt, fault, result>>
vars == <<active, effect, inbox, pc, attempt, answer, fault, result>>

TypeOK ==
  /\ active \subseteq Contract
  /\ effect \in [Command -> BOOLEAN]
  /\ inbox \in [Command -> SUBSET Attempt]
  /\ pc \in [Command -> {"send", "await", "reconcile", "done"}]
  /\ attempt \in [Command -> Attempt]
  /\ answer \in [Command -> Answer]
  /\ fault \in [Command -> Fault \union {"none"}]
  /\ result \in [Command -> Result]

Init ==
  /\ active = Initial
  /\ effect = [c \in Command |-> FALSE]
  /\ inbox = [c \in Command |-> {}]
  /\ pc = [c \in Command |-> "send"]
  /\ attempt = [c \in Command |-> 1]
  /\ answer = [c \in Command |-> "none"]
  /\ fault = [c \in Command |-> "none"]
  /\ result = [c \in Command |-> "none"]

-----------------------------------------------------------------------------
(* The participant.                                                        *)

Decide(c, n, verdict) ==
  /\ n \in inbox[c]
  /\ inbox' = [inbox EXCEPT ![c] = @ \ {n}]
  /\ answer' = IF pc[c] = "await" /\ n = attempt[c]
               THEN [answer EXCEPT ![c] = verdict] ELSE answer
  /\ UNCHANGED client

Commit(c, n) ==
  /\ Decide(c, n, "ok")
  /\ ~effect[c] /\ Consumes[c] \subseteq active
  /\ effect' = [effect EXCEPT ![c] = TRUE]
  /\ active' = (active \ Consumes[c]) \union Creates[c]

\* A 4xx: a guard of the choice, an inactive input, or a duplicate of a
\* submission that is in flight or was applied.
Refuse(c, n) == Decide(c, n, "rejected") /\ UNCHANGED <<active, effect>>

-----------------------------------------------------------------------------
(* The caller.                                                             *)

Send(c) ==
  /\ pc[c] = "send"
  /\ pc' = [pc EXCEPT ![c] = "await"]
  /\ \/ /\ inbox' = [inbox EXCEPT ![c] = @ \union {attempt[c]}]
        /\ answer' = [answer EXCEPT ![c] = "pending"]
     \/ answer' = [answer EXCEPT ![c] = "lost"] /\ UNCHANGED inbox
  /\ UNCHANGED <<active, effect, attempt, fault, result>>

Return(c, r) ==
  /\ result' = [result EXCEPT ![c] = r]
  /\ pc' = [pc EXCEPT ![c] = "done"]

\* An answer that arrives whole is final: 2xx is success, 4xx a failure.
Hear(c) ==
  /\ pc[c] = "await" /\ answer[c] \in {"ok", "rejected"}
  /\ Return(c, IF answer[c] = "ok" THEN "ok" ELSE "failed")
  /\ answer' = [answer EXCEPT ![c] = "none"]
  /\ UNCHANGED <<active, effect, inbox, attempt, fault>>

\* Mutant: a 429 or 5xx is returned as it is.
BusyIsFinal(c, k) ==
  /\ pc[c] = "await"
  /\ k = "urltimeout" => answer[c] = "lost"
  /\ fault' = [fault EXCEPT ![c] = k]
  /\ answer' = [answer EXCEPT ![c] = "none"]
  /\ IF k = "busy" THEN Return(c, "failed")
     ELSE pc' = [pc EXCEPT ![c] = "reconcile"] /\ UNCHANGED result
  /\ UNCHANGED <<active, effect, inbox, attempt>>

\* A fault may hide an answer that was already on its way.  Only a failure to
\* connect shows that this attempt did not arrive.
Fails(c, k) ==
  /\ pc[c] = "await"
  /\ k = "urltimeout" => answer[c] = "lost"
  /\ fault' = [fault EXCEPT ![c] = k]
  /\ answer' = [answer EXCEPT ![c] = "none"]
  /\ pc' = [pc EXCEPT ![c] = "reconcile"]
  /\ UNCHANGED <<active, effect, inbox, attempt, result>>

\* Mutant: one missing contract is taken for a commit.
SomeGone(c) ==
  \/ Reconciler[c] = "gone" /\ \E x \in Watched[c] : x \notin active
  \/ Reconciler[c] = "made" /\ Watched[c] \intersect active # {}

\* Mutant: an obligation with the reference is enough, whatever its fields.
SameReference(c) ==
  \/ Reconciler[c] = "gone" /\ Watched[c] \intersect active = {}
  \/ Reconciler[c] = "made" /\ (Watched[c] \union Clashing[c]) \intersect active # {}

\* Mutant: the closure is consulted after timeouts only.
EvidenceAfterTimeout(c) ==
  /\ fault[c] \in {"timeout", "urltimeout"}
  /\ \/ Reconciler[c] = "gone" /\ Watched[c] \intersect active = {}
     \/ Reconciler[c] = "made" /\ Watched[c] \intersect active # {}

\* What before_retry takes as proof of a commit.
Evidence(c) ==
  \/ Reconciler[c] = "gone" /\ Watched[c] \intersect active = {}
  \/ Reconciler[c] = "made" /\ Watched[c] \intersect active # {}

Clash(c) == Reconciler[c] = "made" /\ Clashing[c] \intersect active # {}

\* Mutant: the loop starts over instead of counting its attempts.
RetryForever(c) ==
  /\ pc' = [pc EXCEPT ![c] = "send"]
  /\ UNCHANGED <<attempt, result>>

\* Mutant: one attempt too many.
RetryTwice(c) ==
  /\ attempt[c] <= 2
  /\ attempt' = [attempt EXCEPT ![c] = @ + 1]
  /\ pc' = [pc EXCEPT ![c] = "send"]
  /\ UNCHANGED result

Retry(c) ==
  /\ attempt[c] = 1
  /\ attempt' = [attempt EXCEPT ![c] = 2]
  /\ pc' = [pc EXCEPT ![c] = "send"]
  /\ UNCHANGED result

\* The last return for a timeout while connecting carries no _ambiguous flag.
GiveUp(c) ==
  /\ attempt[c] = 2
  /\ Return(c, IF fault[c] = "urltimeout" THEN "failed" ELSE "ambiguous")
  /\ UNCHANGED attempt

\* The query of the closure and the decision.  Between the decision to retry and
\* Send lies the backoff, in which anything may commit.
Reconcile(c) ==
  /\ pc[c] = "reconcile"
  /\ \/ Evidence(c) /\ Return(c, "reconciled") /\ UNCHANGED attempt
     \/ Clash(c) /\ Return(c, "failed") /\ UNCHANGED attempt
     \/ \* the query of the closure failed
        Reconciler[c] # "none" /\ Return(c, "ambiguous") /\ UNCHANGED attempt
     \/ /\ ~Evidence(c) /\ ~Clash(c)
        /\ IF fault[c] = "transport"
           THEN Return(c, "ambiguous") /\ UNCHANGED attempt
           ELSE Retry(c) \/ GiveUp(c)
  /\ fault' = [fault EXCEPT ![c] = "none"]
  /\ UNCHANGED <<active, effect, inbox, answer>>

-----------------------------------------------------------------------------
Calls(c) == Send(c) \/ Hear(c) \/ (\E k \in Fault : Fails(c, k)) \/ Reconcile(c)

Participant == \E c \in Command, n \in Attempt : Commit(c, n) \/ Refuse(c, n)

Next == Participant \/ \E c \in Command : Calls(c)

\* urlopen has a timeout and the loop is sequential code, so a call keeps
\* moving; nothing is assumed of the participant.
Fairness == \A c \in Command : WF_vars(Calls(c))

Spec == Init /\ [][Next]_vars /\ Fairness

-----------------------------------------------------------------------------
(* Properties.                                                             *)

\* A call that reports success leaves nothing open: after an answer, none of the
\* contracts it was to archive is active; after reconciliation, neither the
\* batch nor any of its obligations is, even when other processes discharged or
\* cancelled some of them meanwhile (settle_committed).
SuccessLeavesNothingOpen ==
  \A c \in Command :
    /\ result[c] = "ok" => Consumes[c] \intersect active = {}
    /\ result[c] = "reconciled" /\ Reconciler[c] = "gone"
         => Watched[c] \intersect active = {}

\* A create that reports success was made: by this call or, with the same
\* reference and fields, by another process seeding the same book, or before
\* either of them; an obligation with the reference and another amount never
\* counts as it (_existing_reference, _obligation_matches).
SuccessMeansMade ==
  \A c \in Command :
    result[c] \in {"ok", "reconciled"} /\ Reconciler[c] = "made"
      => \/ \E d \in Command : effect[d] /\ Creates[d] \intersect Watched[c] # {}
         \/ Watched[c] \intersect Initial # {}

\* A failure reported to the FIRST attempt is final: the command has not
\* committed, and no submission of it is left that could still commit
\* ("Logical 4xx responses are returned immediately").
FirstRefusalIsFinal ==
  \A c \in Command :
    result[c] = "failed" /\ attempt[c] = 1 /\ Clashing[c] = {}
      => ~effect[c] /\ inbox[c] = {}

\* A call that asks after its command has committed learns it: what it then decides
\* is neither to submit again nor to report a failure, but a commit, or an open
\* outcome if the query failed.  It speaks of the decision: a submission that is
\* still open may commit after the query, during the backoff, and the second is
\* sent all the same ("retry only for an ambiguous timeout or a transient 429/5xx").
CommitSeenWhenAsked ==
  [][\A c \in Command :
       Reconciler[c] = "gone" /\ effect[c] /\ pc[c] = "reconcile" /\ pc'[c] # "reconcile"
         => pc'[c] = "done" /\ result'[c] \in {"reconciled", "ambiguous"}]_vars

\* Every call returns, whatever the participant and the network do.
EveryCallReturns == \A c \in Command : <>(result[c] # "none")

\* console_server.py 313-315: a settlement result that is not ambiguous says
\* "settlement failed; nothing moved in the final atomic settlement".
FailedMeansNothingMoved ==
  \A c \in Command : Reconciler[c] = "gone" /\ result[c] = "failed" => ~effect[c]
=============================================================================
