--------------------------- MODULE MCNettingCycles ---------------------------
(***************************************************************************)
(* Two processes and three sessions: two sessions in a row and a third     *)
(* that a race, a failed query or a late command opens beside them.        *)
(***************************************************************************)
EXTENDS NettingCycles, TLC

CONSTANTS s1, s2, s3, p1, p2, o1

Alike == Permutations({s1, s2, s3}) \union Permutations({p1, p2})

\* Bounds: MaxLate commands are outstanding at once, and one session is
\* cancelled at most and none while a command is outstanding.  A command that
\* can no longer commit need not be kept: it might as well never have been
\* outstanding.
SmallScope ==
  /\ Cardinality(late) + Cardinality({s \in Session : cycle[s].status = "cancelled"}) <= MaxLate
  /\ \A cmd \in late : cmd.choice = "Create" \/ Exercisable(cmd.cid)
=============================================================================
