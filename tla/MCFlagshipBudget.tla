-------------------------- MODULE MCFlagshipBudget --------------------------
(* Instances of FlagshipBudget for TLC. *)
EXTENDS FlagshipBudget

CONSTANTS t1, t2, w1, m1, s1, s2, s3

(* Every process under a run id of its own. *)
OwnRunIds ==
  [p \in Procs |-> CASE p = t1 -> s1 [] p = t2 -> s2 [] p = w1 -> s3 [] p = m1 -> s2]

(* All tutor requests in one session. *)
SharedRunIds == [p \in Procs |-> IF p = m1 THEN s2 ELSE s1]

=============================================================================
