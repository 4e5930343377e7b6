--------------------------- MODULE AbstractLedger ---------------------------
(***************************************************************************)
(* What either ledger backend promises its callers, whatever its internal  *)
(* steps: every write is one atomic step that keeps the tables and the     *)
(* event log in agreement, the log only grows, a task is completed at most *)
(* once, and the concepts and edges tables only ever change as a whole, to *)
(* what derive() computes from some prefix of the log.  It promises        *)
(* nothing about WHICH prefix: see FreshNext.                              *)
(***************************************************************************)
EXTENDS LedgerState

Writes(r) ==
  \/ r.op = "append" /\ AppendNote(r)
  \/ r.op = "interview" /\ RecordInterview(r)
  \/ r.op = "create" /\ InsertTask(r)
  \/ r.op = "complete" /\ Open(r.task) /\ MarkTaskDone(r)

Write == \E op \in WriteOps, k \in Calls, a \in 0..1, t \in TaskIds \union {0} :
           Writes([op |-> op, call |-> k, attempt |-> a, task |-> t, upto |-> 0])

Rebuild == \E n \in 0..Len(log) : ReplaceDerived(n)

Next == Write \/ Rebuild

Spec == LedgerInit /\ [][Next]_ledgerVars

(* The stronger promise, which only a single caller over a reliable link   *)
(* gets: a rebuild never takes the derived tables back to an older log.    *)
FreshNext == Write \/ \E n \in derived..Len(log) : ReplaceDerived(n)

FreshSpec == LedgerInit /\ [][FreshNext]_ledgerVars

=============================================================================
