---------------------------- MODULE FeedbackSync ----------------------------
(***************************************************************************)
(* Feedback from the reports: the user opens an issue about a concept, a   *)
(* job turns the open ones into events of the ledger and then closes them. *)
(* In CI these are the steps feedback-import and feedback-close, with a    *)
(* receipt (the numbers to close) between them, and again the beginning of *)
(* the morning command, as in a shell.                                     *)
(***************************************************************************)
EXTENDS JobState

CONSTANT PageSize   \* issues in the one page that is read: 100

ASSUME PageAssumption == PageSize \in Nat \ {0}

VARIABLE toClose    \* issues_to_close, the receipt

FeedbackTypeOK == toClose \in [Runners -> SUBSET Nat]

FeedbackInit == toClose = [p \in Runners |-> {}]

(* The user opens an issue from a report's link, or with a title of his    *)
(* own.                                                                    *)
OpenIssue(about) ==
  /\ Cardinality({i \in DOMAIN issues : issues[i].about \in Feedback}) < MaxFeedback
  /\ issues' = Append(issues, [about |-> about, open |-> TRUE])
  /\ UNCHANGED <<noted, tasks, pc, recorded, sending, attempt, netVars, toClose>>

(* The page: the oldest open issues of the repository, of any kind. *)
FirstPage ==
  {i \in OpenIssues : Cardinality({j \in OpenIssues : j < i}) < PageSize}

(* _recorded_issue_numbers: the events are read before the issues. *)
BeginSync(p) ==
  /\ pc[p] = "idle"
  /\ recorded' = [recorded EXCEPT ![p] = BagToSet(noted)]
  /\ pc' = [pc EXCEPT ![p] = "list"]
  /\ UNCHANGED <<serverVars, sending, attempt, netVars, toClose>>

Importable(p) == {i \in FirstPage \ recorded[p] : issues[i].about = "known"}

(* Mutants of List: the receipt has all issues of the page; or only those  *)
(* imported in this run.                                                   *)
ListClosingAll(p) ==
  /\ pc[p] = "list"
  /\ toClose' = [toClose EXCEPT ![p] = {i \in FirstPage : issues[i].about \in Feedback}]
  /\ IF Importable(p) = {} THEN Answered(p, "close") ELSE Send(p, "append", Importable(p))
  /\ UNCHANGED <<serverVars, recorded, netVars>>

ListClosingNew(p) ==
  /\ pc[p] = "list"
  /\ toClose' = [toClose EXCEPT ![p] = Importable(p)]
  /\ IF Importable(p) = {} THEN Answered(p, "close") ELSE Send(p, "append", Importable(p))
  /\ UNCHANGED <<serverVars, recorded, netVars>>

(* An issue recorded before is only closed, one about an unknown concept   *)
(* is left alone, the others are appended together.                        *)
List(p) ==
  /\ pc[p] = "list"
  /\ toClose' = [toClose EXCEPT ![p] = (FirstPage \intersect recorded[p]) \union Importable(p)]
  /\ IF Importable(p) = {} THEN Answered(p, "close") ELSE Send(p, "append", Importable(p))
  /\ UNCHANGED <<serverVars, recorded, netVars>>

(* The page cannot be read: a warning and an empty receipt, and the job    *)
(* goes on.                                                                *)
ListFails(p) ==
  /\ pc[p] = "list"
  /\ Fault
  /\ Answered(p, "close")
  /\ UNCHANGED <<serverVars, recorded, late, lost, toClose>>

AppendEvents(p) ==
  /\ pc[p] = "append"
  /\ Execute("append", sending[p])
  /\ Answered(p, "rebuild")
  /\ UNCHANGED <<recorded, netVars, toClose>>

(* derive.rebuild; what it writes is SupabaseLedger's subject. *)
Rebuild(p) ==
  /\ pc[p] = "rebuild"
  /\ Answered(p, "close")
  /\ UNCHANGED <<serverVars, recorded, netVars, toClose>>

(* The issues of the receipt in ascending order.  A failed PATCH, of which *)
(* the server may have done its part, is a warning.                        *)
CloseNext(p) ==
  /\ pc[p] = "close" /\ toClose[p] # {}
  /\ \E i \in toClose[p] :
       /\ \A j \in toClose[p] : i <= j
       /\ toClose' = [toClose EXCEPT ![p] = @ \ {i}]
       /\ \/ issues' = [issues EXCEPT ![i].open = FALSE] /\ UNCHANGED faults
          \/ issues' = issues /\ Fault
  /\ UNCHANGED <<noted, tasks, pc, recorded, sending, attempt, late, lost>>

EndSync(p) ==
  /\ pc[p] = "close" /\ toClose[p] = {}
  /\ Answered(p, "idle")
  /\ recorded' = [recorded EXCEPT ![p] = {}]
  /\ UNCHANGED <<serverVars, netVars, toClose>>

SyncStep(p) ==
  \/ List(p) \/ ListFails(p) \/ AppendEvents(p) \/ Rebuild(p)
  \/ CloseNext(p) \/ EndSync(p)

=============================================================================
