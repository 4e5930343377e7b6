---------------------------- MODULE LedgerState ----------------------------
(***************************************************************************)
(* The durable state of the learning ledger and the effect of each of its  *)
(* write transactions on it, shared by the two backends (SupabaseLedger,   *)
(* SqliteLedger) and by the specification of what both promise             *)
(* (AbstractLedger).                                                       *)
(*                                                                         *)
(*   log      the events table, append-only, in commit order               *)
(*   tasks    the tasks table: the status of the task with id i            *)
(*   profile  the call whose interview wrote the profile row, 0 when the   *)
(*            row does not exist                                           *)
(*   derived  the concepts and edges tables.  They are always the output   *)
(*            of the pure function derive() on some prefix of the log (see *)
(*            Derive.tla for the function); the variable is the length of  *)
(*            that prefix.                                                 *)
(*                                                                         *)
(* An event keeps what the properties tell apart: its type, the task it is *)
(* about (0 for none), and, as ghost fields, the API call and the attempt  *)
(* of that call that inserted it.                                          *)
(***************************************************************************)
EXTENDS Naturals, Sequences

CONSTANT MaxCalls   \* bound on the calls made to the ledger in a behaviour

ASSUME MaxCallsAssumption == MaxCalls \in Nat

VARIABLES log, tasks, profile, derived

ledgerVars == <<log, tasks, profile, derived>>

Calls == 1..MaxCalls

Positions == 1..Len(log)    \* of the events in the log
TaskIds == 1..Len(tasks)     \* the ids of the rows of tasks

EventKinds == {"note", "interview", "marked_known", "task_created", "task_done"}

Event == [kind : EventKinds, call : Calls, attempt : 0..1, task : Nat]

WriteOps == {"append", "interview", "create", "complete"}

(* A request as it goes over the wire: task is the task_id of a complete,  *)
(* upto the prefix of the log a replace_derived was computed from.         *)
Request == [op : WriteOps \union {"replace"}, call : Calls, attempt : 0..1,
            task : Nat, upto : Nat]

LedgerTypeOK ==
  /\ log \in Seq(Event)
  /\ tasks \in Seq({"open", "done"})
  /\ profile \in 0..MaxCalls
  /\ derived \in Nat

LedgerInit ==
  /\ log = << >>
  /\ tasks = << >>
  /\ profile = 0
  /\ derived = 0

Entry(kind, r, t) == [kind |-> kind, call |-> r.call, attempt |-> r.attempt, task |-> t]

Open(t) == t \in TaskIds /\ tasks[t] = "open"

----------------------------------------------------------------------------
(* The write transactions *)

(* One INSERT into events: feedback, a graded quiz, a proposed topic. *)
AppendNote(r) ==
  /\ log' = Append(log, Entry("note", r, 0))
  /\ UNCHANGED <<tasks, profile, derived>>

(* Profile upsert, the interview event and its marked_known events (one    *)
(* stands for the list) in one transaction.                                *)
RecordInterview(r) ==
  /\ log' = Append(Append(log, Entry("interview", r, 0)), Entry("marked_known", r, 0))
  /\ profile' = r.call
  /\ UNCHANGED <<tasks, derived>>

(* A new row of tasks, its id the next one, and its task_created event. *)
InsertTask(r) ==
  /\ tasks' = Append(tasks, "open")
  /\ log' = Append(log, Entry("task_created", r, Len(tasks) + 1))
  /\ UNCHANGED <<profile, derived>>

(* The UPDATE of the row and the task_done event; the caller has checked   *)
(* the row's status, under a row lock (Supabase) or without one (SQLite).  *)
MarkTaskDone(r) ==
  /\ r.task \in TaskIds
  /\ tasks' = [tasks EXCEPT ![r.task] = "done"]
  /\ log' = Append(log, Entry("task_done", r, r.task))
  /\ UNCHANGED <<profile, derived>>

(* Delete every derived row and insert those computed from the first n     *)
(* events.                                                                 *)
ReplaceDerived(n) ==
  /\ derived' = n
  /\ UNCHANGED <<log, tasks, profile>>

----------------------------------------------------------------------------
(* What the log and the tables say about each other *)

IsCreation(i, t) == log[i].kind = "task_created" /\ log[i].task = t
IsCompletion(i, t) == log[i].kind = "task_done" /\ log[i].task = t

(* A row of tasks has its task_created event and an event about a task has *)
(* a row, and no task is created twice.                                    *)
CreationsLogged ==
  /\ \A t \in TaskIds : \E i \in Positions : IsCreation(i, t)
  /\ \A i \in Positions :
        log[i].kind \in {"task_created", "task_done"} => log[i].task \in TaskIds
  /\ \A t \in TaskIds : \A i, j \in Positions :
        IsCreation(i, t) /\ IsCreation(j, t) => i = j

(* The status of a row is "done" exactly when the log holds a task_done    *)
(* event for it, and no task is done before it is created.                 *)
CompletionsLogged ==
  /\ \A t \in TaskIds :
        tasks[t] = "done" <=> \E i \in Positions : IsCompletion(i, t)
  /\ \A t \in TaskIds : \A i, j \in Positions :
        IsCreation(i, t) /\ IsCompletion(j, t) => i < j

(* No task is completed twice: every task_done event adds its delta to the *)
(* confidence of the concept and counts as a review of it.                 *)
DoneOnce ==
  \A t \in TaskIds : \A i, j \in Positions :
     IsCompletion(i, t) /\ IsCompletion(j, t) => i = j

TaskLogAgree == CreationsLogged /\ CompletionsLogged /\ DoneOnce

(* The profile row is the one the last interview of the log wrote. *)
ProfileIsLastInterview ==
  \/ profile = 0 /\ \A i \in Positions : log[i].kind # "interview"
  \/ \E i \in Positions :
        /\ log[i].kind = "interview" /\ log[i].call = profile
        /\ \A j \in Positions : log[j].kind = "interview" => j <= i

(* The first n events are whole transactions: an interview is not cut from *)
(* the concepts it marks as known.                                         *)
Cut(n) == n \in 0..Len(log) /\ \A i \in Positions : log[i].kind = "interview" => n # i

InterviewAtomic == ProfileIsLastInterview /\ Cut(derived)

=============================================================================
