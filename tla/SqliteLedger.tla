---------------------------- MODULE SqliteLedger ----------------------------
(***************************************************************************)
(* Callers of the ledger over the local SQLite file: the threads of the    *)
(* tutor server, which open a connection per request, and CLI commands     *)
(* (other processes).  The file is in WAL mode: readers never wait, there  *)
(* is one writer at a time.                                                *)
(*                                                                         *)
(* Python's sqlite3 begins a transaction before an INSERT, UPDATE or       *)
(* DELETE and not before a SELECT.  So append_events, record_interview,    *)
(* create_task and replace_derived take the write lock with their first    *)
(* statement and are one step; complete_task reads the row BEFORE its      *)
(* transaction begins and is two.                                          *)
(***************************************************************************)
EXTENDS LedgerState

CONSTANTS Threads,      \* the connections
          Ops,          \* the write operations they make
          MaxFaults     \* bound on lock timeouts and killed processes

ASSUME OpsAssumption == Ops \subseteq WriteOps
ASSUME MaxFaultsAssumption == MaxFaults \in Nat

VARIABLES pc,       \* where the caller is in its call
          req,      \* the operation it makes
          result,   \* what each call returned, by call
          calls,    \* number of calls made so far
          faults    \* number of faults so far

vars == <<log, tasks, profile, derived, pc, req, result, calls, faults>>

NoRequest == [op |-> "none", call |-> 0, attempt |-> 0, task |-> 0, upto |-> 0]

TypeOK ==
  /\ LedgerTypeOK
  /\ pc \in [Threads -> {"idle", "write", "update", "load", "replace"}]
  /\ req \in [Threads -> Request \union {NoRequest}]
  /\ result \in [Calls -> {"none", "ok", "error"}]
  /\ calls \in 0..MaxCalls
  /\ faults \in 0..MaxFaults

Init ==
  /\ LedgerInit
  /\ pc = [c \in Threads |-> "idle"]
  /\ req = [c \in Threads |-> NoRequest]
  /\ result = [k \in Calls |-> "none"]
  /\ calls = 0
  /\ faults = 0

----------------------------------------------------------------------------

Return(c, answer) ==
  /\ pc' = [pc EXCEPT ![c] = "idle"]
  /\ req' = [req EXCEPT ![c] = NoRequest]
  /\ result' = [result EXCEPT ![req[c].call] = answer]

Goto(c, label) ==
  /\ pc' = [pc EXCEPT ![c] = label]
  /\ UNCHANGED <<req, result, calls, faults>>

Start(c, op, t) ==
  /\ pc[c] = "idle"
  /\ calls < MaxCalls
  /\ calls' = calls + 1
  /\ req' = [req EXCEPT ![c] = [op |-> op, call |-> calls + 1, attempt |-> 0,
                                task |-> t, upto |-> 0]]
  /\ pc' = [pc EXCEPT ![c] = "write"]
  /\ UNCHANGED <<log, tasks, profile, derived, result, faults>>

(* The transactions of append_events, record_interview and create_task. *)
WriteNote(c) ==
  /\ pc[c] = "write" /\ req[c].op = "append"
  /\ AppendNote(req[c])
  /\ Goto(c, "load")

WriteInterview(c) ==
  /\ pc[c] = "write" /\ req[c].op = "interview"
  /\ RecordInterview(req[c])
  /\ Goto(c, "load")

CreateTask(c) ==
  /\ pc[c] = "write" /\ req[c].op = "create"
  /\ InsertTask(req[c])
  /\ Goto(c, "load")

(* complete_task, first half: the SELECT and the two checks on the row. *)
CheckTask(c) ==
  /\ pc[c] = "write"
  /\ req[c].op = "complete"
  /\ IF Open(req[c].task)
     THEN Goto(c, "update")
     ELSE Return(c, "error") /\ UNCHANGED <<calls, faults>>
  /\ UNCHANGED <<log, tasks, profile, derived>>

(* Mutant of UpdateTask: the row is updated without its event. *)
UpdateRowOnly(c) ==
  /\ pc[c] = "update"
  /\ tasks' = [tasks EXCEPT ![req[c].task] = "done"]
  /\ UNCHANGED <<log, profile, derived>>
  /\ Goto(c, "load")

(* Second half, one transaction: the UPDATE, which does not look at the    *)
(* status again, and the task_done event.                                  *)
UpdateTask(c) ==
  /\ pc[c] = "update"
  /\ MarkTaskDone(req[c])
  /\ Goto(c, "load")

(* Mutant of Load: the events are read before the write is in. *)
LoadAllButLast(c) ==
  /\ pc[c] = "load"
  /\ req' = [req EXCEPT ![c].op = "replace", ![c].upto = Len(log) - 1]
  /\ pc' = [pc EXCEPT ![c] = "replace"]
  /\ UNCHANGED <<log, tasks, profile, derived, result, calls, faults>>

(* derive.rebuild: load_events and derive(). *)
Load(c) ==
  /\ pc[c] = "load"
  /\ req' = [req EXCEPT ![c].op = "replace", ![c].upto = Len(log)]
  /\ pc' = [pc EXCEPT ![c] = "replace"]
  /\ UNCHANGED <<log, tasks, profile, derived, result, calls, faults>>

Replace(c) ==
  /\ pc[c] = "replace"
  /\ ReplaceDerived(req[c].upto)
  /\ Return(c, "ok")
  /\ UNCHANGED <<calls, faults>>

(* "database is locked": another connection keeps the write lock longer    *)
(* than the busy timeout (5 s).  Or the process is killed, which rolls the *)
(* transaction back.  Either way the call ends where it stands.            *)
LockedOrKilled(c) ==
  /\ pc[c] # "idle"
  /\ faults < MaxFaults
  /\ faults' = faults + 1
  /\ Return(c, "error")
  /\ UNCHANGED <<log, tasks, profile, derived, calls>>

----------------------------------------------------------------------------

Step(c) ==
  \/ WriteNote(c) \/ WriteInterview(c) \/ CreateTask(c) \/ CheckTask(c) \/ UpdateTask(c)
  \/ Load(c) \/ Replace(c) \/ LockedOrKilled(c)

StartAny(c) ==
  \/ \E op \in Ops \ {"complete"} : Start(c, op, 0)
  \/ /\ "complete" \in Ops
     /\ \E t \in 1..(Len(tasks) + 1) : Start(c, "complete", t)

Next == \E c \in Threads : StartAny(c) \/ Step(c)

Spec == Init /\ [][Next]_vars

----------------------------------------------------------------------------
(* Properties *)

(* Rows and events agree for any number of threads: a row has one          *)
(* task_created event and it is done exactly when a later task_done event  *)
(* is in the log.  (That there is only one task_done event is DoneOnce.)   *)
(* The profile is the last interview's and no rebuild cuts an interview:   *)
(* record_interview is one transaction.                                    *)
RowsMatchLog == CreationsLogged /\ CompletionsLogged /\ InterviewAtomic

(* A task that is done once stays done once: complete_task refuses a       *)
(* finished task ("は完了済み").                                            *)
TaskDoneOnce == DoneOnce

(* A call that returns success has its own event in the derived tables.    *)
ReplyShowsOwnWrite ==
  [][\A c \in Threads :
       (pc[c] # "idle" /\ result'[req[c].call] = "ok") =>
          \E i \in Positions' : log'[i].call = req[c].call /\ i <= derived']_vars

(* The SQLite file implements the abstract ledger up to the first time two *)
(* connections complete one task.                                          *)
Abstract == INSTANCE AbstractLedger
  WITH MaxCalls <- MaxCalls, log <- log, tasks <- tasks, profile <- profile, derived <- derived
ImplementsLedgerOnceDone ==
  LedgerInit /\ [][DoneOnce' => [Abstract!Next]_ledgerVars]_vars

=============================================================================
