--------------------------- MODULE SupabaseLedger ---------------------------
(***************************************************************************)
(* Callers of the ledger (tutor tools, the morning job, the importers)     *)
(* over the Supabase backend.  A call is a write request, then a rebuild:  *)
(* a GET of all events, derive() in the caller, and a request that         *)
(* replaces the derived tables.  Each request is one server transaction,   *)
(* but nothing makes the three of them one.                                *)
(*                                                                         *)
(* SupabaseLedger._request sends a request again, once, after a transport  *)
(* error or a 5xx.  A request whose answer the caller stopped waiting for  *)
(* goes to stray: the server may execute it at any later time, or never    *)
(* (a timeout does not say which).                                         *)
(*                                                                         *)
(* GETs have no effect and are retried likewise; the two attempts of one   *)
(* are one step here, Load or FailWithoutEffect.  A log of one page (1000  *)
(* rows) is read in one request.                                           *)
(***************************************************************************)
EXTENDS LedgerState

CONSTANTS Clients,      \* processes that hold a ledger client
          Ops,          \* the write operations they make
          MaxFaults     \* bound on lost requests, failed GETs and crashes

ASSUME OpsAssumption == Ops \subseteq WriteOps
ASSUME MaxFaultsAssumption == MaxFaults \in Nat

VARIABLES pc,       \* what the caller waits for: its write, its GET, its replace
          req,      \* the request in its hands
          result,   \* what each call returned, by call
          stray,    \* requests given up on that the server may still execute
          calls,    \* number of calls made so far
          faults    \* number of faults so far

vars == <<log, tasks, profile, derived, pc, req, result, stray, calls, faults>>

Results == {"none", "ok", "error"}

NoRequest == [op |-> "none", call |-> 0, attempt |-> 0, task |-> 0, upto |-> 0]

TypeOK ==
  /\ LedgerTypeOK
  /\ pc \in [Clients -> {"idle", "write", "load", "replace"}]
  /\ req \in [Clients -> Request \union {NoRequest}]
  /\ result \in [Calls -> Results]
  /\ stray \subseteq Request
  /\ calls \in 0..MaxCalls
  /\ faults \in 0..MaxFaults

Init ==
  /\ LedgerInit
  /\ pc = [c \in Clients |-> "idle"]
  /\ req = [c \in Clients |-> NoRequest]
  /\ result = [k \in Calls |-> "none"]
  /\ stray = {}
  /\ calls = 0
  /\ faults = 0

----------------------------------------------------------------------------
(* The server: one transaction per request *)

(* Mutant of Refused: no check of the row's status. *)
RefusedIfMissing(r) == r.op = "complete" /\ r.task \notin TaskIds

(* complete_task of a task that does not exist or is done raises; the row  *)
(* lock of its SELECT ... FOR UPDATE makes check and update one step.      *)
Refused(r) == r.op = "complete" /\ ~Open(r.task)

Apply(r) ==
  /\ ~Refused(r)
  /\ \/ r.op = "append" /\ AppendNote(r)
     \/ r.op = "interview" /\ RecordInterview(r)
     \/ r.op = "create" /\ InsertTask(r)
     \/ r.op = "complete" /\ MarkTaskDone(r)
     \/ r.op = "replace" /\ ReplaceDerived(r.upto)

(* A request given up on is executed after all; its answer goes nowhere. *)
ServeStray(m) ==
  /\ m \in stray
  /\ stray' = stray \ {m}
  /\ Apply(m) \/ (Refused(m) /\ UNCHANGED ledgerVars)
  /\ UNCHANGED <<pc, req, result, calls, faults>>

----------------------------------------------------------------------------
(* The caller *)

(* Something goes wrong with the caller's request or with the caller. *)
Fault ==
  /\ faults < MaxFaults
  /\ faults' = faults + 1

Return(c, answer) ==
  /\ pc' = [pc EXCEPT ![c] = "idle"]
  /\ req' = [req EXCEPT ![c] = NoRequest]
  /\ result' = [result EXCEPT ![req[c].call] = answer]

(* A tool or a job calls record_feedback, quiz, update_profile, create_task *)
(* or complete_task; the id of a task to complete is the user's choice.     *)
Start(c, op, t) ==
  /\ pc[c] = "idle"
  /\ calls < MaxCalls
  /\ calls' = calls + 1
  /\ req' = [req EXCEPT ![c] = [op |-> op, call |-> calls + 1, attempt |-> 0,
                                task |-> t, upto |-> 0]]
  /\ pc' = [pc EXCEPT ![c] = "write"]
  /\ UNCHANGED <<log, tasks, profile, derived, result, stray, faults>>

(* Mutant of WriteOk: success is reported without the rebuild. *)
WriteOkNoRebuild(c) ==
  /\ pc[c] = "write"
  /\ Apply(req[c])
  /\ Return(c, "ok")
  /\ UNCHANGED <<stray, calls, faults>>

WriteOk(c) ==
  /\ pc[c] = "write"
  /\ Apply(req[c])
  /\ pc' = [pc EXCEPT ![c] = "load"]
  /\ UNCHANGED <<req, result, stray, calls, faults>>

(* Mutant of WriteRefused: a 4xx is sent again until it succeeds. *)
WriteRefusedResent(c) ==
  /\ pc[c] = "write"
  /\ Refused(req[c])
  /\ UNCHANGED vars

(* The server raised: HTTP 400, no retry, and no rebuild either. *)
WriteRefused(c) ==
  /\ pc[c] = "write"
  /\ Refused(req[c])
  /\ Return(c, "error")
  /\ UNCHANGED <<log, tasks, profile, derived, stray, calls, faults>>

(* Mutant of Load: the GET returns some prefix (a lagging replica). *)
LoadPartly(c) ==
  /\ pc[c] = "load"
  /\ \E n \in 0..Len(log) :
       req' = [req EXCEPT ![c] = [op |-> "replace", call |-> @.call, attempt |-> 0,
                                  task |-> 0, upto |-> n]]
  /\ pc' = [pc EXCEPT ![c] = "replace"]
  /\ UNCHANGED <<log, tasks, profile, derived, result, stray, calls, faults>>

(* load_events, and derive() on what it returned. *)
Load(c) ==
  /\ pc[c] = "load"
  /\ req' = [req EXCEPT ![c] = [op |-> "replace", call |-> @.call, attempt |-> 0,
                                task |-> 0, upto |-> Len(log)]]
  /\ pc' = [pc EXCEPT ![c] = "replace"]
  /\ UNCHANGED <<log, tasks, profile, derived, result, stray, calls, faults>>

ReplaceOk(c) ==
  /\ pc[c] = "replace"
  /\ Apply(req[c])
  /\ Return(c, "ok")
  /\ UNCHANGED <<stray, calls, faults>>

(* Two replace_derived transactions overlap.  The second one's DELETE does *)
(* not see the rows of the first, its INSERT then violates their primary   *)
(* keys: it is rolled back (HTTP 409) and the first one's rows stay.  That *)
(* is so when both insert rows into both tables.  Where one inserts none   *)
(* nothing collides, and in an empty table no DELETE waits: the concepts   *)
(* of one and the edges of the other can then stay together.  derived is   *)
(* one number and leaves that out.                                         *)
ReplaceConflict(c) ==
  /\ pc[c] = "replace"
  /\ \/ \E d \in Clients \ {c} :
          /\ pc[d] = "replace"
          /\ Apply(req[d])
          /\ pc' = [pc EXCEPT ![c] = "idle", ![d] = "idle"]
          /\ req' = [req EXCEPT ![c] = NoRequest, ![d] = NoRequest]
          /\ result' = [result EXCEPT ![req[c].call] = "error", ![req[d].call] = "ok"]
          /\ UNCHANGED stray
     \/ \E m \in stray :
          /\ m.op = "replace"
          /\ Apply(m)
          /\ stray' = stray \ {m}
          /\ Return(c, "error")
  /\ UNCHANGED <<calls, faults>>

(* Mutants of Retry: range(3) instead of range(2); an attempt that is not  *)
(* counted.                                                                *)
RetryTwice(c) ==
  /\ Fault
  /\ pc[c] \in {"write", "replace"}
  /\ stray' = stray \union {req[c]}
  /\ req' = [req EXCEPT ![c].attempt = @ + 1]
  /\ UNCHANGED <<log, tasks, profile, derived, pc, result, calls>>

RetryUncounted(c) ==
  /\ Fault
  /\ pc[c] \in {"write", "replace"}
  /\ stray' = stray \union {req[c]}
  /\ UNCHANGED <<log, tasks, profile, derived, pc, req, result, calls>>

(* A transport error or a 5xx on the first attempt: the same request is    *)
(* sent once more, whatever became of the first.                           *)
Retry(c) ==
  /\ Fault
  /\ pc[c] \in {"write", "replace"}
  /\ req[c].attempt = 0
  /\ stray' = stray \union {req[c]}
  /\ req' = [req EXCEPT ![c].attempt = 1]
  /\ UNCHANGED <<log, tasks, profile, derived, pc, result, calls>>

(* The same on the second attempt: SupabaseUnavailableError. *)
GiveUp(c) ==
  /\ Fault
  /\ pc[c] \in {"write", "replace"}
  /\ req[c].attempt = 1
  /\ stray' = stray \union {req[c]}
  /\ Return(c, "error")
  /\ UNCHANGED <<log, tasks, profile, derived, calls>>

(* 401 or 403 on any request, or no answer to both attempts of the GET:    *)
(* the call fails where it stands, what it wrote before stays.             *)
FailWithoutEffect(c) ==
  /\ Fault
  /\ pc[c] # "idle"
  /\ Return(c, "error")
  /\ UNCHANGED <<log, tasks, profile, derived, stray, calls>>

(* The caller's process ends (function timeout, killed job) with its       *)
(* request, if it had sent one, on the way.                                *)
Crash(c) ==
  /\ Fault
  /\ pc[c] # "idle"
  /\ stray' = IF pc[c] = "load" THEN stray ELSE stray \union {req[c]}
  /\ Return(c, "error")
  /\ UNCHANGED <<log, tasks, profile, derived, calls>>

----------------------------------------------------------------------------

Step(c) ==
  \/ WriteOk(c) \/ WriteRefused(c) \/ Load(c) \/ ReplaceOk(c) \/ ReplaceConflict(c)
  \/ Retry(c) \/ GiveUp(c) \/ FailWithoutEffect(c) \/ Crash(c)

StartAny(c) ==
  \/ \E op \in Ops \ {"complete"} : Start(c, op, 0)
  \/ /\ "complete" \in Ops
     /\ \E t \in 1..(Len(tasks) + 1) : Start(c, "complete", t)

Next ==
  \/ \E c \in Clients : StartAny(c) \/ Step(c)
  \/ \E m \in stray : ServeStray(m)

Spec == Init /\ [][Next]_vars

(* A request ends by its answer or by the client's timeout (20 s), so a    *)
(* call in progress goes on; nothing makes a caller start one, or the      *)
(* server execute a stray request.                                         *)
FairSpec == Spec /\ \A c \in Clients : WF_vars(Step(c))

----------------------------------------------------------------------------
(* Properties *)

(* The row status of every task and the event log agree: each row has one  *)
(* task_created event, is done exactly when there is a task_done event,    *)
(* later than the creation, and there is at most one, although requests    *)
(* are repeated, arrive late and come from several callers.  It is what    *)
(* astrolabe_create_task and astrolabe_complete_task write tasks and       *)
(* events in one transaction, under the row lock, for.                     *)
TasksMatchLog == TaskLogAgree

(* The profile is the one of the last interview in the log, and no rebuild *)
(* sees half an interview: what astrolabe_record_interview promises.       *)
ProfileMatchesLog == InterviewAtomic

(* One attempt of a call inserts its events at most once: the retry of     *)
(* _request can duplicate a write, and nothing else can, not even a        *)
(* request the server executes after the caller has moved on.              *)
AttemptInsertsOnce ==
  \A i, j \in Positions :
     (/\ log[i].call = log[j].call
      /\ log[i].attempt = log[j].attempt
      /\ log[i].kind = log[j].kind) => i = j

(* When a call returns success, the derived tables come from a log that    *)
(* holds its event: in the very step in which its rebuild is done, the     *)
(* caller can read what it recorded.                                       *)
ReplyShowsOwnWrite ==
  [][\A c \in Clients :
       (pc[c] # "idle" /\ result'[req[c].call] = "ok") =>
          \E i \in Positions' : log'[i].call = req[c].call /\ i <= derived']_vars

(* Every call returns, whatever is lost: the retry is bounded. *)
CallReturns == \A c \in Clients : pc[c] # "idle" ~> pc[c] = "idle"

(* Every write is atomic and every change of the derived tables is a       *)
(* rebuild from a past log: the backend implements what it promises.       *)
Abstract == INSTANCE AbstractLedger
  WITH MaxCalls <- MaxCalls, log <- log, tasks <- tasks, profile <- profile, derived <- derived
ImplementsLedger == Abstract!Spec

(* A single caller gets the stronger promise until something fails: no     *)
(* rebuild takes the derived tables back to an older log.                  *)
FreshUntilFault ==
  LedgerInit /\ [][faults' = 0 => [Abstract!FreshNext]_ledgerVars]_vars

Quiet == (\A c \in Clients : pc[c] = "idle") /\ stray = {}

(* While nothing has failed and between its calls, refused ones included,  *)
(* the concepts and edges of a single caller are derive() of ALL events,   *)
(* as rebuild()'s docstring says.                                          *)
QuietMeansFresh == (Quiet /\ faults = 0) => derived = Len(log)

(* When nothing is on the way, the tables show every call that was         *)
(* acknowledged: a graded quiz has changed the confidence of its concept.  *)
AckedVisible ==
  Quiet => \A k \in Calls : result[k] = "ok" =>
             \E i \in Positions : log[i].call = k /\ i <= derived

=============================================================================
