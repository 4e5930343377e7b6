------------------------- MODULE SqliteLedgerProofs -------------------------
(***************************************************************************)
(* Safety of SqliteLedger for any number of connections, calls and faults. *)
(* Without DoneOnce, which the code does not keep: what is proved is that  *)
(* nothing else goes wrong with it, and that as long as no task is done    *)
(* twice the file implements AbstractLedger.                               *)
(***************************************************************************)
EXTENDS SqliteLedger, LedgerStateProofs

CallersTypeOK ==
  /\ pc \in [Threads -> {"idle", "write", "update", "load", "replace"}]
  /\ req \in [Threads -> Request \union {NoRequest}]
  /\ result \in [Calls -> {"none", "ok", "error"}]
  /\ calls \in 0..MaxCalls
  /\ faults \in 0..MaxFaults

(* A caller past its write finds its event in the log, and the log it has  *)
(* loaded is a cut that holds it.                                          *)
RequestsFit ==
  \A c \in Threads :
     /\ pc[c] # "idle" => req[c] \in Request /\ req[c].call <= calls
     /\ pc[c] = "load" => \E i \in Positions : log[i].call = req[c].call
     /\ pc[c] = "replace" =>
           /\ Cut(req[c].upto)
           /\ \E i \in Positions : log[i].call = req[c].call /\ i <= req[c].upto

(* A call has one caller, and no result before it ends. *)
ResultsFit ==
  /\ \A c, d \in Threads :
        pc[c] # "idle" /\ pc[d] # "idle" /\ req[c].call = req[d].call => c = d
  /\ \A c \in Threads : pc[c] # "idle" => result[req[c].call] = "none"
  /\ \A k \in Calls : k > calls => result[k] = "none"

LedgerFits == LedgerTypeOK /\ RowsMatchLog /\ Cut(Len(log))

IInv == CallersTypeOK /\ LedgerFits /\ RequestsFit /\ ResultsFit

----------------------------------------------------------------------------
(* The ledger *)

(* What a step does to the file: one write transaction, a rebuild from a   *)
(* cut of the log, or nothing.                                             *)
LEMMA StepOnFile ==
  ASSUME IInv, [Next]_vars
  PROVE  \/ \E c \in Threads : pc[c] \in {"write", "update"} /\ Inserts(req[c])
         \/ UNCHANGED <<log, tasks, profile>> /\ Cut(derived')
  <1>1. UNCHANGED ledgerVars => UNCHANGED <<log, tasks, profile>> /\ Cut(derived')
    BY DEF ledgerVars, IInv, LedgerFits, RowsMatchLog, InterviewAtomic
  <1>2. ASSUME NEW c \in Threads, Step(c)
        PROVE  \/ pc[c] \in {"write", "update"} /\ Inserts(req[c])
               \/ UNCHANGED <<log, tasks, profile>> /\ Cut(derived')
    <2>1. CASE Replace(c)
      BY <2>1 DEF Replace, ReplaceDerived, IInv, RequestsFit
    <2>2. CASE ~Replace(c)
      BY <1>1, <1>2, <2>2 DEF Step, WriteNote, WriteInterview, CreateTask, CheckTask,
         UpdateTask, Load, LockedOrKilled, Inserts, ledgerVars
    <2>3. QED
      BY <2>1, <2>2
  <1>3. ASSUME NEW c \in Threads, StartAny(c)
        PROVE  UNCHANGED ledgerVars
    BY <1>3 DEF StartAny, Start, ledgerVars
  <1>4. CASE UNCHANGED vars
    BY <1>1, <1>4 DEF vars, ledgerVars
  <1>5. QED
    BY <1>1, <1>2, <1>3, <1>4 DEF Next

(* The log keeps its entries, and its cuts. *)
LogKept ==
  /\ \A i \in Positions : i \in Positions' /\ log'[i] = log[i]
  /\ \A n \in Nat : Cut(n) => Cut(n)'

LEMMA LedgerNext ==
  ASSUME IInv, [Next]_vars
  PROVE  LedgerFits' /\ LogKept
  <1>1. LedgerTypeOK /\ RowsAgree /\ InterviewAtomic /\ Cut(Len(log))
    BY DEF IInv, LedgerFits, RowsMatchLog, RowsAgree
  <1>2. ASSUME NEW c \in Threads, pc[c] \in {"write", "update"}, Inserts(req[c])
        PROVE  LedgerFits' /\ LogKept
    <2>1. req[c] \in Request
      BY <1>2 DEF IInv, RequestsFit
    <2>2. LedgerTypeOK' /\ RowsAgree' /\ InterviewAtomic' /\ Cut(Len(log))'
      BY <1>1, <1>2, <2>1, InsertsKeepLedger
    <2>3. LogKept
      BY <1>1, <1>2, <2>1, LogGrows, CutsStay DEF LogKept
    <2>4. QED
      BY <2>2, <2>3 DEF LedgerFits, RowsMatchLog, RowsAgree
  <1>3. CASE UNCHANGED <<log, tasks, profile>> /\ Cut(derived')
    <2>1. /\ RowsAgree' /\ InterviewAtomic' /\ Positions' = Positions
          /\ \A n : Cut(n)' <=> Cut(n)
      BY <1>1, <1>3, CutsKeepLedger
    <2>2. LedgerTypeOK'
      BY <1>1, <1>3 DEF LedgerTypeOK, Cut
    <2>3. Cut(Len(log))'
      BY <1>1, <1>3, <2>1 DEF Cut
    <2>4. QED
      BY <1>3, <2>1, <2>2, <2>3 DEF LedgerFits, LogKept, RowsMatchLog, RowsAgree
  <1>4. QED
    BY <1>2, <1>3, StepOnFile

----------------------------------------------------------------------------
(* The callers *)

(* Caller c ends its call, with an answer or without. *)
LEMMA ReturnKeepsFit ==
  ASSUME IInv, LogKept, NEW c \in Threads, pc[c] # "idle",
         NEW answer \in {"ok", "error"}, Return(c, answer), calls' = calls,
         faults' \in 0..MaxFaults
  PROVE  CallersTypeOK' /\ RequestsFit' /\ ResultsFit'
  <1>1. req[c] \in Request /\ req[c].call \in Calls
    BY DEF IInv, RequestsFit, Request
  <1>2. CallersTypeOK'
    BY <1>1 DEF IInv, CallersTypeOK, Return
  <1>3. \A d \in Threads : pc'[d] # "idle" => d # c /\ pc'[d] = pc[d] /\ req'[d] = req[d]
    BY DEF IInv, CallersTypeOK, Return
  <1>4. \A d \in Threads : pc[d] = "replace" => req[d].upto \in Nat
    BY DEF IInv, RequestsFit, Request
  <1>5. RequestsFit'
    BY <1>3, <1>4 DEF IInv, RequestsFit, LogKept, Cut
  <1>6. \A k \in Calls : k # req[c].call => result'[k] = result[k]
    BY DEF IInv, CallersTypeOK, Return
  <1>7. \A d \in Threads : pc[d] # "idle" => req[d].call \in Calls
    BY DEF IInv, RequestsFit, Request
  <1>8. ResultsFit'
    <2>1. \A k \in Calls : k > calls' => result'[k] = "none"
      BY <1>1, <1>6 DEF IInv, ResultsFit, RequestsFit, Calls, CallersTypeOK
    <2>2. QED
      BY <1>3, <1>6, <1>7, <2>1 DEF IInv, ResultsFit
  <1>9. QED
    BY <1>2, <1>5, <1>8

(* Caller c goes on in its call. *)
LEMMA GoingOnKeepsFit ==
  ASSUME IInv, LogKept, NEW c \in Threads, pc[c] # "idle",
         NEW label \in {"update", "load", "replace"}, NEW r \in Request,
         r.call = req[c].call,
         pc' = [pc EXCEPT ![c] = label], req' = [req EXCEPT ![c] = r],
         UNCHANGED <<result, calls, faults>>,
         label = "load" => \E i \in Positions' : log'[i].call = r.call,
         label = "replace" =>
            Cut(r.upto)' /\ \E i \in Positions' : log'[i].call = r.call /\ i <= r.upto
  PROVE  CallersTypeOK' /\ RequestsFit' /\ ResultsFit'
  <1>1. CallersTypeOK'
    BY DEF IInv, CallersTypeOK
  <1>2. /\ pc'[c] = label /\ req'[c] = r
        /\ \A d \in Threads : d # c => pc'[d] = pc[d] /\ req'[d] = req[d]
    BY DEF IInv, CallersTypeOK
  <1>3. \A d \in Threads : pc[d] = "replace" => req[d].upto \in Nat
    BY DEF IInv, RequestsFit, Request
  <1>4. ASSUME NEW d \in Threads
        PROVE  /\ pc'[d] # "idle" => req'[d] \in Request /\ req'[d].call <= calls'
               /\ pc'[d] = "load" => \E i \in Positions' : log'[i].call = req'[d].call
               /\ pc'[d] = "replace" =>
                     /\ Cut(req[d].upto)'
                     /\ \E i \in Positions' : log'[i].call = req'[d].call /\ i <= req'[d].upto
    <2>1. CASE d = c
      BY <1>2, <2>1 DEF IInv, RequestsFit, Cut
    <2>2. CASE d # c
      BY <1>2, <1>3, <2>2 DEF IInv, RequestsFit, LogKept, Cut
    <2>3. QED
      BY <2>1, <2>2
  <1>5. RequestsFit'
    BY <1>4 DEF RequestsFit
  <1>6. ResultsFit'
    BY <1>2 DEF IInv, ResultsFit
  <1>7. QED
    BY <1>1, <1>5, <1>6

LEMMA StartKeepsFit ==
  ASSUME IInv, LogKept, NEW c \in Threads, NEW op \in WriteOps, NEW t \in Nat, Start(c, op, t)
  PROVE  CallersTypeOK' /\ RequestsFit' /\ ResultsFit'
  <1> DEFINE r == [op |-> op, call |-> calls + 1, attempt |-> 0, task |-> t, upto |-> 0]
  <1>1. calls \in Nat /\ calls' = calls + 1 /\ calls' \in 0..MaxCalls /\ calls + 1 \in Calls
    BY MaxCallsAssumption DEF Start, IInv, CallersTypeOK, Calls
  <1>2. r \in Request /\ r.call = calls + 1
    BY <1>1 DEF Request
  <1>3. pc' = [pc EXCEPT ![c] = "write"] /\ req' = [req EXCEPT ![c] = r]
    BY DEF Start
  <1> HIDE DEF r
  <1>4. CallersTypeOK'
    BY <1>1, <1>2, <1>3 DEF IInv, CallersTypeOK, Start
  <1>5. /\ pc'[c] = "write" /\ req'[c] = r
        /\ \A d \in Threads : d # c => pc'[d] = pc[d] /\ req'[d] = req[d]
    BY <1>3 DEF IInv, CallersTypeOK
  <1>6. \A d \in Threads : pc[d] # "idle" =>
           req[d].call \in Calls /\ req[d].call <= calls /\ req[d].upto \in Nat
    BY DEF IInv, RequestsFit, Request
  <1>7. RequestsFit'
    <2>1. ASSUME NEW d \in Threads
          PROVE  /\ pc'[d] # "idle" => req'[d] \in Request /\ req'[d].call <= calls'
                 /\ pc'[d] = "load" => \E i \in Positions' : log'[i].call = req'[d].call
                 /\ pc'[d] = "replace" =>
                       /\ Cut(req[d].upto)'
                       /\ \E i \in Positions' :
                             log'[i].call = req'[d].call /\ i <= req'[d].upto
      <3>1. CASE d = c
        BY <1>1, <1>2, <1>5, <3>1
      <3>2. CASE d # c
        <4>1. req[d].call <= calls => req[d].call <= calls' \/ pc[d] = "idle"
          BY <1>1, <1>6 DEF Calls
        <4>2. QED
          BY <1>5, <1>6, <3>2, <4>1 DEF IInv, RequestsFit, LogKept, Cut
      <3>3. QED
        BY <3>1, <3>2
    <2>2. QED
      BY <2>1, <1>5 DEF RequestsFit, Cut
  <1>8. ResultsFit'
    <2>1. result' = result
      BY DEF Start
    <2>2. \A d \in Threads : d # c /\ pc[d] # "idle" => req[d].call # calls + 1
      BY <1>1, <1>6 DEF Calls
    <2>3. \A k \in Calls : k > calls' => result'[k] = "none"
      BY <1>1, <2>1 DEF IInv, ResultsFit, Calls
    <2>4. result[calls + 1] = "none"
      BY <1>1 DEF IInv, ResultsFit, Calls
    <2>5. QED
      BY <1>2, <1>5, <2>1, <2>2, <2>3, <2>4 DEF IInv, ResultsFit
  <1>9. QED
    BY <1>4, <1>7, <1>8

LEMMA CallersNext ==
  ASSUME IInv, [Next]_vars, LogKept
  PROVE  CallersTypeOK' /\ RequestsFit' /\ ResultsFit'
  <1>1. ASSUME NEW c \in Threads, pc[c] \in {"write", "update"}, Inserts(req[c]), Goto(c, "load")
        PROVE  CallersTypeOK' /\ RequestsFit' /\ ResultsFit'
    <2>1. req[c] \in Request /\ LedgerTypeOK /\ req' = [req EXCEPT ![c] = req[c]]
      BY <1>1 DEF IInv, RequestsFit, LedgerFits, CallersTypeOK, Goto
    <2>2. Len(log') \in Positions' /\ Len(log') \notin Positions
      BY <1>1, <2>1, LogGrows DEF Positions
    <2>3. \E i \in Positions' : log'[i].call = req[c].call
      BY <1>1, <2>1, <2>2, LogGrows
    <2>4. QED
      BY <1>1, <2>1, <2>3, GoingOnKeepsFit DEF Goto
  <1>2. ASSUME NEW c \in Threads, Step(c)
        PROVE  CallersTypeOK' /\ RequestsFit' /\ ResultsFit'
    <2>1. CASE WriteNote(c) \/ WriteInterview(c) \/ CreateTask(c) \/ UpdateTask(c)
      BY <1>1, <2>1 DEF WriteNote, WriteInterview, CreateTask, UpdateTask, Inserts
    <2>2. CASE CheckTask(c)
      <3>1. CASE Open(req[c].task)
        <4>1. req[c] \in Request /\ req' = [req EXCEPT ![c] = req[c]]
          BY <2>2, <3>1 DEF CheckTask, Goto, IInv, RequestsFit, CallersTypeOK
        <4>2. QED
          BY <2>2, <3>1, <4>1, GoingOnKeepsFit DEF CheckTask, Goto
      <3>2. CASE ~Open(req[c].task)
        BY <2>2, <3>2, ReturnKeepsFit DEF CheckTask, IInv, CallersTypeOK
      <3>3. QED
        BY <3>1, <3>2
    <2>3. CASE Load(c)
      <3>1. pc[c] = "load" /\ req[c] \in Request
        BY <2>3 DEF Load, IInv, RequestsFit
      <3>2. PICK q \in Request : q = req[c]
        BY <3>1
      <3>3. log' = log /\ Len(log) \in Nat /\ Positions' = Positions
        BY <2>3 DEF Load, IInv, LedgerFits, LedgerTypeOK, Positions
      <3>4. PICK n \in Nat : n = Len(log)
        BY <3>3
      <3> DEFINE r == [q EXCEPT !.op = "replace", !.upto = n]
      <3>5. r \in Request /\ r.call = q.call /\ r.upto = n
        BY DEF Request
      <3>6. req' = [req EXCEPT ![c] = r]
        BY <2>3, <3>2, <3>4 DEF Load
      <3> HIDE DEF r
      <3>7. Cut(n)' /\ \E i \in Positions' : log'[i].call = r.call /\ i <= r.upto
        <4>1. Cut(n)'
          BY <3>3, <3>4 DEF IInv, LedgerFits, Cut
        <4>2. PICK i \in Positions : log[i].call = req[c].call
          BY <3>1 DEF IInv, RequestsFit
        <4>3. i <= n
          BY <3>4 DEF Positions
        <4>4. QED
          BY <3>2, <3>3, <3>5, <4>1, <4>2, <4>3
      <3>8. Cut(r.upto)'
        BY <3>5, <3>7 DEF Cut
      <3>9. QED
        BY <2>3, <3>1, <3>2, <3>5, <3>6, <3>7, <3>8, GoingOnKeepsFit DEF Load
    <2>4. CASE Replace(c)
      BY <2>4, ReturnKeepsFit DEF Replace, IInv, CallersTypeOK
    <2>5. CASE LockedOrKilled(c)
      <3>1. faults' \in 0..MaxFaults
        BY <2>5, MaxFaultsAssumption DEF LockedOrKilled, IInv, CallersTypeOK
      <3>2. QED
        BY <2>5, <3>1, ReturnKeepsFit DEF LockedOrKilled
    <2>6. QED
      BY <1>2, <2>1, <2>2, <2>3, <2>4, <2>5 DEF Step
  <1>3. ASSUME NEW c \in Threads, StartAny(c)
        PROVE  CallersTypeOK' /\ RequestsFit' /\ ResultsFit'
    <2>1. 0 \in Nat /\ 1..(Len(tasks) + 1) \subseteq Nat
      BY DEF IInv, LedgerFits, LedgerTypeOK
    <2>2. QED
      BY <1>3, <2>1, StartKeepsFit, OpsAssumption DEF StartAny, WriteOps
  <1>4. CASE UNCHANGED vars
    <2>1. CallersTypeOK' /\ ResultsFit'
      BY <1>4 DEF vars, IInv, CallersTypeOK, ResultsFit
    <2>2. RequestsFit'
      BY <1>4 DEF vars, IInv, RequestsFit, Cut, Positions
    <2>3. QED
      BY <2>1, <2>2
  <1>5. QED
    BY <1>2, <1>3, <1>4 DEF Next

LEMMA InitIInv == Init => IInv
  <1> SUFFICES ASSUME Init PROVE IInv
    OBVIOUS
  <1> USE DEF Init, LedgerInit
  <1>1. Positions = {} /\ TaskIds = {} /\ Len(log) = 0
    BY DEF Positions, TaskIds
  <1>2. CallersTypeOK /\ LedgerTypeOK
    BY MaxCallsAssumption, MaxFaultsAssumption DEF CallersTypeOK, LedgerTypeOK, Calls
  <1>3. RequestsFit /\ ResultsFit
    BY DEF RequestsFit, ResultsFit
  <1>4. RowsMatchLog /\ Cut(Len(log))
    BY <1>1 DEF RowsMatchLog, CreationsLogged, CompletionsLogged, InterviewAtomic,
       ProfileIsLastInterview, Cut
  <1>5. QED
    BY <1>2, <1>3, <1>4 DEF IInv, LedgerFits

LEMMA IInvAlways == Spec => []IInv
  <1>1. IInv /\ [Next]_vars => IInv'
    BY LedgerNext, CallersNext DEF IInv
  <1>2. QED
    BY <1>1, InitIInv, PTL DEF Spec

----------------------------------------------------------------------------

(* Every state has the types of TypeOK. *)
THEOREM TypeCorrect == Spec => []TypeOK
  <1>1. IInv => TypeOK
    BY DEF IInv, TypeOK, CallersTypeOK, LedgerFits
  <1>2. QED
    BY <1>1, IInvAlways, PTL

(* However many connections there are, and wherever a call is cut off, the *)
(* rows of tasks and the profile agree with the events, and no rebuild     *)
(* reads half an interview.                                                *)
THEOREM RowsAlwaysMatchLog == Spec => []RowsMatchLog
  <1>1. IInv => RowsMatchLog
    BY DEF IInv, LedgerFits
  <1>2. QED
    BY <1>1, IInvAlways, PTL

----------------------------------------------------------------------------
(* Replies *)

LEMMA OkReplyShows ==
  ASSUME IInv, [Next]_vars, NEW c \in Threads, pc[c] # "idle", result'[req[c].call] = "ok"
  PROVE  \E i \in Positions' : log'[i].call = req[c].call /\ i <= derived'
  <1>1. req[c].call \in Calls /\ result[req[c].call] = "none"
    BY DEF IInv, RequestsFit, ResultsFit, Request
  <1>2. ASSUME NEW d \in Threads, NEW answer, pc[d] # "idle", Return(d, answer)
        PROVE  d = c /\ answer = "ok"
    <2>1. req[d].call \in Calls
      BY <1>2 DEF IInv, RequestsFit, Request
    <2>2. req[d].call = req[c].call /\ answer = "ok"
      BY <1>1, <1>2, <2>1 DEF Return, IInv, CallersTypeOK
    <2>3. QED
      BY <1>2, <2>2 DEF IInv, ResultsFit
  <1>3. result' # result
    BY <1>1
  <1>4. Replace(c)
    <2>1. ASSUME NEW d \in Threads, Step(d)
          PROVE  Replace(c)
      BY <1>2, <1>3, <2>1 DEF Step, WriteNote, WriteInterview, CreateTask, CheckTask, UpdateTask,
         Load, Replace, LockedOrKilled, Goto
    <2>2. ASSUME NEW d \in Threads, StartAny(d)
          PROVE  FALSE
      BY <1>3, <2>2 DEF StartAny, Start
    <2>3. QED
      BY <1>3, <2>1, <2>2 DEF Next, vars
  <1>5. log' = log /\ derived' = req[c].upto /\ pc[c] = "replace"
    BY <1>4 DEF Replace, ReplaceDerived
  <1>6. QED
    BY <1>5 DEF IInv, RequestsFit, Positions

(* A call that returns success has put its event into the log that the     *)
(* derived tables are computed from.                                       *)
THEOREM RepliesShowOwnWrites == Spec => ReplyShowsOwnWrite
  <1>1. IInv /\ [Next]_vars =>
          \A c \in Threads :
            (pc[c] # "idle" /\ result'[req[c].call] = "ok") =>
               \E i \in Positions' : log'[i].call = req[c].call /\ i <= derived'
    BY OkReplyShows
  <1>2. QED
    BY <1>1, IInvAlways, PTL DEF Spec, ReplyShowsOwnWrite

----------------------------------------------------------------------------
(* The file implements AbstractLedger, as long as no task is done twice *)

(* The one transaction that the abstract ledger does not have marks a task *)
(* as done that is done, and leaves two task_done events for it.           *)
LEMMA DoneTwice ==
  ASSUME LedgerTypeOK, RowsAgree, NEW r \in Request, MarkTaskDone(r), ~Open(r.task)
  PROVE  ~DoneOnce'
  <1>1. r.task \in TaskIds /\ tasks[r.task] = "done"
    BY DEF MarkTaskDone, Open, LedgerTypeOK, TaskIds
  <1>2. PICK i \in Positions : IsCompletion(i, r.task)
    BY <1>1 DEF RowsAgree, CompletionsLogged
  <1> DEFINE e == Entry("task_done", r, r.task)
  <1>3. e \in Event /\ e.kind = "task_done" /\ e.task = r.task
    BY EntryIsEvent DEF EventKinds, Request
  <1>4. log' = Append(log, e) /\ Len(tasks') = Len(tasks)
    BY DEF MarkTaskDone, LedgerTypeOK
  <1> HIDE DEF e
  <1>5. PICK n \in Nat : n = Len(log) + 1
    BY DEF LedgerTypeOK
  <1>6. /\ n \in Positions' /\ i \in Positions' /\ i # n
        /\ log'[n] = e /\ log'[i] = log[i] /\ r.task \in TaskIds'
    BY <1>1, <1>3, <1>4, <1>5 DEF LedgerTypeOK, Positions, TaskIds
  <1>7. IsCompletion(n, r.task)' /\ IsCompletion(i, r.task)'
    BY <1>2, <1>3, <1>6 DEF IsCompletion
  <1>8. QED
    BY <1>6, <1>7 DEF DoneOnce

LEMMA InsertsImplement ==
  ASSUME NEW r \in Request, NEW op \in WriteOps,
         \/ op = "append" /\ AppendNote(r)
         \/ op = "interview" /\ RecordInterview(r)
         \/ op = "create" /\ InsertTask(r)
         \/ op = "complete" /\ Open(r.task) /\ MarkTaskDone(r)
  PROVE  Abstract!Next
  <1> USE DEF Abstract!Next, Abstract!Write, Abstract!Writes
  <1>1. PICK t \in TaskIds \union {0} : op = "complete" => t = r.task /\ Open(t)
    BY DEF Open
  <1> DEFINE q == [op |-> op, call |-> r.call, attempt |-> r.attempt, task |-> t, upto |-> 0]
  <1>2. r.call \in Calls /\ r.attempt \in 0..1
    BY DEF Request
  <1>3. Abstract!Writes(q)
    BY <1>1 DEF AppendNote, RecordInterview, InsertTask, MarkTaskDone, Entry, Open,
       TaskIds, Abstract!AppendNote, Abstract!RecordInterview, Abstract!InsertTask,
       Abstract!MarkTaskDone, Abstract!Entry, Abstract!Open, Abstract!TaskIds
  <1>4. QED
    BY <1>2, <1>3 DEF WriteOps, Calls, TaskIds, Abstract!WriteOps, Abstract!Calls, Abstract!TaskIds

LEMMA StepImplements ==
  ASSUME IInv, [Next]_vars, DoneOnce'
  PROVE  [Abstract!Next]_ledgerVars
  <1>1. ASSUME NEW c \in Threads, pc[c] \in {"write", "update"}, Inserts(req[c])
        PROVE  Abstract!Next
    <2>1. req[c] \in Request
      BY <1>1 DEF IInv, RequestsFit
    <2>2. MarkTaskDone(req[c]) => Open(req[c].task)
      BY <2>1, DoneTwice DEF IInv, LedgerFits, RowsMatchLog, RowsAgree
    <2>3. QED
      BY <1>1, <2>1, <2>2, InsertsImplement DEF Inserts, WriteOps
  <1>2. CASE UNCHANGED <<log, tasks, profile>> /\ Cut(derived')
    BY <1>2 DEF Cut, Abstract!Next, Abstract!Rebuild, Abstract!ReplaceDerived
  <1>3. QED
    BY <1>1, <1>2, StepOnFile

(* Up to the first step that does a task twice, every step of the file is  *)
(* one abstract write, one rebuild or nothing.                             *)
THEOREM FileImplementsLedgerOnceDone == Spec => ImplementsLedgerOnceDone
  <1>1. Init => LedgerInit
    BY DEF Init
  <1>2. IInv /\ [Next]_vars => (DoneOnce' => [Abstract!Next]_ledgerVars)
    BY StepImplements
  <1>3. QED
    BY <1>1, <1>2, IInvAlways, PTL DEF Spec, ImplementsLedgerOnceDone

=============================================================================
