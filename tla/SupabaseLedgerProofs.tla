------------------------ MODULE SupabaseLedgerProofs ------------------------
(***************************************************************************)
(* Safety of SupabaseLedger for any number of callers, calls and faults.   *)
(*                                                                         *)
(* The invariants of interest are not inductive: whether a retry or a late *)
(* request can insert twice, or a rebuild can cut an interview, depends on *)
(* the requests that are still on their way.  IInv says what those are.    *)
(***************************************************************************)
EXTENDS SupabaseLedger, LedgerStateProofs

(* No event of this attempt of this call is in the log. *)
Unapplied(r) ==
  \A i \in Positions : log[i].call = r.call => log[i].attempt # r.attempt

(* The request in a caller's hands fits the step it waits in. *)
RequestsFit ==
  \A c \in Clients :
     /\ pc[c] # "idle" => req[c] \in Request /\ req[c].call <= calls
     /\ pc[c] \in {"write", "load"} => req[c].op \in WriteOps
     /\ pc[c] = "write" => Unapplied(req[c])
     /\ pc[c] = "replace" => req[c].op = "replace" /\ Cut(req[c].upto)

(* No two callers work on the same call. *)
CallsDistinct ==
  \A c, d \in Clients :
     pc[c] # "idle" /\ pc[d] # "idle" /\ req[c].call = req[d].call => c = d

(* A stray write has not been executed, it is not the attempt its caller   *)
(* is making now, and a stray replace comes from a cut of the log.         *)
StraysFit ==
  /\ \A m \in stray :
        /\ m.call <= calls
        /\ m.op \in WriteOps => Unapplied(m)
        /\ m.op = "replace" => Cut(m.upto)
  /\ \A m, n \in stray :
        (m.op \in WriteOps /\ n.op \in WriteOps
          /\ m.call = n.call /\ m.attempt = n.attempt) => m = n
  /\ \A m \in stray, c \in Clients :
        m.op \in WriteOps /\ pc[c] = "write" /\ m.call = req[c].call
           => m.attempt # req[c].attempt

(* A write that is sent for the first time is the first sign of its call. *)
FirstAttempts ==
  \A c \in Clients :
     pc[c] = "write" /\ req[c].attempt = 0 =>
        /\ \A i \in Positions : log[i].call # req[c].call
        /\ \A m \in stray : m.op \in WriteOps => m.call # req[c].call

(* The log holds events of calls made so far and ends at a whole           *)
(* transaction.                                                            *)
LogFits == Cut(Len(log)) /\ \A i \in Positions : log[i].call <= calls

(* A caller past its write finds its event in the log, and the log it has  *)
(* loaded holds it.                                                        *)
OwnWriteLoaded ==
  \A c \in Clients :
     /\ pc[c] = "load" => \E i \in Positions : log[i].call = req[c].call
     /\ pc[c] = "replace" =>
           \E i \in Positions : log[i].call = req[c].call /\ i <= req[c].upto

IInv ==
  /\ TypeOK
  /\ RequestsFit
  /\ CallsDistinct
  /\ StraysFit
  /\ FirstAttempts
  /\ LogFits
  /\ OwnWriteLoaded
  /\ AttemptInsertsOnce
  /\ TaskLogAgree
  /\ InterviewAtomic

----------------------------------------------------------------------------
(* What one server transaction does to the log *)

(* The log keeps its entries, what is new belongs to attempt r, and the    *)
(* cuts of the log stay cuts.                                              *)
LogStep(r) ==
  /\ \A i \in Positions : i \in Positions' /\ log'[i] = log[i]
  /\ \A i \in Positions' : i \notin Positions =>
        r.op \in WriteOps /\ log'[i].call = r.call /\ log'[i].attempt = r.attempt
  /\ \A i, j \in Positions' :
        i \notin Positions /\ j \notin Positions /\ log'[i].kind = log'[j].kind => i = j
  /\ Cut(Len(log))'
  /\ \A n \in Nat : Cut(n) => Cut(n)'
  /\ r.op \in WriteOps => \E i \in Positions' : log'[i].call = r.call

LedgerInv == LedgerTypeOK /\ TaskLogAgree /\ InterviewAtomic /\ Cut(Len(log))

LEMMA ApplyStep ==
  ASSUME LedgerInv, NEW r \in Request, Apply(r), r.op = "replace" => Cut(r.upto)
  PROVE  LedgerInv' /\ LogStep(r)
  <1> USE DEF LedgerInv
  <1>1. LedgerTypeOK'
    BY WritesKeepTypes DEF Apply
  <1>2. CASE r.op = "replace"
    <2>1. UNCHANGED <<log, tasks, profile>> /\ Cut(derived')
      BY <1>2 DEF Apply, ReplaceDerived
    <2>2. TaskLogAgree' /\ InterviewAtomic' /\ Cut(Len(log))' /\ Positions' = Positions
      BY <2>1, CutsKeepLedger DEF TaskLogAgree, RowsAgree
    <2>3. LogStep(r)
      BY <1>2, <2>1, <2>2 DEF LogStep, Cut, WriteOps
    <2>4. QED
      BY <1>1, <2>2, <2>3
  <1>3. CASE r.op # "replace"
    <2>1. Inserts(r) /\ r.op \in WriteOps
      BY <1>3 DEF Apply, Inserts, WriteOps
    <2>2. Others(r) \/ Open(r.task)
      BY <1>3 DEF Apply, Refused, Others
    <2>3. TaskLogAgree' /\ InterviewAtomic' /\ Cut(Len(log))'
      BY <2>1, <2>2, InsertsKeepLedger DEF TaskLogAgree, RowsAgree
    <2>4. LogStep(r)
      <3>1. \A n \in Nat : Cut(n) => Cut(n)'
        BY <2>1, CutsStay
      <3>2. \E i \in Positions' : log'[i].call = r.call
        <4>1. Len(log') \in Positions' /\ Len(log') \notin Positions
          BY <2>1, LogGrows DEF Positions
        <4>2. QED
          BY <2>1, <4>1, LogGrows
      <3>3. QED
        BY <2>1, <2>3, <3>1, <3>2, LogGrows DEF LogStep
    <2>5. QED
      BY <1>1, <2>3, <2>4
  <1>4. QED
    BY <1>2, <1>3

----------------------------------------------------------------------------
(* Steps in which the server executes request r *)

(* What such a step does to the callers and to the stray requests: a       *)
(* caller ends its call or goes on to load; nothing that would repeat this *)
(* attempt of a write is left.                                             *)
ServedFor(r) ==
  /\ \A d \in Clients : pc'[d] # "idle" =>
        /\ req'[d] = req[d]
        /\ pc'[d] = pc[d] \/ (pc[d] = "write" /\ pc'[d] = "load" /\ req[d] = r)
  /\ stray' \subseteq stray
  /\ \A d \in Clients : pc'[d] = "write" /\ r.op \in WriteOps /\ req[d].call = r.call
        => req[d].attempt # r.attempt /\ req[d].attempt # 0
  /\ \A m \in stray' : m.op \in WriteOps /\ r.op \in WriteOps /\ m.call = r.call
        => m.attempt # r.attempt
  /\ calls' = calls

LEMMA ServedStep ==
  ASSUME IInv, TypeOK', NEW r \in Request, Apply(r), ServedFor(r),
         r.call <= calls, r.op \in WriteOps => Unapplied(r),
         r.op = "replace" => Cut(r.upto)
  PROVE  IInv'
  <1>1. LedgerInv' /\ LogStep(r)
    BY ApplyStep DEF IInv, LedgerInv, TypeOK, LogFits
  <1>2. \A q \in Request :
           (r.op \in WriteOps /\ q.call = r.call => q.attempt # r.attempt) /\ Unapplied(q)
              => \A i \in Positions' : log'[i].call = q.call => log'[i].attempt # q.attempt
    BY <1>1 DEF LogStep, Unapplied
  <1>3. \A n \in Nat : Cut(n) => Cut(n)'
    BY <1>1 DEF LogStep
  <1>4. RequestsFit'
    <2> SUFFICES ASSUME NEW d \in Clients, pc'[d] # "idle"
                 PROVE  /\ req'[d] \in Request /\ req'[d].call <= calls'
                        /\ pc'[d] \in {"write", "load"} => req'[d].op \in WriteOps
                        /\ pc'[d] = "write" => Unapplied(req[d])'
                        /\ pc'[d] = "replace" =>
                              req'[d].op = "replace" /\ Cut(req[d].upto)'
      BY DEF RequestsFit, Unapplied, Cut
    <2>1. /\ req'[d] = req[d] /\ calls' = calls /\ req[d] \in Request
          /\ req[d].call <= calls /\ req[d].upto \in Nat
      BY DEF ServedFor, IInv, RequestsFit, Request
    <2>2. pc'[d] \in {"write", "load"} => req'[d].op \in WriteOps
      BY <2>1 DEF ServedFor, IInv, RequestsFit
    <2>3. pc'[d] = "write" => Unapplied(req[d])'
      BY <1>2, <2>1 DEF ServedFor, IInv, RequestsFit, Unapplied
    <2>4. pc'[d] = "replace" => req'[d].op = "replace" /\ Cut(req[d].upto)'
      <3>1. pc'[d] = "replace" => req[d].op = "replace" /\ Cut(req[d].upto)
        BY DEF ServedFor, IInv, RequestsFit
      <3>2. PICK n \in Nat : n = req[d].upto
        BY <2>1
      <3>3. pc'[d] = "replace" => Cut(n)'
        BY <1>3, <3>1, <3>2
      <3>4. QED
        BY <2>1, <3>1, <3>2, <3>3 DEF Cut
    <2>5. QED
      BY <2>1, <2>2, <2>3, <2>4
  <1>5. CallsDistinct'
    BY DEF CallsDistinct, ServedFor, IInv
  <1>6. StraysFit'
    <2>1. ASSUME NEW m \in stray'
          PROVE  /\ m.call <= calls'
                 /\ m.op \in WriteOps => Unapplied(m)'
                 /\ m.op = "replace" => Cut(m.upto)'
      <3>1. m \in stray /\ m \in Request /\ m.upto \in Nat
        BY <2>1 DEF ServedFor, IInv, TypeOK, Request
      <3>2. m.op \in WriteOps => Unapplied(m)'
        BY <1>2, <2>1, <3>1 DEF ServedFor, IInv, StraysFit, Unapplied
      <3>3. QED
        BY <1>3, <3>1, <3>2 DEF ServedFor, IInv, StraysFit
    <2>2. \A m, n \in stray' :
             (m.op \in WriteOps /\ n.op \in WriteOps
                /\ m.call = n.call /\ m.attempt = n.attempt) => m = n
      BY DEF ServedFor, IInv, StraysFit
    <2>3. \A m \in stray', d \in Clients :
             m.op \in WriteOps /\ pc'[d] = "write" /\ m.call = req'[d].call
                => m.attempt # req'[d].attempt
      BY DEF ServedFor, IInv, StraysFit
    <2>4. QED
      BY <2>1, <2>2, <2>3 DEF StraysFit
  <1>7. LogFits'
    BY <1>1 DEF LogFits, LogStep, ServedFor, IInv, LedgerInv
  <1>8. OwnWriteLoaded'
    <2>1. ASSUME NEW d \in Clients, pc'[d] = "load"
          PROVE  \E i \in Positions' : log'[i].call = req'[d].call
      <3>1. CASE pc[d] = "load"
        BY <1>1, <2>1, <3>1 DEF ServedFor, IInv, OwnWriteLoaded, LogStep
      <3>2. CASE pc[d] # "load"
        <4>1. pc[d] = "write" /\ req[d] = r /\ req'[d] = req[d]
          BY <2>1, <3>2 DEF ServedFor
        <4>2. QED
          BY <1>1, <4>1 DEF IInv, RequestsFit, LogStep
      <3>3. QED
        BY <3>1, <3>2
    <2>2. ASSUME NEW d \in Clients, pc'[d] = "replace"
          PROVE  \E i \in Positions' : log'[i].call = req'[d].call /\ i <= req'[d].upto
      BY <1>1, <2>2 DEF ServedFor, IInv, OwnWriteLoaded, LogStep
    <2>3. QED
      BY <2>1, <2>2 DEF OwnWriteLoaded
  <1>9. AttemptInsertsOnce'
    BY <1>1 DEF AttemptInsertsOnce, LogStep, IInv, Unapplied
  <1>10. FirstAttempts'
    <2>1. ASSUME NEW d \in Clients, pc'[d] = "write", req[d].attempt = 0
          PROVE  /\ \A i \in Positions' : log'[i].call # req[d].call
                 /\ \A m \in stray' : m.op \in WriteOps => m.call # req[d].call
      <3>1. /\ \A i \in Positions : log[i].call # req[d].call
            /\ \A m \in stray : m.op \in WriteOps => m.call # req[d].call
        BY <2>1 DEF ServedFor, IInv, FirstAttempts
      <3>2. r.op \in WriteOps => r.call # req[d].call
        BY <2>1 DEF ServedFor
      <3>3. QED
        BY <1>1, <3>1, <3>2 DEF ServedFor, LogStep
    <2>2. QED
      BY <2>1 DEF FirstAttempts, ServedFor
  <1>11. QED
    BY <1>1, <1>4, <1>5, <1>6, <1>7, <1>8, <1>9, <1>10 DEF IInv, LedgerInv

----------------------------------------------------------------------------
(* Type correctness *)

LEMMA TypesInductive ==
  ASSUME TypeOK, RequestsFit, [Next]_vars
  PROVE  TypeOK'
  <1> USE DEF TypeOK, Results
  <1>1. ASSUME NEW r \in Request, Apply(r)
        PROVE  LedgerTypeOK'
    BY <1>1, WritesKeepTypes DEF Apply
  <1>2. ASSUME NEW c \in Clients, pc[c] # "idle"
        PROVE  req[c] \in Request /\ req[c].call \in Calls
    BY <1>2 DEF RequestsFit, Request
  <1>3. ASSUME NEW c \in Clients, NEW answer \in Results, pc[c] # "idle", Return(c, answer)
        PROVE  /\ pc' \in [Clients -> {"idle", "write", "load", "replace"}]
               /\ req' \in [Clients -> Request \union {NoRequest}]
               /\ result' \in [Calls -> Results]
    BY <1>2, <1>3 DEF Return
  <1>4. ASSUME Fault
        PROVE  faults' \in 0..MaxFaults
    BY <1>4, MaxFaultsAssumption DEF Fault
  <1>5. ASSUME NEW c \in Clients, NEW op \in WriteOps, NEW t \in Nat, Start(c, op, t)
        PROVE  TypeOK'
    <2>1. calls' \in 0..MaxCalls /\ calls + 1 \in Calls
      BY <1>5, MaxCallsAssumption DEF Start, Calls
    <2>2. [op |-> op, call |-> calls + 1, attempt |-> 0, task |-> t, upto |-> 0] \in Request
      BY <2>1 DEF Request
    <2>3. QED
      BY <1>5, <2>1, <2>2 DEF Start, LedgerTypeOK
  <1>6. ASSUME NEW c \in Clients, Step(c)
        PROVE  TypeOK'
    <2>1. CASE WriteOk(c)
      BY <1>1, <1>2, <2>1 DEF WriteOk
    <2>2. CASE WriteRefused(c)
      BY <1>3, <2>2 DEF WriteRefused, LedgerTypeOK
    <2>3. CASE Load(c)
      <3>1. pc[c] = "load" /\ req[c].call \in Calls /\ Len(log) \in Nat
        BY <1>2, <2>3 DEF Load, LedgerTypeOK
      <3>2. [op |-> "replace", call |-> req[c].call, attempt |-> 0,
             task |-> 0, upto |-> Len(log)] \in Request
        BY <3>1 DEF Request
      <3>3. QED
        BY <2>3, <3>2 DEF Load, LedgerTypeOK
    <2>4. CASE ReplaceOk(c)
      BY <1>1, <1>2, <1>3, <2>4 DEF ReplaceOk
    <2>5. CASE ReplaceConflict(c)
      <3>1. ASSUME NEW d \in Clients \ {c}, pc[d] = "replace", pc[c] = "replace", Apply(req[d]),
                   pc' = [pc EXCEPT ![c] = "idle", ![d] = "idle"],
                   req' = [req EXCEPT ![c] = NoRequest, ![d] = NoRequest],
                   result' = [result EXCEPT ![req[c].call] = "error", ![req[d].call] = "ok"],
                   UNCHANGED <<stray, calls, faults>>
            PROVE  TypeOK'
        BY <1>1, <1>2, <3>1
      <3>2. ASSUME NEW m \in stray, Apply(m), stray' = stray \ {m}, pc[c] = "replace",
                   Return(c, "error"), UNCHANGED <<calls, faults>>
            PROVE  TypeOK'
        BY <1>1, <1>3, <3>2
      <3>3. QED
        BY <2>5, <3>1, <3>2 DEF ReplaceConflict
    <2>6. CASE Retry(c)
      <3>1. req[c] \in Request /\ [req[c] EXCEPT !.attempt = 1] \in Request
        BY <1>2, <2>6 DEF Retry, Request
      <3>2. QED
        BY <1>4, <2>6, <3>1 DEF Retry, LedgerTypeOK
    <2>7. CASE GiveUp(c)
      BY <1>2, <1>3, <1>4, <2>7 DEF GiveUp, LedgerTypeOK
    <2>8. CASE FailWithoutEffect(c)
      BY <1>3, <1>4, <2>8 DEF FailWithoutEffect, LedgerTypeOK
    <2>9. CASE Crash(c)
      BY <1>2, <1>3, <1>4, <2>9 DEF Crash, LedgerTypeOK
    <2>10. QED
      BY <1>6, <2>1, <2>2, <2>3, <2>4, <2>5, <2>6, <2>7, <2>8, <2>9 DEF Step
  <1>7. ASSUME NEW m \in stray, ServeStray(m)
        PROVE  TypeOK'
    BY <1>1, <1>7 DEF ServeStray, ledgerVars, LedgerTypeOK
  <1>8. CASE UNCHANGED vars
    BY <1>8 DEF vars, LedgerTypeOK
  <1>9. ASSUME NEW c \in Clients, StartAny(c)
        PROVE  TypeOK'
    <2>1. 0 \in Nat /\ 1..(Len(tasks) + 1) \subseteq Nat
      BY DEF LedgerTypeOK
    <2>2. QED
      BY <1>5, <1>9, <2>1, OpsAssumption DEF StartAny, WriteOps
  <1>10. QED
    BY <1>6, <1>7, <1>8, <1>9 DEF Next

----------------------------------------------------------------------------
(* The inductive invariant *)

LEMMA InitIInv == Init => IInv
  <1> SUFFICES ASSUME Init PROVE IInv
    OBVIOUS
  <1> USE DEF Init, LedgerInit
  <1>1. Positions = {} /\ TaskIds = {} /\ Len(log) = 0
    BY DEF Positions, TaskIds
  <1>2. TypeOK
    BY MaxCallsAssumption, MaxFaultsAssumption
    DEF TypeOK, LedgerTypeOK, Results, Calls
  <1>3. RequestsFit /\ CallsDistinct /\ StraysFit /\ FirstAttempts /\ OwnWriteLoaded
    BY DEF RequestsFit, CallsDistinct, StraysFit, FirstAttempts, OwnWriteLoaded
  <1>4. LogFits /\ InterviewAtomic
    BY <1>1 DEF LogFits, InterviewAtomic, ProfileIsLastInterview, Cut
  <1>5. AttemptInsertsOnce /\ TaskLogAgree
    BY <1>1 DEF AttemptInsertsOnce, TaskLogAgree, CreationsLogged, CompletionsLogged, DoneOnce
  <1>6. QED
    BY <1>2, <1>3, <1>4, <1>5 DEF IInv

(* A step that leaves the ledger alone leaves alone what is said of it. *)
LEMMA LedgerSame ==
  ASSUME UNCHANGED ledgerVars, IInv, calls' >= calls, TypeOK'
  PROVE  /\ TaskLogAgree' /\ InterviewAtomic' /\ AttemptInsertsOnce' /\ LogFits'
         /\ Positions' = Positions /\ log' = log
         /\ \A n : Cut(n)' <=> Cut(n)
         /\ \A q : Unapplied(q)' <=> Unapplied(q)
  <1> USE DEF ledgerVars
  <1>1. Positions' = Positions /\ TaskIds' = TaskIds
    BY DEF Positions, TaskIds
  <1>2. TaskLogAgree'
    BY <1>1 DEF IInv, TaskLogAgree, CreationsLogged, CompletionsLogged, DoneOnce,
       IsCreation, IsCompletion
  <1>3. \A n : Cut(n)' <=> Cut(n)
    BY <1>1 DEF Cut
  <1>4. InterviewAtomic'
    BY <1>1 DEF IInv, InterviewAtomic, ProfileIsLastInterview, Cut
  <1>5. AttemptInsertsOnce'
    BY <1>1 DEF IInv, AttemptInsertsOnce
  <1>6. LogFits'
    <2>1. Cut(Len(log))'
      BY <1>1 DEF IInv, LogFits, Cut
    <2>2. ASSUME NEW i \in Positions
          PROVE  log[i].call \in Nat /\ log[i].call <= calls
      <3>1. log \in Seq(Event) /\ i \in 1..Len(log)
        BY DEF IInv, TypeOK, LedgerTypeOK, Positions
      <3>2. log[i] \in Event
        BY <3>1
      <3>3. log[i].call \in Nat
        BY <3>2 DEF Event, Calls
      <3>4. QED
        BY <3>3 DEF IInv, LogFits
    <2>3. calls \in Nat /\ calls' \in Nat
      BY MaxCallsAssumption DEF IInv, TypeOK
    <2>4. QED
      BY <1>1, <2>1, <2>2, <2>3 DEF LogFits
  <1>7. \A q : Unapplied(q)' <=> Unapplied(q)
    BY <1>1 DEF Unapplied
  <1>8. QED
    BY <1>1, <1>2, <1>3, <1>4, <1>5, <1>6, <1>7

(* A caller that ends its call, its request discarded or left astray. *)
LEMMA ReturnStep ==
  ASSUME IInv, TypeOK', UNCHANGED ledgerVars, calls' = calls,
         NEW c \in Clients, NEW answer, pc[c] # "idle", Return(c, answer),
         stray' = stray \/ (pc[c] # "load" /\ stray' = stray \union {req[c]})
  PROVE  IInv'
  <1>1. /\ \A d \in Clients : pc'[d] # "idle" =>
              d # c /\ pc'[d] = pc[d] /\ req'[d] = req[d]
        /\ pc[c] \in {"write", "load", "replace"}
    BY DEF IInv, TypeOK, Return
  <1>2. calls \in Nat /\ calls' >= calls
    BY MaxCallsAssumption DEF IInv, TypeOK
  <1>3. RequestsFit'
    BY <1>1, <1>2, LedgerSame DEF RequestsFit, IInv, Unapplied, Cut
  <1>4. CallsDistinct' /\ OwnWriteLoaded'
    BY <1>1, <1>2, LedgerSame DEF CallsDistinct, OwnWriteLoaded, IInv
  <1>5. StraysFit'
    <2>1. /\ req[c].call <= calls
          /\ pc[c] = "write" => Unapplied(req[c])
          /\ pc[c] = "replace" => req[c].op = "replace" /\ Cut(req[c].upto)
      BY DEF IInv, RequestsFit
    <2>2. \A m \in stray' : m \in stray \/ (m = req[c] /\ pc[c] \in {"write", "replace"})
      BY <1>1
    <2>3. \A m \in stray' : /\ m.call <= calls'
                            /\ m.op \in WriteOps => Unapplied(m)'
                            /\ m.op = "replace" => Cut(m.upto)'
      <3>1. ASSUME NEW m \in stray'
            PROVE  /\ m.call <= calls
                   /\ m.op \in WriteOps => Unapplied(m)
                   /\ m.op = "replace" => Cut(m.upto)
        <4>1. CASE m \in stray
          BY <4>1 DEF IInv, StraysFit
        <4>2. CASE m = req[c] /\ pc[c] = "write"
          BY <2>1, <4>2 DEF IInv, RequestsFit, WriteOps
        <4>3. CASE m = req[c] /\ pc[c] = "replace"
          BY <2>1, <4>3 DEF WriteOps
        <4>4. QED
          BY <2>2, <4>1, <4>2, <4>3
      <3>2. QED
        BY <3>1, <1>2, LedgerSame DEF Unapplied, Cut
    <2>4. \A m, n \in stray' :
             (m.op \in WriteOps /\ n.op \in WriteOps
                /\ m.call = n.call /\ m.attempt = n.attempt) => m = n
      BY <2>1, <2>2 DEF IInv, StraysFit, WriteOps
    <2>5. \A m \in stray', d \in Clients :
             m.op \in WriteOps /\ pc'[d] = "write" /\ m.call = req'[d].call
                => m.attempt # req'[d].attempt
      BY <1>1, <2>2 DEF IInv, StraysFit, CallsDistinct
    <2>6. QED
      BY <2>3, <2>4, <2>5 DEF StraysFit
  <1>6. FirstAttempts'
    <2>1. \A m \in stray' : m \in stray \/ m = req[c]
      OBVIOUS
    <2>2. QED
      BY <1>1, <1>2, <2>1, LedgerSame DEF FirstAttempts, CallsDistinct, IInv
  <1>7. QED
    BY <1>2, <1>3, <1>4, <1>5, <1>6, LedgerSame DEF IInv

LEMMA NextIInv ==
  ASSUME IInv, [Next]_vars
  PROVE  IInv'
  <1>1. TypeOK'
    BY TypesInductive DEF IInv
  <1>2. calls \in Nat
    BY MaxCallsAssumption DEF IInv, TypeOK
  <1>3. ASSUME NEW c \in Clients, NEW op \in WriteOps, NEW t \in Nat, Start(c, op, t)
        PROVE  IInv'
    <2>1. /\ UNCHANGED ledgerVars /\ stray' = stray
          /\ calls' = calls + 1 /\ pc[c] = "idle"
          /\ \A d \in Clients \ {c} : pc'[d] = pc[d] /\ req'[d] = req[d]
          /\ pc'[c] = "write" /\ req'[c] \in Request
          /\ req'[c].op = op /\ req'[c].call = calls + 1 /\ req'[c].attempt = 0
      BY <1>1, <1>3 DEF Start, ledgerVars, IInv, TypeOK, NoRequest, Request, Calls
    <2>2. calls' >= calls
      BY <1>2, <2>1
    <2>3. \A d \in Clients : pc[d] # "idle" =>
             req[d].call \in Nat /\ req[d].call <= calls
      BY DEF IInv, RequestsFit, Request, Calls
    <2>4. \A m \in stray : m.call \in Nat /\ m.call <= calls
      BY DEF IInv, StraysFit, TypeOK, Request, Calls
    <2>5. \A i \in Positions : log[i].call # calls + 1
      BY <1>2 DEF IInv, LogFits
    <2>6. RequestsFit'
      <3>1. Unapplied(req'[c])
        BY <2>1, <2>5 DEF Unapplied
      <3>2. QED
        BY <1>1, <1>2, <1>3, <2>1, <2>2, <2>3, <3>1, LedgerSame
        DEF RequestsFit, IInv, Unapplied, Cut
    <2>7. CallsDistinct'
      BY <1>2, <2>1, <2>3 DEF CallsDistinct, IInv
    <2>8. StraysFit'
      BY <1>1, <1>2, <2>1, <2>2, <2>4, LedgerSame DEF StraysFit, IInv, Unapplied, Cut
    <2>9. OwnWriteLoaded'
      BY <1>1, <2>1, <2>2, LedgerSame DEF OwnWriteLoaded, IInv
    <2>10. FirstAttempts'
      BY <1>1, <1>2, <2>1, <2>2, <2>4, <2>5, LedgerSame DEF FirstAttempts, IInv
    <2>11. QED
      BY <1>1, <2>1, <2>2, <2>6, <2>7, <2>8, <2>9, <2>10, LedgerSame DEF IInv
  <1>4. ASSUME NEW c \in Clients, Step(c)
        PROVE  IInv'
    <2>0. /\ pc[c] # "idle" => req[c] \in Request /\ req[c].call <= calls
          /\ pc[c] = "write" => Unapplied(req[c]) /\ req[c].op \in WriteOps
          /\ pc[c] = "replace" => req[c].op = "replace" /\ Cut(req[c].upto)
          /\ "replace" \notin WriteOps
      BY DEF IInv, RequestsFit, WriteOps
    <2>1. CASE WriteOk(c)
      <3>1. /\ pc[c] = "write" /\ Apply(req[c]) /\ pc' = [pc EXCEPT ![c] = "load"]
            /\ UNCHANGED <<req, result, stray, calls, faults>>
        BY <2>1 DEF WriteOk
      <3>2. ServedFor(req[c])
        BY <3>1 DEF ServedFor, IInv, TypeOK, CallsDistinct, StraysFit
      <3>3. QED
        BY <1>1, <2>0, <3>1, <3>2, ServedStep
    <2>2. CASE WriteRefused(c)
      BY <1>1, <2>2, ReturnStep DEF WriteRefused, ledgerVars
    <2>3. CASE Load(c)
      <3>1. /\ UNCHANGED ledgerVars /\ stray' = stray /\ calls' = calls
            /\ pc[c] = "load" /\ pc'[c] = "replace"
            /\ \A d \in Clients \ {c} : pc'[d] = pc[d] /\ req'[d] = req[d]
            /\ req'[c].op = "replace" /\ req'[c].call = req[c].call
            /\ req'[c].upto = Len(log)
        BY <2>3 DEF Load, ledgerVars, IInv, TypeOK
      <3>2. calls' >= calls
        BY <1>2, <3>1
      <3>3. req'[c] \in Request
        BY <1>1, <3>1 DEF TypeOK, NoRequest, WriteOps
      <3>4. RequestsFit'
        BY <1>1, <2>0, <3>1, <3>2, <3>3, LedgerSame
        DEF RequestsFit, IInv, Unapplied, Cut, LogFits, WriteOps
      <3>5. CallsDistinct'
        BY <3>1 DEF CallsDistinct, IInv
      <3>6. StraysFit'
        BY <1>1, <3>1, <3>2, LedgerSame DEF StraysFit, IInv, Unapplied, Cut
      <3>7. OwnWriteLoaded'
        BY <1>1, <3>1, <3>2, LedgerSame DEF OwnWriteLoaded, IInv, Positions
      <3>8. FirstAttempts'
        BY <1>1, <3>1, <3>2, LedgerSame DEF FirstAttempts, IInv
      <3>9. QED
        BY <1>1, <3>1, <3>2, <3>4, <3>5, <3>6, <3>7, <3>8, LedgerSame DEF IInv
    <2>4. CASE ReplaceOk(c)
      <3>1. pc[c] = "replace" /\ Apply(req[c]) /\ Return(c, "ok") /\ UNCHANGED <<stray, calls>>
        BY <2>4 DEF ReplaceOk
      <3>2. ServedFor(req[c])
        BY <2>0, <3>1 DEF ServedFor, Return, IInv, TypeOK
      <3>3. QED
        BY <1>1, <2>0, <3>1, <3>2, ServedStep
    <2>5. CASE ReplaceConflict(c)
      <3>1. ASSUME NEW d \in Clients \ {c}, pc[d] = "replace", pc[c] = "replace",
                   Apply(req[d]),
                   pc' = [pc EXCEPT ![c] = "idle", ![d] = "idle"],
                   req' = [req EXCEPT ![c] = NoRequest, ![d] = NoRequest],
                   UNCHANGED <<stray, calls>>
            PROVE  IInv'
        <4>1. /\ req[d] \in Request /\ req[d].call <= calls
              /\ req[d].op = "replace" /\ Cut(req[d].upto)
          BY <3>1 DEF IInv, RequestsFit
        <4>2. ServedFor(req[d])
          BY <2>0, <3>1, <4>1 DEF ServedFor, IInv, TypeOK
        <4>3. QED
          BY <1>1, <2>0, <3>1, <4>1, <4>2, ServedStep
      <3>2. ASSUME NEW m \in stray, m.op = "replace", Apply(m), stray' = stray \ {m},
                   pc[c] = "replace", Return(c, "error"), calls' = calls
            PROVE  IInv'
        <4>1. m \in Request /\ m.call <= calls /\ Cut(m.upto)
          BY <3>2 DEF IInv, TypeOK, StraysFit
        <4>2. ServedFor(m)
          BY <2>0, <3>2 DEF ServedFor, Return, IInv, TypeOK
        <4>3. QED
          BY <1>1, <2>0, <3>2, <4>1, <4>2, ServedStep
      <3>3. QED
        BY <2>5, <3>1, <3>2 DEF ReplaceConflict
    <2>6. CASE Retry(c)
      <3>1. /\ UNCHANGED ledgerVars /\ stray' = stray \union {req[c]} /\ calls' = calls
            /\ pc[c] \in {"write", "replace"} /\ pc' = pc /\ req[c].attempt = 0
            /\ \A d \in Clients \ {c} : req'[d] = req[d]
            /\ req[c] \in Request
        BY <2>0, <2>6 DEF Retry, ledgerVars, IInv, TypeOK
      <3>2. /\ req'[c] \in Request /\ req'[c].op = req[c].op /\ req'[c].call = req[c].call
            /\ req'[c].upto = req[c].upto /\ req'[c].attempt = 1 /\ calls' >= calls
        <4>1. PICK q \in Request : q = req[c]
          BY <3>1
        <4>2. req'[c] = [q EXCEPT !.attempt = 1]
          BY <2>6, <4>1 DEF Retry, IInv, TypeOK
        <4>3. QED
          BY <1>2, <3>1, <4>1, <4>2 DEF Request
      <3>3. pc[c] = "write" => Unapplied(req'[c])
        BY <3>1, <3>2 DEF Unapplied, FirstAttempts, IInv
      <3>4. RequestsFit'
        BY <1>1, <2>0, <3>1, <3>2, <3>3, LedgerSame
        DEF RequestsFit, IInv, Unapplied, Cut
      <3>5. CallsDistinct'
        BY <3>1, <3>2 DEF CallsDistinct, IInv
      <3>6. OwnWriteLoaded'
        BY <1>1, <3>1, <3>2, LedgerSame DEF OwnWriteLoaded, IInv
      <3>7. StraysFit'
        <4>1. ASSUME NEW m \in stray'
              PROVE  /\ m.call <= calls
                     /\ m.op \in WriteOps => Unapplied(m)
                     /\ m.op = "replace" => Cut(m.upto)
          BY <2>0, <3>1 DEF IInv, StraysFit
        <4>2. \A m, n \in stray' :
                 (m.op \in WriteOps /\ n.op \in WriteOps
                    /\ m.call = n.call /\ m.attempt = n.attempt) => m = n
          BY <2>0, <3>1 DEF IInv, StraysFit
        <4>3. \A m \in stray', d \in Clients :
                 m.op \in WriteOps /\ pc'[d] = "write" /\ m.call = req'[d].call
                    => m.attempt # req'[d].attempt
          <5>1. ASSUME NEW m \in stray', NEW d \in Clients, m.op \in WriteOps,
                       pc[d] = "write", m.call = req'[d].call
                PROVE  m.attempt # req'[d].attempt
            <6>1. CASE m \in stray /\ d = c
              BY <3>1, <3>2, <5>1, <6>1 DEF IInv, FirstAttempts
            <6>2. CASE m \in stray /\ d # c
              BY <3>1, <5>1, <6>2 DEF IInv, StraysFit
            <6>3. CASE m = req[c]
              BY <3>1, <3>2, <5>1, <6>3 DEF IInv, CallsDistinct
            <6>4. QED
              BY <3>1, <6>1, <6>2, <6>3
          <5>2. QED
            BY <3>1, <5>1
        <4>4. QED
          BY <1>1, <3>1, <3>2, <4>1, <4>2, <4>3, LedgerSame DEF StraysFit, Unapplied, Cut
      <3>8. FirstAttempts'
        BY <1>1, <3>1, <3>2, LedgerSame DEF FirstAttempts, IInv, CallsDistinct
      <3>9. QED
        BY <1>1, <3>1, <3>2, <3>4, <3>5, <3>6, <3>7, <3>8, LedgerSame DEF IInv
    <2>7. CASE GiveUp(c)
      BY <1>1, <2>7, ReturnStep DEF GiveUp, ledgerVars
    <2>8. CASE FailWithoutEffect(c)
      BY <1>1, <2>8, ReturnStep DEF FailWithoutEffect, ledgerVars
    <2>9. CASE Crash(c)
      BY <1>1, <2>9, ReturnStep DEF Crash, ledgerVars
    <2>10. QED
      BY <1>4, <2>1, <2>2, <2>3, <2>4, <2>5, <2>6, <2>7, <2>8, <2>9 DEF Step
  <1>5. ASSUME NEW m \in stray, ServeStray(m)
        PROVE  IInv'
    <2>1. /\ m \in Request /\ m.call <= calls
          /\ m.op \in WriteOps => Unapplied(m)
          /\ m.op = "replace" => Cut(m.upto)
          /\ stray' = stray \ {m} /\ UNCHANGED <<pc, req, calls>>
      BY <1>5 DEF ServeStray, IInv, TypeOK, StraysFit
    <2>2. CASE Apply(m)
      <3>1. ServedFor(m)
        BY <2>1 DEF ServedFor, IInv, StraysFit, FirstAttempts
      <3>2. QED
        BY <1>1, <2>1, <2>2, <3>1, ServedStep
    <2>3. CASE UNCHANGED ledgerVars
      <3>1. calls' >= calls
        BY <1>2, <2>1
      <3>2. RequestsFit' /\ CallsDistinct' /\ StraysFit' /\ FirstAttempts' /\ OwnWriteLoaded'
        BY <1>1, <2>1, <2>3, <3>1, LedgerSame
        DEF IInv, RequestsFit, CallsDistinct, StraysFit, FirstAttempts, OwnWriteLoaded,
            Unapplied, Cut
      <3>3. QED
        BY <1>1, <2>3, <3>1, <3>2, LedgerSame DEF IInv
    <2>4. QED
      BY <1>5, <2>2, <2>3 DEF ServeStray
  <1>6. CASE UNCHANGED vars
    <2>1. UNCHANGED ledgerVars /\ calls' >= calls /\ UNCHANGED <<pc, req, stray, calls>>
      BY <1>2, <1>6 DEF vars, ledgerVars
    <2>2. RequestsFit' /\ CallsDistinct' /\ StraysFit' /\ FirstAttempts' /\ OwnWriteLoaded'
      BY <1>1, <2>1, LedgerSame
      DEF IInv, RequestsFit, CallsDistinct, StraysFit, FirstAttempts, OwnWriteLoaded,
          Unapplied, Cut
    <2>3. QED
      BY <1>1, <2>1, <2>2, LedgerSame DEF IInv
  <1>7. ASSUME NEW c \in Clients, StartAny(c)
        PROVE  IInv'
    <2>1. 1..(Len(tasks) + 1) \subseteq Nat
      BY DEF IInv, TypeOK, LedgerTypeOK
    <2>2. QED
      BY <1>3, <1>7, <2>1, OpsAssumption DEF StartAny, WriteOps
  <1>8. QED
    BY <1>4, <1>5, <1>6, <1>7 DEF Next

LEMMA IInvAlways == Spec => []IInv
  <1>1. Init => IInv
    BY InitIInv
  <1>2. IInv /\ [Next]_vars => IInv'
    BY NextIInv
  <1>3. QED
    BY <1>1, <1>2, PTL DEF Spec

----------------------------------------------------------------------------
(* Invariants *)

(* The tables, the requests on the way and the answers keep their types. *)
THEOREM TypeCorrect == Spec => []TypeOK
  <1>1. IInv => TypeOK
    BY DEF IInv
  <1>2. QED
    BY <1>1, IInvAlways, PTL

(* Each row of tasks has one task_created event and, exactly when it is    *)
(* done, one later task_done event, whatever _request repeats and whatever *)
(* the server executes late.                                               *)
THEOREM TasksAlwaysMatchLog == Spec => []TasksMatchLog
  <1>1. IInv => TasksMatchLog
    BY DEF IInv, TasksMatchLog
  <1>2. QED
    BY <1>1, IInvAlways, PTL

(* The profile row is the last interview's, and no rebuild, however late,  *)
(* ends between an interview and the concepts it marks as known.           *)
THEOREM ProfileAlwaysMatchesLog == Spec => []ProfileMatchesLog
  <1>1. IInv => ProfileMatchesLog
    BY DEF IInv, ProfileMatchesLog
  <1>2. QED
    BY <1>1, IInvAlways, PTL

(* A call can insert its events twice (once per attempt of _request), and  *)
(* no more than that.                                                      *)
THEOREM AttemptsInsertOnce == Spec => []AttemptInsertsOnce
  <1>1. IInv => AttemptInsertsOnce
    BY DEF IInv
  <1>2. QED
    BY <1>1, IInvAlways, PTL

----------------------------------------------------------------------------
(* Read your own write *)

(* A call in progress has no result, nor has one not made. *)
ResultsFit ==
  /\ \A c \in Clients : pc[c] # "idle" => result[req[c].call] = "none"
  /\ \A k \in Calls : k > calls => result[k] = "none"

(* What a caller that is told "ok" can read. *)
OwnWriteShown ==
  \A c \in Clients :
    (pc[c] # "idle" /\ result'[req[c].call] = "ok") =>
       \E i \in Positions' : log'[i].call = req[c].call /\ i <= derived'

(* A step that ends the calls of some callers. *)
LEMMA ResultsStep ==
  ASSUME IInv, TypeOK', ResultsFit, calls' = calls, NEW D \in SUBSET Clients,
         \A d \in Clients : pc'[d] # "idle" =>
            d \notin D /\ pc[d] # "idle" /\ req'[d].call = req[d].call,
         \A k \in Calls : result'[k] # result[k] =>
            \E d \in D : pc[d] # "idle" /\ k = req[d].call
  PROVE  ResultsFit'
  <1>1. \A d \in Clients : pc[d] # "idle" => req[d].call \in Calls /\ req[d].call <= calls
    BY DEF IInv, RequestsFit, Request
  <1>2. calls \in Nat /\ Calls \subseteq Nat
    BY MaxCallsAssumption DEF IInv, TypeOK, Calls
  <1>3. ASSUME NEW e \in Clients, pc'[e] # "idle"
        PROVE  result'[req'[e].call] = "none"
    <2>1. /\ e \notin D /\ pc[e] # "idle" /\ req'[e].call = req[e].call
          /\ req[e].call \in Calls /\ result[req[e].call] = "none"
      BY <1>1, <1>3 DEF ResultsFit
    <2>2. ASSUME NEW d \in D, pc[d] # "idle" PROVE req[e].call # req[d].call
      BY <2>1, <2>2 DEF IInv, CallsDistinct
    <2>3. QED
      BY <2>1, <2>2
  <1>4. ASSUME NEW k \in Calls, k > calls
        PROVE  result'[k] = "none"
    <2>1. \A d \in D : pc[d] # "idle" => req[d].call \in Nat /\ req[d].call <= calls
      BY <1>1, <1>2
    <2>2. QED
      BY <1>2, <1>4, <2>1 DEF ResultsFit
  <1>5. QED
    BY <1>3, <1>4 DEF ResultsFit

(* A step that replaces the tables for caller d shows d its own write.     *)
LEMMA OwnReplaceShows ==
  ASSUME IInv, ResultsFit, NEW d \in Clients, pc[d] = "replace",
         log' = log, derived' = req[d].upto,
         \A k \in Calls : result'[k] = "ok" => result[k] = "ok" \/ k = req[d].call
  PROVE  OwnWriteShown
  <1> SUFFICES ASSUME NEW c \in Clients, pc[c] # "idle", result'[req[c].call] = "ok"
               PROVE  \E i \in Positions' : log'[i].call = req[c].call /\ i <= derived'
    BY DEF OwnWriteShown
  <1>1. req[c].call \in Calls /\ result[req[c].call] # "ok"
    BY DEF IInv, RequestsFit, Request, ResultsFit
  <1>2. c = d
    BY <1>1 DEF IInv, CallsDistinct
  <1>3. Positions' = Positions
    BY DEF Positions
  <1>4. QED
    BY <1>2, <1>3 DEF IInv, OwnWriteLoaded

LEMMA ResultsNext ==
  ASSUME IInv, ResultsFit, [Next]_vars
  PROVE  ResultsFit' /\ OwnWriteShown
  <1>1. TypeOK'
    BY TypesInductive DEF IInv
  <1>2. \A d \in Clients : pc[d] # "idle" => req[d].call \in Calls /\ req[d].call <= calls
    BY DEF IInv, RequestsFit, Request
  <1>3. calls \in Nat /\ Calls \subseteq Nat
    BY MaxCallsAssumption DEF IInv, TypeOK, Calls
  <1>4. ASSUME result' = result
        PROVE  OwnWriteShown
    BY <1>4 DEF OwnWriteShown, ResultsFit
  <1>5. ASSUME NEW c \in Clients, Return(c, "error"), pc[c] # "idle", calls' = calls
        PROVE  ResultsFit' /\ OwnWriteShown
    <2>1. /\ \A d \in Clients : pc'[d] # "idle" =>
                d # c /\ pc[d] # "idle" /\ req'[d].call = req[d].call
          /\ \A k \in Calls : result'[k] # result[k] => k = req[c].call
          /\ \A k \in Calls : result'[k] = "ok" => result[k] = "ok"
      BY <1>5, <1>2 DEF Return, IInv, TypeOK
    <2>2. ResultsFit'
      BY <1>1, <1>5, <2>1, ResultsStep, {c} \in SUBSET Clients
    <2>3. OwnWriteShown
      BY <1>2, <2>1 DEF OwnWriteShown, ResultsFit
    <2>4. QED
      BY <2>2, <2>3
  <1>6. ASSUME UNCHANGED <<result, calls>>,
               \A d \in Clients : pc'[d] # "idle" => pc[d] # "idle" /\ req'[d].call = req[d].call
        PROVE  ResultsFit' /\ OwnWriteShown
    <2>1. ResultsFit'
      BY <1>6, <1>3 DEF ResultsFit
    <2>2. QED
      BY <1>4, <1>6, <2>1
  <1>7. ASSUME NEW c \in Clients, NEW op, NEW t, Start(c, op, t)
        PROVE  ResultsFit' /\ OwnWriteShown
    <2>1. /\ calls' = calls + 1 /\ result' = result /\ calls + 1 \in Calls
          /\ \A d \in Clients \ {c} : pc'[d] = pc[d] /\ req'[d] = req[d]
          /\ req'[c].call = calls + 1
      BY <1>7, <1>1 DEF Start, IInv, TypeOK, Calls
    <2>2. \A k \in Calls : k > calls' => k > calls
      BY <1>3, <2>1
    <2>3. result[calls + 1] = "none"
      BY <1>3, <2>1 DEF ResultsFit
    <2>4. ResultsFit'
      BY <2>1, <2>2, <2>3 DEF ResultsFit
    <2>5. QED
      BY <1>4, <2>1, <2>4
  <1>8. ASSUME NEW c \in Clients, Step(c)
        PROVE  ResultsFit' /\ OwnWriteShown
    <2>1. CASE WriteOk(c)
      BY <1>6, <2>1 DEF WriteOk, IInv, TypeOK
    <2>2. CASE WriteRefused(c)
      BY <1>5, <2>2 DEF WriteRefused
    <2>3. CASE Load(c)
      <3>1. /\ UNCHANGED <<result, calls>> /\ pc[c] = "load" /\ req'[c].call = req[c].call
            /\ \A d \in Clients \ {c} : pc'[d] = pc[d] /\ req'[d] = req[d]
        BY <2>3 DEF Load, IInv, TypeOK
      <3>2. QED
        BY <1>6, <3>1
    <2>4. CASE ReplaceOk(c)
      <3>1. /\ pc[c] = "replace" /\ calls' = calls
            /\ \A d \in Clients : pc'[d] # "idle" => d # c /\ pc'[d] = pc[d] /\ req'[d] = req[d]
            /\ \A k \in Calls : result'[k] # result[k] => k = req[c].call
            /\ \A k \in Calls : result'[k] = "ok" => result[k] = "ok" \/ k = req[c].call
        BY <2>4, <1>2 DEF ReplaceOk, Return, IInv, TypeOK
      <3>2. ResultsFit'
        BY <1>1, <3>1, ResultsStep, {c} \in SUBSET Clients
      <3>3. log' = log /\ derived' = req[c].upto
        BY <2>4, <3>1 DEF ReplaceOk, Apply, ReplaceDerived, IInv, RequestsFit
      <3>4. OwnWriteShown
        BY <1>2, <3>1, <3>3, OwnReplaceShows
      <3>5. QED
        BY <3>2, <3>4
    <2>5. CASE ReplaceConflict(c)
      <3>1. ASSUME NEW d \in Clients \ {c}, pc[d] = "replace", pc[c] = "replace",
                   Apply(req[d]), calls' = calls,
                   pc' = [pc EXCEPT ![c] = "idle", ![d] = "idle"],
                   req' = [req EXCEPT ![c] = NoRequest, ![d] = NoRequest],
                   result' = [result EXCEPT ![req[c].call] = "error", ![req[d].call] = "ok"]
            PROVE  ResultsFit' /\ OwnWriteShown
        <4>1. /\ \A e \in Clients : pc'[e] # "idle" =>
                    e \notin {c, d} /\ pc'[e] = pc[e] /\ req'[e] = req[e]
              /\ \A k \in Calls : result'[k] # result[k] => k \in {req[c].call, req[d].call}
              /\ \A k \in Calls : result'[k] = "ok" => result[k] = "ok" \/ k = req[d].call
          BY <3>1, <1>2 DEF IInv, TypeOK
        <4>2. ResultsFit'
          BY <1>1, <3>1, <4>1, ResultsStep, {c, d} \in SUBSET Clients
        <4>3. log' = log /\ derived' = req[d].upto
          BY <3>1 DEF Apply, ReplaceDerived, IInv, RequestsFit
        <4>4. OwnWriteShown
          BY <1>2, <3>1, <4>1, <4>3, OwnReplaceShows
        <4>5. QED
          BY <4>2, <4>4
      <3>2. ASSUME NEW m \in stray, pc[c] = "replace", Return(c, "error"),
                   UNCHANGED <<calls, faults>>
            PROVE  ResultsFit' /\ OwnWriteShown
        BY <1>5, <3>2
      <3>3. QED
        BY <2>5, <3>1, <3>2 DEF ReplaceConflict
    <2>6. CASE Retry(c)
      <3>1. /\ UNCHANGED <<result, calls>> /\ pc' = pc
            /\ pc[c] # "idle" /\ req[c] \in Request
            /\ \A d \in Clients \ {c} : req'[d] = req[d]
        BY <2>6 DEF Retry, IInv, TypeOK, RequestsFit
      <3>2. req'[c].call = req[c].call
        <4>1. PICK q \in Request : q = req[c]
          BY <3>1
        <4>2. req'[c] = [q EXCEPT !.attempt = 1]
          BY <2>6, <4>1 DEF Retry, IInv, TypeOK
        <4>3. QED
          BY <4>1, <4>2 DEF Request
      <3>3. QED
        BY <1>6, <3>1, <3>2
    <2>7. CASE GiveUp(c)
      BY <1>5, <2>7 DEF GiveUp
    <2>8. CASE FailWithoutEffect(c)
      BY <1>5, <2>8 DEF FailWithoutEffect
    <2>9. CASE Crash(c)
      BY <1>5, <2>9 DEF Crash
    <2>10. QED
      BY <1>8, <2>1, <2>2, <2>3, <2>4, <2>5, <2>6, <2>7, <2>8, <2>9 DEF Step
  <1>9. ASSUME NEW m \in stray, ServeStray(m)
        PROVE  ResultsFit' /\ OwnWriteShown
    BY <1>6, <1>9 DEF ServeStray
  <1>10. CASE UNCHANGED vars
    BY <1>6, <1>10 DEF vars
  <1>11. QED
    BY <1>7, <1>8, <1>9, <1>10 DEF Next, StartAny

(* A caller that is told "ok" reads tables computed from a log that holds  *)
(* what it wrote: write, load and replace follow one another, and neither  *)
(* a late request nor another caller ends its call with success.           *)
THEOREM RepliesShowOwnWrites == Spec => ReplyShowsOwnWrite
  <1>1. Init => ResultsFit
    BY DEF Init, ResultsFit
  <1>2. IInv /\ ResultsFit /\ [Next]_vars => ResultsFit' /\ OwnWriteShown
    BY ResultsNext
  <1>3. OwnWriteShown =>
          \A c \in Clients :
            (pc[c] # "idle" /\ result'[req[c].call] = "ok") =>
               \E i \in Positions' : log'[i].call = req[c].call /\ i <= derived'
    BY DEF OwnWriteShown
  <1>4. QED
    BY <1>1, <1>2, <1>3, IInvAlways, PTL DEF Spec, ReplyShowsOwnWrite

----------------------------------------------------------------------------
(* The backend implements AbstractLedger *)

LEMMA ApplyImplements ==
  ASSUME LedgerTypeOK, NEW r \in Request, Apply(r), r.op = "replace" => Cut(r.upto)
  PROVE  Abstract!Next /\ (r.op # "replace" => Abstract!Write)
  <1> USE DEF Abstract!Next, Abstract!Write, Abstract!Writes
  <1>1. CASE r.op = "replace"
    BY <1>1 DEF Apply, Cut, WriteOps, ReplaceDerived, Abstract!Rebuild, Abstract!ReplaceDerived
  <1>2. CASE r.op # "replace"
    <2>1. PICK t \in TaskIds \union {0} : r.op = "complete" => t = r.task /\ Open(t)
      BY DEF Apply, Refused, Open
    <2> DEFINE q == [op |-> r.op, call |-> r.call, attempt |-> r.attempt, task |-> t, upto |-> 0]
    <2>2. r.op \in WriteOps /\ r.call \in Calls /\ r.attempt \in 0..1
      BY <1>2 DEF Request
    <2>3. Abstract!Writes(q)
      BY <1>2, <2>1 DEF Apply, AppendNote, RecordInterview, InsertTask, MarkTaskDone, Entry, Open,
         TaskIds, Abstract!AppendNote, Abstract!RecordInterview, Abstract!InsertTask,
         Abstract!MarkTaskDone, Abstract!Entry, Abstract!Open, Abstract!TaskIds
    <2>4. QED
      BY <2>2, <2>3 DEF WriteOps, Calls, TaskIds, Abstract!WriteOps, Abstract!Calls, Abstract!TaskIds
  <1>3. QED
    BY <1>1, <1>2

(* Every step of the backend is one write, one rebuild or nothing to those *)
(* who only see the ledger.                                                *)
LEMMA StepImplements ==
  ASSUME IInv, [Next]_vars
  PROVE  [Abstract!Next]_(Abstract!ledgerVars)
  <1> USE DEF Abstract!ledgerVars, ledgerVars
  <1>1. ASSUME NEW c \in Clients, pc[c] \in {"write", "replace"}, Apply(req[c])
        PROVE  Abstract!Next
    <2>1. req[c] \in Request /\ (req[c].op = "replace" => Cut(req[c].upto))
      BY <1>1 DEF IInv, RequestsFit, WriteOps
    <2>2. QED
      BY <1>1, <2>1, ApplyImplements DEF IInv, TypeOK
  <1>2. ASSUME NEW m \in stray, Apply(m)
        PROVE  Abstract!Next
    <2>1. m \in Request /\ (m.op = "replace" => Cut(m.upto))
      BY <1>2 DEF IInv, TypeOK, StraysFit
    <2>2. QED
      BY <1>2, <2>1, ApplyImplements DEF IInv, TypeOK
  <1>3. ASSUME NEW c \in Clients, Step(c)
        PROVE  Abstract!Next \/ UNCHANGED ledgerVars
    BY <1>1, <1>2, <1>3 DEF Step, WriteOk, WriteRefused, Load, ReplaceOk, ReplaceConflict,
       Retry, GiveUp, FailWithoutEffect, Crash
  <1>4. ASSUME NEW c \in Clients, StartAny(c)
        PROVE  UNCHANGED ledgerVars
    BY <1>4 DEF StartAny, Start
  <1>5. ASSUME NEW m \in stray, ServeStray(m)
        PROVE  Abstract!Next \/ UNCHANGED ledgerVars
    BY <1>2, <1>5 DEF ServeStray
  <1>6. CASE UNCHANGED vars
    BY <1>6 DEF vars
  <1>7. QED
    BY <1>3, <1>4, <1>5, <1>6 DEF Next

(* The backend, with its retries, late requests, conflicts and crashes,    *)
(* implements the ledger of AbstractLedger: atomic writes, and derived     *)
(* tables that are always derive() of some past log.                       *)
THEOREM BackendImplementsLedger == Spec => ImplementsLedger
  <1>1. Init => Abstract!LedgerInit
    BY DEF Init, LedgerInit, Abstract!LedgerInit
  <1>2. IInv /\ [Next]_vars => [Abstract!Next]_(Abstract!ledgerVars)
    BY StepImplements
  <1>3. QED
    BY <1>1, <1>2, IInvAlways, PTL DEF Spec, ImplementsLedger, Abstract!Spec

----------------------------------------------------------------------------
(* A single caller *)

OneClient == \A c, d \in Clients : c = d

(* Until something fails nothing is on the way but the caller's request,   *)
(* and its rebuild is of the whole log.                                    *)
FreshInv ==
  faults = 0 =>
    /\ stray = {} /\ derived <= Len(log)
    /\ (\A c \in Clients : pc[c] \in {"idle", "write"}) => derived = Len(log)
    /\ \A c \in Clients : pc[c] = "replace" => req[c].upto = Len(log)

LEMMA FreshStep ==
  ASSUME OneClient, IInv, FreshInv, [Next]_vars
  PROVE  FreshInv' /\ (faults' = 0 => [Abstract!FreshNext]_ledgerVars)
  <1>1. SUFFICES ASSUME faults' = 0 PROVE FreshInv' /\ [Abstract!FreshNext]_ledgerVars
    BY DEF FreshInv
  <1>2. faults \in Nat /\ Len(log) \in Nat /\ derived \in Nat /\ log \in Seq(Event)
    BY MaxFaultsAssumption DEF IInv, TypeOK, LedgerTypeOK
  <1>3. ~Fault
    BY <1>1, <1>2 DEF Fault
  <1>4. ASSUME faults' = faults PROVE faults = 0
    BY <1>1, <1>4
  <1>5. ASSUME NEW c \in Clients, StartAny(c)
        PROVE  FreshInv' /\ UNCHANGED ledgerVars
    <2>1. /\ UNCHANGED <<log, tasks, profile, derived, stray, faults>>
          /\ pc[c] = "idle" /\ pc' = [pc EXCEPT ![c] = "write"]
      BY <1>5 DEF StartAny, Start
    <2>2. /\ faults = 0 /\ \A d \in Clients : d = c
          /\ pc[c] = "idle" /\ pc'[c] = "write"
      BY <1>4, <2>1 DEF OneClient, IInv, TypeOK
    <2>3. derived = Len(log) /\ stray = {}
      BY <2>2 DEF FreshInv
    <2>4. FreshInv'
      BY <1>2, <2>1, <2>2, <2>3 DEF FreshInv
    <2>5. QED
      BY <2>1, <2>4 DEF ledgerVars
  <1>6. ASSUME NEW c \in Clients, Step(c)
        PROVE  FreshInv' /\ [Abstract!FreshNext]_ledgerVars
    <2>1. \A d \in Clients : d = c
      BY DEF OneClient
    <2>2. CASE WriteOk(c)
      <3>1. /\ faults = 0 /\ stray' = {} /\ derived <= Len(log)
            /\ pc[c] = "write" /\ pc'[c] = "load" /\ Apply(req[c])
        BY <1>4, <2>2 DEF WriteOk, IInv, TypeOK, FreshInv
      <3>2. req[c] \in Request /\ req[c].op \in WriteOps /\ req[c].op # "replace"
        BY <3>1 DEF IInv, RequestsFit, WriteOps
      <3>3. Abstract!Write
        BY <3>1, <3>2, ApplyImplements DEF IInv, TypeOK
      <3>4. /\ derived' = derived /\ Len(log') \in Nat /\ Len(log) <= Len(log')
        BY <1>2, <3>1, <3>2 DEF Apply, WriteOps, AppendNote, RecordInterview, InsertTask, MarkTaskDone
      <3>5. FreshInv'
        BY <1>2, <2>1, <3>1, <3>4 DEF FreshInv
      <3>6. QED
        BY <3>3, <3>5 DEF Abstract!FreshNext
    <2>3. CASE WriteRefused(c)
      <3>1. /\ faults = 0 /\ UNCHANGED <<log, tasks, profile, derived, stray>>
            /\ pc[c] = "write" /\ pc'[c] = "idle"
        BY <1>4, <2>3 DEF WriteRefused, Return, IInv, TypeOK
      <3>2. derived = Len(log) /\ stray = {}
        BY <2>1, <3>1 DEF FreshInv
      <3>3. FreshInv'
        BY <1>2, <2>1, <3>1, <3>2 DEF FreshInv
      <3>4. QED
        BY <3>1, <3>3 DEF ledgerVars
    <2>4. CASE Load(c)
      <3>1. /\ faults = 0 /\ UNCHANGED <<log, tasks, profile, derived, stray>>
            /\ pc'[c] = "replace" /\ req'[c].upto = Len(log)
        BY <1>4, <2>4 DEF Load, IInv, TypeOK
      <3>2. FreshInv'
        BY <2>1, <3>1 DEF FreshInv
      <3>3. QED
        BY <3>1, <3>2 DEF ledgerVars
    <2>5. CASE ReplaceOk(c)
      <3>1. /\ faults = 0 /\ stray' = stray /\ pc[c] = "replace" /\ pc'[c] = "idle" /\ Apply(req[c])
        BY <1>4, <2>5 DEF ReplaceOk, Return, IInv, TypeOK
      <3>2. ReplaceDerived(Len(log)) /\ stray = {} /\ derived <= Len(log)
        BY <3>1 DEF IInv, RequestsFit, FreshInv, Apply
      <3>3. FreshInv'
        BY <1>2, <2>1, <3>1, <3>2 DEF FreshInv, ReplaceDerived
      <3>4. Abstract!FreshNext
        BY <1>2, <3>2 DEF Abstract!FreshNext, ReplaceDerived, Abstract!ReplaceDerived
      <3>5. QED
        BY <3>3, <3>4
    <2>6. ~ReplaceConflict(c)
      BY <1>4, <2>1 DEF ReplaceConflict, FreshInv
    <2>7. QED
      BY <1>3, <1>6, <2>2, <2>3, <2>4, <2>5, <2>6
         DEF Step, Retry, GiveUp, FailWithoutEffect, Crash
  <1>7. ASSUME NEW m \in stray, ServeStray(m)
        PROVE  FALSE
    BY <1>4, <1>7 DEF ServeStray, FreshInv
  <1>8. CASE UNCHANGED vars
    BY <1>8 DEF vars, ledgerVars, FreshInv
  <1>9. QED
    BY <1>5, <1>6, <1>7, <1>8 DEF Next

LEMMA FreshInit == Init => FreshInv
  BY DEF Init, LedgerInit, FreshInv

(* While nothing has failed, what a single caller finds between its calls  *)
(* is derive() of all events.                                              *)
THEOREM OneCallerStaysFresh ==
  ASSUME OneClient
  PROVE  Spec => []QuietMeansFresh
  <1>1. IInv /\ FreshInv /\ [Next]_vars => FreshInv'
    BY FreshStep
  <1>2. FreshInv => QuietMeansFresh
    BY DEF FreshInv, QuietMeansFresh, Quiet
  <1>3. QED
    BY <1>1, <1>2, FreshInit, IInvAlways, PTL DEF Spec

(* And no rebuild of his takes the tables back to an older log: until      *)
(* something fails he has the ledger with the stronger promise.            *)
THEOREM OneCallerFreshUntilFault ==
  ASSUME OneClient
  PROVE  Spec => FreshUntilFault
  <1>1. IInv /\ FreshInv /\ [Next]_vars => FreshInv' /\ (faults' = 0 => [Abstract!FreshNext]_ledgerVars)
    BY FreshStep
  <1>2. Init => LedgerInit
    BY DEF Init
  <1>3. QED
    BY <1>1, <1>2, FreshInit, IInvAlways, PTL DEF Spec, FreshUntilFault

=============================================================================
