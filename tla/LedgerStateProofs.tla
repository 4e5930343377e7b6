-------------------------- MODULE LedgerStateProofs --------------------------
(***************************************************************************)
(* What each write transaction of LedgerState preserves, proved once for   *)
(* both backends.                                                          *)
(***************************************************************************)
EXTENDS LedgerState, TLAPS

(* Appending one entry keeps the entries before it. *)
LEMMA AppendedEntry ==
  ASSUME NEW S, NEW s \in Seq(S), NEW e \in S
  PROVE  /\ Append(s, e) \in Seq(S)
         /\ Len(Append(s, e)) = Len(s) + 1
         /\ Len(s) \in Nat
         /\ DOMAIN s = 1..Len(s)
         /\ DOMAIN Append(s, e) = 1..(Len(s) + 1)
         /\ \A i \in 1..Len(s) : Append(s, e)[i] = s[i]
         /\ Append(s, e)[Len(s) + 1] = e
  OBVIOUS

(* The entries a request writes are events. *)
LEMMA EntryIsEvent ==
  ASSUME NEW r \in Request, NEW kind \in EventKinds, NEW t \in Nat
  PROVE  /\ Entry(kind, r, t) \in Event
         /\ Entry(kind, r, t).kind = kind
         /\ Entry(kind, r, t).task = t
         /\ Entry(kind, r, t).call = r.call
         /\ Entry(kind, r, t).attempt = r.attempt
  BY DEF Request, Entry, Event

(* Every write transaction keeps the types of the tables. *)
LEMMA WritesKeepTypes ==
  ASSUME LedgerTypeOK, NEW r \in Request,
         \/ AppendNote(r) \/ RecordInterview(r) \/ InsertTask(r)
         \/ MarkTaskDone(r) \/ ReplaceDerived(r.upto)
  PROVE  LedgerTypeOK'
  <1> USE DEF LedgerTypeOK
  <1>1. CASE AppendNote(r)
    <2>1. Entry("note", r, 0) \in Event
      BY EntryIsEvent DEF EventKinds
    <2>2. QED
      BY <1>1, <2>1 DEF AppendNote
  <1>2. CASE RecordInterview(r)
    <2>1. /\ Entry("interview", r, 0) \in Event
          /\ Entry("marked_known", r, 0) \in Event
      BY EntryIsEvent DEF EventKinds
    <2>2. r.call \in 0..MaxCalls
      BY MaxCallsAssumption DEF Request, Calls
    <2>3. QED
      BY <1>2, <2>1, <2>2 DEF RecordInterview
  <1>3. CASE InsertTask(r)
    <2>1. Entry("task_created", r, Len(tasks) + 1) \in Event
      BY EntryIsEvent DEF EventKinds
    <2>2. QED
      BY <1>3, <2>1 DEF InsertTask
  <1>4. CASE MarkTaskDone(r)
    <2>1. Entry("task_done", r, r.task) \in Event
      BY EntryIsEvent DEF EventKinds, Request
    <2>2. QED
      BY <1>4, <2>1 DEF MarkTaskDone, TaskIds
  <1>5. CASE ReplaceDerived(r.upto)
    BY <1>5 DEF ReplaceDerived, Request
  <1>6. QED
    BY <1>1, <1>2, <1>3, <1>4, <1>5

----------------------------------------------------------------------------
(* Tasks and the log *)

(* The rows and the events agree; a task may be done more than once.       *)
RowsAgree == CreationsLogged /\ CompletionsLogged

(* Entries that are not about tasks do not disturb the agreement. *)
LEMMA OtherEntriesKeepAgreement ==
  ASSUME LedgerTypeOK, RowsAgree, LedgerTypeOK',
         Len(log') >= Len(log),
         \A i \in 1..Len(log) : log'[i] = log[i],
         \A i \in (Len(log) + 1)..Len(log') :
            log'[i].kind \notin {"task_created", "task_done"},
         tasks' = tasks
  PROVE  RowsAgree' /\ (DoneOnce => DoneOnce')
  <1>1. /\ Len(log) \in Nat /\ Len(log') \in Nat
        /\ Positions \subseteq Positions'
        /\ TaskIds' = TaskIds
    BY DEF LedgerTypeOK, Positions, TaskIds
  <1>2. \A i \in Positions', t \in TaskIds :
           /\ IsCreation(i, t)' <=> i \in Positions /\ IsCreation(i, t)
           /\ IsCompletion(i, t)' <=> i \in Positions /\ IsCompletion(i, t)
    BY <1>1 DEF IsCreation, IsCompletion, Positions
  <1>3. CreationsLogged'
    <2>1. \A i \in Positions' :
             log'[i].kind \in {"task_created", "task_done"} =>
                i \in Positions /\ log'[i] = log[i]
      BY <1>1 DEF Positions
    <2>2. QED
      BY <1>1, <1>2, <2>1 DEF CreationsLogged, RowsAgree
  <1>4. CompletionsLogged' /\ (DoneOnce => DoneOnce')
    BY <1>1, <1>2 DEF CompletionsLogged, DoneOnce, RowsAgree
  <1>5. QED
    BY <1>3, <1>4 DEF RowsAgree

(* A new row and its task_created event, appended together. *)
LEMMA InsertTaskKeepsAgreement ==
  ASSUME LedgerTypeOK, RowsAgree, NEW r \in Request, InsertTask(r)
  PROVE  RowsAgree' /\ (DoneOnce => DoneOnce')
  <1>0. PICK n \in Nat, new \in Nat : n = Len(log) + 1 /\ new = Len(tasks) + 1
    BY DEF LedgerTypeOK
  <1>1. /\ Len(log) \in Nat /\ Len(tasks) \in Nat
        /\ Positions' = 1..n /\ TaskIds' = 1..new
        /\ n \notin Positions /\ new \notin TaskIds
        /\ Positions' = Positions \union {n} /\ TaskIds' = TaskIds \union {new}
        /\ Positions \subseteq Nat
    <2>1. Entry("task_created", r, new) \in Event
      BY <1>0, EntryIsEvent DEF EventKinds, LedgerTypeOK
    <2>2. Len(log') = n /\ Len(tasks') = new
      BY <1>0, <2>1 DEF InsertTask, LedgerTypeOK
    <2>3. QED
      BY <1>0, <2>2 DEF LedgerTypeOK, Positions, TaskIds
  <1>2. /\ \A i \in Positions : log'[i] = log[i]
        /\ log'[n].kind = "task_created" /\ log'[n].task = new
        /\ \A t \in TaskIds : tasks'[t] = tasks[t]
        /\ tasks'[new] = "open"
    BY <1>0, <1>1, EntryIsEvent DEF EventKinds, InsertTask, LedgerTypeOK, Positions, TaskIds
  <1>3. /\ \A i \in Positions, t \in TaskIds :
              /\ IsCreation(i, t)' <=> IsCreation(i, t)
              /\ IsCompletion(i, t)' <=> IsCompletion(i, t)
        /\ \A i \in Positions : ~IsCreation(i, new)' /\ ~IsCompletion(i, new)'
        /\ \A t \in TaskIds' : IsCreation(n, t)' <=> t = new
        /\ \A t \in TaskIds' : ~IsCompletion(n, t)'
    BY <1>1, <1>2 DEF IsCreation, IsCompletion, RowsAgree, CreationsLogged
  <1>4. CreationsLogged'
    <2>1. ASSUME NEW t \in TaskIds' PROVE \E i \in Positions' : IsCreation(i, t)'
      <3>1. CASE t = new
        BY <1>1, <1>3, <3>1
      <3>2. CASE t # new
        <4>1. t \in TaskIds
          BY <1>1, <3>2
        <4>2. PICK i \in Positions : IsCreation(i, t)
          BY <4>1 DEF CreationsLogged, RowsAgree
        <4>3. QED
          BY <1>1, <1>3, <4>1, <4>2
      <3>3. QED
        BY <3>1, <3>2
    <2>2. \A i \in Positions' :
             log'[i].kind \in {"task_created", "task_done"} => log'[i].task \in TaskIds'
      BY <1>1, <1>2 DEF CreationsLogged, RowsAgree
    <2>3. ASSUME NEW t \in TaskIds', NEW i \in Positions', NEW j \in Positions',
                 IsCreation(i, t)', IsCreation(j, t)'
          PROVE  i = j
      <3>1. CASE t = new
        <4>1. i \notin Positions /\ j \notin Positions
          BY <1>3, <2>3, <3>1
        <4>2. QED
          BY <1>1, <4>1
      <3>2. CASE t # new
        <4>1. t \in TaskIds /\ i # n /\ j # n
          BY <1>1, <1>3, <2>3, <3>2
        <4>2. i \in Positions /\ j \in Positions
          BY <1>1, <4>1
        <4>3. IsCreation(i, t) /\ IsCreation(j, t)
          BY <1>3, <2>3, <4>1, <4>2
        <4>4. QED
          BY <4>1, <4>2, <4>3 DEF CreationsLogged, RowsAgree
      <3>3. QED
        BY <3>1, <3>2
    <2>4. \A t \in TaskIds' : \E i \in Positions' : IsCreation(i, t)'
      BY <2>1
    <2>5. \A t \in TaskIds' : \A i, j \in Positions' :
             IsCreation(i, t)' /\ IsCreation(j, t)' => i = j
      BY <2>3
    <2>6. QED
      BY <2>2, <2>4, <2>5 DEF CreationsLogged
  <1>5. CompletionsLogged'
    <2>1. ASSUME NEW t \in TaskIds'
          PROVE  tasks'[t] = "done" <=> \E i \in Positions' : IsCompletion(i, t)'
      <3>1. CASE t = new
        BY <1>1, <1>2, <1>3, <3>1
      <3>2. CASE t # new
        <4>1. t \in TaskIds
          BY <1>1, <3>2
        <4>2. tasks[t] = "done" <=> \E i \in Positions : IsCompletion(i, t)
          BY <4>1 DEF CompletionsLogged, RowsAgree
        <4>3. QED
          BY <1>1, <1>2, <1>3, <4>1, <4>2
      <3>3. QED
        BY <3>1, <3>2
    <2>2. ASSUME NEW t \in TaskIds', NEW i \in Positions', NEW j \in Positions',
                 IsCreation(i, t)', IsCompletion(j, t)'
          PROVE  i < j
      <3>1. j \in Positions /\ t \in TaskIds
        BY <1>1, <1>3, <2>2
      <3>2. i \in Positions
        BY <1>1, <1>3, <2>2, <3>1
      <3>3. IsCreation(i, t) /\ IsCompletion(j, t)
        BY <1>3, <2>2, <3>1, <3>2
      <3>4. QED
        BY <3>1, <3>2, <3>3 DEF CompletionsLogged, RowsAgree
    <2>3. \A t \in TaskIds' :
             tasks'[t] = "done" <=> \E i \in Positions' : IsCompletion(i, t)'
      BY <2>1
    <2>4. \A t \in TaskIds' : \A i, j \in Positions' :
             IsCreation(i, t)' /\ IsCompletion(j, t)' => i < j
      BY <2>2
    <2>5. QED
      BY <2>3, <2>4 DEF CompletionsLogged
  <1>6. DoneOnce => DoneOnce'
    <2>0. HAVE DoneOnce
    <2>1. ASSUME NEW t \in TaskIds', NEW i \in Positions', NEW j \in Positions',
                 IsCompletion(i, t)', IsCompletion(j, t)'
          PROVE  i = j
      <3>1. i \in Positions /\ j \in Positions /\ t \in TaskIds
        BY <1>1, <1>3, <2>1
      <3>2. IsCompletion(i, t) /\ IsCompletion(j, t)
        BY <1>3, <2>1, <3>1
      <3>3. QED
        BY <2>0, <3>1, <3>2 DEF DoneOnce
    <2>2. \A t \in TaskIds' : \A i, j \in Positions' :
             IsCompletion(i, t)' /\ IsCompletion(j, t)' => i = j
      BY <2>1
    <2>3. QED
      BY <2>2 DEF DoneOnce
  <1>7. QED
    BY <1>4, <1>5, <1>6 DEF RowsAgree

(* A completion comes after the creation of its row.  That it is the only  *)
(* one is where the check of the row's status is needed.                   *)
LEMMA MarkTaskDoneKeepsAgreement ==
  ASSUME LedgerTypeOK, RowsAgree, NEW r \in Request, MarkTaskDone(r)
  PROVE  RowsAgree' /\ (DoneOnce /\ Open(r.task) => DoneOnce')
  <1> DEFINE t0 == r.task
  <1>0. PICK n \in Nat : n = Len(log) + 1
    BY DEF LedgerTypeOK
  <1>1. /\ Len(log) \in Nat
        /\ Positions' = Positions \union {n} /\ n \notin Positions
        /\ \A i \in Positions : i < n
        /\ TaskIds' = TaskIds /\ t0 \in TaskIds
    <2>1. Entry("task_done", r, t0) \in Event
      BY EntryIsEvent DEF EventKinds, Request
    <2>2. Len(log') = n /\ Len(tasks') = Len(tasks)
      BY <1>0, <2>1 DEF MarkTaskDone, LedgerTypeOK
    <2>3. QED
      BY <1>0, <2>2 DEF LedgerTypeOK, Positions, TaskIds, MarkTaskDone
  <1>2. /\ \A i \in Positions : log'[i] = log[i]
        /\ log'[n].kind = "task_done" /\ log'[n].task = t0
        /\ \A t \in TaskIds : t # t0 => tasks'[t] = tasks[t]
        /\ tasks'[t0] = "done"
    BY <1>0, <1>1, EntryIsEvent
    DEF EventKinds, Request, MarkTaskDone, Open, LedgerTypeOK, Positions, TaskIds
  <1> HIDE DEF t0
  <1>3. /\ \A i \in Positions, t \in TaskIds :
              /\ IsCreation(i, t)' <=> IsCreation(i, t)
              /\ IsCompletion(i, t)' <=> IsCompletion(i, t)
        /\ \A t \in TaskIds : IsCompletion(n, t)' <=> t = t0
        /\ \A t \in TaskIds : ~IsCreation(n, t)'
    BY <1>1, <1>2 DEF IsCreation, IsCompletion
  <1>4. CreationsLogged'
    BY <1>1, <1>2, <1>3 DEF CreationsLogged, RowsAgree
  <1>5. CompletionsLogged'
    BY <1>1, <1>2, <1>3 DEF CompletionsLogged, RowsAgree
  <1>6. ASSUME DoneOnce, Open(t0)
        PROVE  DoneOnce'
    <2>1. \A i \in Positions : ~IsCompletion(i, t0)
      BY <1>6 DEF Open, RowsAgree, CompletionsLogged
    <2>2. QED
      BY <1>1, <1>2, <1>3, <1>6, <2>1 DEF DoneOnce
  <1>7. QED
    BY <1>4, <1>5, <1>6 DEF RowsAgree, t0

----------------------------------------------------------------------------
(* The log only grows, and by whole transactions *)

(* The write transactions that insert events. *)
Inserts(r) == AppendNote(r) \/ RecordInterview(r) \/ InsertTask(r) \/ MarkTaskDone(r)

(* What a transaction leaves of the log and what it adds: its own entries, *)
(* at most one of each kind, an interview never as the last of them.       *)
LEMMA LogGrows ==
  ASSUME LedgerTypeOK, NEW r \in Request, Inserts(r)
  PROVE  /\ Len(log) \in Nat /\ Len(log') \in Nat /\ Len(log') > Len(log)
         /\ \A i \in Positions : i \in Positions' /\ log'[i] = log[i]
         /\ \A i \in Positions' : i \notin Positions =>
               i > Len(log) /\ log'[i].call = r.call /\ log'[i].attempt = r.attempt
         /\ \A i, j \in Positions' :
               i \notin Positions /\ j \notin Positions /\ log'[i].kind = log'[j].kind => i = j
         /\ log'[Len(log')].kind # "interview"
  <1>1. Len(log) \in Nat
    BY DEF LedgerTypeOK
  <1>3. ASSUME NEW e \in Event, log' = Append(log, e), e.kind # "interview",
               e.call = r.call, e.attempt = r.attempt
        PROVE  /\ Len(log') \in Nat /\ Len(log') > Len(log)
               /\ \A i \in Positions : i \in Positions' /\ log'[i] = log[i]
               /\ \A i \in Positions' : i \notin Positions =>
                     i > Len(log) /\ log'[i].call = r.call /\ log'[i].attempt = r.attempt
               /\ \A i, j \in Positions' :
                     i \notin Positions /\ j \notin Positions
                        /\ log'[i].kind = log'[j].kind => i = j
               /\ log'[Len(log')].kind # "interview"
    <2>0. e.kind # "interview" /\ e.call = r.call /\ e.attempt = r.attempt
      BY <1>3
    <2>1. /\ Len(log') = Len(log) + 1
          /\ Positions' = Positions \union {Len(log) + 1}
          /\ \A i \in Positions : log'[i] = log[i]
          /\ log'[Len(log) + 1] = e
      BY <1>1, <1>3 DEF LedgerTypeOK, Positions
    <2>2. \A i \in Positions' : i \notin Positions => i = Len(log) + 1
      BY <2>1
    <2>3. /\ Len(log') \in Nat /\ Len(log') > Len(log)
          /\ \A i \in Positions : i \in Positions' /\ log'[i] = log[i]
          /\ log'[Len(log')].kind # "interview"
      BY <1>1, <2>0, <2>1
    <2>4. \A i \in Positions' : i \notin Positions =>
             i > Len(log) /\ log'[i].call = r.call /\ log'[i].attempt = r.attempt
      BY <1>1, <2>0, <2>1, <2>2
    <2>5. QED
      BY <2>2, <2>3, <2>4
  <1>4. CASE AppendNote(r)
    <2>1. /\ Entry("note", r, 0) \in Event /\ Entry("note", r, 0).kind # "interview"
          /\ Entry("note", r, 0).call = r.call /\ Entry("note", r, 0).attempt = r.attempt
      BY EntryIsEvent DEF EventKinds
    <2>2. QED
      BY <1>1, <1>3, <1>4, <2>1 DEF AppendNote
  <1>5. CASE InsertTask(r)
    <2> DEFINE e == Entry("task_created", r, Len(tasks) + 1)
    <2>1. /\ e \in Event /\ e.kind # "interview"
          /\ e.call = r.call /\ e.attempt = r.attempt
      BY EntryIsEvent DEF EventKinds, LedgerTypeOK
    <2>2. QED
      BY <1>1, <1>3, <1>5, <2>1 DEF InsertTask
  <1>6. CASE MarkTaskDone(r)
    <2> DEFINE e == Entry("task_done", r, r.task)
    <2>1. /\ e \in Event /\ e.kind # "interview"
          /\ e.call = r.call /\ e.attempt = r.attempt
      BY EntryIsEvent DEF EventKinds, Request
    <2>2. QED
      BY <1>1, <1>3, <1>6, <2>1 DEF MarkTaskDone
  <1>7. CASE RecordInterview(r)
    <2> DEFINE a == Entry("interview", r, 0)
               b == Entry("marked_known", r, 0)
    <2>1. /\ a \in Event /\ a.kind = "interview" /\ a.call = r.call /\ a.attempt = r.attempt
          /\ b \in Event /\ b.kind = "marked_known" /\ b.call = r.call /\ b.attempt = r.attempt
      BY EntryIsEvent DEF EventKinds
    <2> HIDE DEF a, b
    <2>2. log' = Append(Append(log, a), b)
      BY <1>7 DEF RecordInterview, a, b
    <2>3. /\ Append(log, a) \in Seq(Event)
          /\ Len(Append(log, a)) = Len(log) + 1
          /\ \A i \in Positions : Append(log, a)[i] = log[i]
          /\ Append(log, a)[Len(log) + 1] = a
      BY <1>1, <2>1 DEF LedgerTypeOK, Positions
    <2>4. /\ Len(log') = Len(log) + 2
          /\ \A i \in Positions : log'[i] = log[i]
          /\ log'[Len(log) + 1] = a /\ log'[Len(log) + 2] = b
      BY <1>1, <2>1, <2>2, <2>3 DEF Positions
    <2>5. Positions' = Positions \union {Len(log) + 1, Len(log) + 2}
      BY <1>1, <2>4 DEF Positions
    <2>6. QED
      BY <1>1, <2>1, <2>4, <2>5 DEF Positions
  <1>8. QED
    BY <1>4, <1>5, <1>6, <1>7 DEF Inserts

(* A cut of the log stays one, and every transaction ends at one. *)
LEMMA CutsStay ==
  ASSUME LedgerTypeOK, NEW r \in Request, Inserts(r), NEW n, Cut(n)
  PROVE  Cut(n)' /\ Cut(Len(log))'
  <1>1. Cut(n)'
    <2>1. n \in 0..Len(log')
      BY LogGrows DEF Cut
    <2>2. ASSUME NEW i \in Positions', log'[i].kind = "interview"
          PROVE  n # i
      <3>1. CASE i \in Positions
        BY <2>2, <3>1, LogGrows DEF Cut
      <3>2. CASE i \notin Positions
        BY <3>2, LogGrows DEF Cut
      <3>3. QED
        BY <3>1, <3>2
    <2>3. QED
      BY <2>1, <2>2 DEF Cut
  <1>2. Cut(Len(log))'
    BY LogGrows DEF Cut
  <1>3. QED
    BY <1>1, <1>2

(* The profile row stays the one of the last interview. *)
LEMMA ProfileStaysLast ==
  ASSUME LedgerTypeOK, NEW r \in Request, Inserts(r), ProfileIsLastInterview
  PROVE  ProfileIsLastInterview'
  <1>1. ASSUME profile' = profile,
               \A i \in Positions' : i \notin Positions => log'[i].kind # "interview"
        PROVE  ProfileIsLastInterview'
    <2>1. \A i \in Positions : i \in Positions' /\ log'[i] = log[i]
      BY LogGrows
    <2>2. QED
      BY <1>1, <2>1 DEF ProfileIsLastInterview
  <1>2. Len(log) \in Nat
    BY DEF LedgerTypeOK
  <1>3. ASSUME NEW e \in Event, log' = Append(log, e), e.kind # "interview"
        PROVE  \A i \in Positions' : i \notin Positions => log'[i].kind # "interview"
    <2>1. e.kind # "interview"
      BY <1>3
    <2>2. /\ Positions' = Positions \union {Len(log) + 1}
          /\ log'[Len(log) + 1] = e
      BY <1>2, <1>3 DEF LedgerTypeOK, Positions
    <2>3. QED
      BY <2>1, <2>2
  <1>4. CASE AppendNote(r)
    <2>1. Entry("note", r, 0) \in Event /\ Entry("note", r, 0).kind # "interview"
      BY EntryIsEvent DEF EventKinds
    <2>2. QED
      BY <1>1, <1>3, <1>4, <2>1 DEF AppendNote
  <1>5. CASE InsertTask(r)
    <2> DEFINE e == Entry("task_created", r, Len(tasks) + 1)
    <2>1. e \in Event /\ e.kind # "interview"
      BY EntryIsEvent DEF EventKinds, LedgerTypeOK
    <2>2. QED
      BY <1>1, <1>3, <1>5, <2>1 DEF InsertTask
  <1>6. CASE MarkTaskDone(r)
    <2> DEFINE e == Entry("task_done", r, r.task)
    <2>1. e \in Event /\ e.kind # "interview"
      BY EntryIsEvent DEF EventKinds, Request
    <2>2. QED
      BY <1>1, <1>3, <1>6, <2>1 DEF MarkTaskDone
  <1>7. CASE RecordInterview(r)
    <2> DEFINE a == Entry("interview", r, 0)
               b == Entry("marked_known", r, 0)
    <2>1. /\ a \in Event /\ a.kind = "interview" /\ a.call = r.call
          /\ b \in Event /\ b.kind = "marked_known"
      BY EntryIsEvent DEF EventKinds
    <2> HIDE DEF a, b
    <2>2. log' = Append(Append(log, a), b) /\ profile' = r.call
      BY <1>7 DEF RecordInterview, a, b
    <2>3. Append(log, a) \in Seq(Event) /\ Append(log, a)[Len(log) + 1] = a
      BY <1>2, <2>1 DEF LedgerTypeOK
    <2>4. /\ Len(log') = Len(log) + 2
          /\ log'[Len(log) + 1] = a /\ log'[Len(log) + 2] = b
      BY <1>2, <2>1, <2>2, <2>3 DEF LedgerTypeOK
    <2>5. /\ Len(log) + 1 \in Positions'
          /\ \A i \in Positions' : i = Len(log) + 2 \/ i <= Len(log) + 1
      BY <1>2, <2>4 DEF Positions
    <2>6. QED
      BY <2>1, <2>2, <2>4, <2>5 DEF ProfileIsLastInterview
  <1>8. QED
    BY <1>4, <1>5, <1>6, <1>7 DEF Inserts

----------------------------------------------------------------------------
(* All write transactions *)

(* The write transactions that complete no task. *)
Others(r) == AppendNote(r) \/ RecordInterview(r) \/ InsertTask(r)

(* Whatever is written, the rows agree with the log; the profile stays the *)
(* last interview's, cuts stay cuts and the log ends in one; and no task   *)
(* is done twice if only an open one is marked as done.                    *)
LEMMA InsertsKeepLedger ==
  ASSUME LedgerTypeOK, RowsAgree, InterviewAtomic, NEW r \in Request, Inserts(r)
  PROVE  /\ LedgerTypeOK' /\ RowsAgree' /\ InterviewAtomic' /\ Cut(Len(log))'
         /\ (DoneOnce /\ (Others(r) \/ Open(r.task))) => DoneOnce'
  <1>1. LedgerTypeOK'
    BY WritesKeepTypes DEF Inserts
  <1>2. ASSUME Others(r)
        PROVE  RowsAgree' /\ (DoneOnce => DoneOnce')
    <2>1. CASE InsertTask(r)
      BY <2>1, InsertTaskKeepsAgreement
    <2>2. CASE AppendNote(r)
      <3>1. /\ Entry("note", r, 0) \in Event /\ Entry("note", r, 0).kind = "note"
        BY EntryIsEvent DEF EventKinds
      <3>2. /\ Len(log') = Len(log) + 1
            /\ \A i \in 1..Len(log) : log'[i] = log[i]
            /\ log'[Len(log) + 1] = Entry("note", r, 0)
            /\ tasks' = tasks /\ Len(log) \in Nat
        BY <2>2, <3>1 DEF AppendNote, LedgerTypeOK
      <3>3. QED
        BY <1>1, <3>1, <3>2, OtherEntriesKeepAgreement
    <2>3. CASE RecordInterview(r)
      <3> DEFINE a == Entry("interview", r, 0)
                 b == Entry("marked_known", r, 0)
      <3>1. /\ a \in Event /\ a.kind = "interview"
            /\ b \in Event /\ b.kind = "marked_known"
        BY EntryIsEvent DEF EventKinds
      <3>2. log' = Append(Append(log, a), b) /\ tasks' = tasks /\ Len(log) \in Nat
        BY <2>3 DEF RecordInterview, LedgerTypeOK
      <3> HIDE DEF a, b
      <3>3. /\ Append(log, a) \in Seq(Event)
            /\ Len(Append(log, a)) = Len(log) + 1
            /\ \A i \in 1..Len(log) : Append(log, a)[i] = log[i]
            /\ Append(log, a)[Len(log) + 1] = a
        BY <3>1 DEF LedgerTypeOK
      <3>4. /\ Len(log') = Len(log) + 2
            /\ \A i \in 1..Len(log) : log'[i] = log[i]
            /\ log'[Len(log) + 1] = a /\ log'[Len(log) + 2] = b
        BY <3>1, <3>2, <3>3
      <3>5. QED
        BY <1>1, <3>1, <3>2, <3>4, OtherEntriesKeepAgreement
    <2>4. QED
      BY <1>2, <2>1, <2>2, <2>3 DEF Others
  <1>3. ASSUME MarkTaskDone(r)
        PROVE  RowsAgree' /\ ((DoneOnce /\ Open(r.task)) => DoneOnce')
    BY <1>3, MarkTaskDoneKeepsAgreement
  <1>4. Others(r) \/ MarkTaskDone(r)
    BY DEF Inserts, Others
  <1>5. Cut(derived)' /\ Cut(Len(log))'
    <2>1. derived' = derived
      BY DEF Inserts, AppendNote, RecordInterview, InsertTask, MarkTaskDone
    <2>2. Cut(derived) => Cut(derived)' /\ Cut(Len(log))'
      BY <2>1, CutsStay DEF Cut
    <2>3. QED
      BY <2>2 DEF InterviewAtomic
  <1>6. ProfileIsLastInterview'
    BY ProfileStaysLast DEF InterviewAtomic
  <1>7. QED
    BY <1>1, <1>2, <1>3, <1>4, <1>5, <1>6 DEF InterviewAtomic

(* A step that leaves log, rows and profile alone, and the derived tables  *)
(* at a cut, disturbs nothing that is said of them.                        *)
LEMMA CutsKeepLedger ==
  ASSUME UNCHANGED <<log, tasks, profile>>, Cut(derived')
  PROVE  /\ Positions' = Positions /\ TaskIds' = TaskIds
         /\ RowsAgree => RowsAgree'
         /\ DoneOnce => DoneOnce'
         /\ InterviewAtomic => InterviewAtomic'
         /\ \A n : Cut(n)' <=> Cut(n)
  <1>1. Positions' = Positions /\ TaskIds' = TaskIds
    BY DEF Positions, TaskIds
  <1>2. (RowsAgree => RowsAgree') /\ (DoneOnce => DoneOnce')
    BY <1>1 DEF RowsAgree, CreationsLogged, CompletionsLogged, DoneOnce, IsCreation, IsCompletion
  <1>3. \A n : Cut(n)' <=> Cut(n)
    BY <1>1 DEF Cut
  <1>4. InterviewAtomic => InterviewAtomic'
    BY <1>1, <1>3 DEF InterviewAtomic, ProfileIsLastInterview, Cut
  <1>5. QED
    BY <1>1, <1>2, <1>3, <1>4

=============================================================================
