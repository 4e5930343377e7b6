--------------------------- MODULE LedgerTransfer ---------------------------
(***************************************************************************)
(* Moving a whole ledger: the migration of the SQLite ledger to Supabase,  *)
(* and the SQLite file restored from a JSONL snapshot.                     *)
(*                                                                         *)
(* A ledger is moved as its events, by id; the rows of tasks and profile,  *)
(* which a migration copies as well, must go on agreeing with them.  The   *)
(* program tells nobody to stop writing meanwhile: callers write to either *)
(* ledger between any two steps (rebuilds and lost requests of such calls  *)
(* are SupabaseLedger's subject), and a migration is started again after a *)
(* failure, or after it succeeded.                                         *)
(*                                                                         *)
(* A write to the SQLite file is one step.  A write to Supabase takes its  *)
(* ids from the counters of the tables first, which no rollback gives back *)
(* and no lock guards, and is in the tables when it commits.  The program  *)
(* reads the timestamps of Supabase to the second; the SQLite file gives   *)
(* them as they were written.                                              *)
(***************************************************************************)
EXTENDS Naturals, FiniteSets, FiniteSetsExt

CONSTANTS MaxWrites,    \* bound on the writes of callers
          MaxRuns,      \* bound on the migrations started
          MaxFaults     \* bound on lost answers, errors and kills

ASSUME TransferAssumption == MaxWrites \in Nat /\ MaxRuns \in Nat /\ MaxFaults \in Nat

Ledgers == {"sqlite", "supabase"}

VARIABLES log,          \* the events of a ledger
          rows,         \* its tasks: the write that made each, is it done
          profile,      \* the write that made its profile row, 0 for none
          open,         \* events of writes to Supabase that have not committed
          nextEvent,    \* counter of Supabase's events table
          nextTask,     \* and of its tasks table
          writes,       \* number of writes of callers
          pc,           \* where the migration is
          copy,         \* source_events
          expected,     \* the events expected_concepts/edges are derived from
          state,        \* profile and tasks as read from the source
          late,         \* requests the migration has given up on
          attempt, runs, faults,
          outcome       \* of the last migration

tables == <<log, rows, profile>>
ledgerVars == <<tables, open, nextEvent, nextTask>>
runVars == <<pc, copy, expected, state, attempt>>

(* Ghosts: somebody has written since the last migration began, or was     *)
(* writing then; nothing has overlapped a migration, and none has added    *)
(* events and then failed to copy the rows, or the last one that succeeded *)
(* undisturbed came after; the kinds of import whose last counter reset    *)
(* had a write or another import beside it.                                *)
VARIABLES touched, sound, raced

ghosts == <<touched, sound, raced>>
vars == <<ledgerVars, writes, runVars, late, runs, faults, outcome, ghosts>>

(* fine: the timestamp has a fraction of a second. *)
Kinds == {"interview", "task_created", "task_done"}
Event == [id : Nat, kind : Kinds, by : 1..MaxWrites, task : Nat, fine : BOOLEAN]
Row == [id : Nat, by : 1..MaxWrites, done : BOOLEAN]
NoState == [profile |-> 0, rows |-> {}]

Init ==
  /\ log = [l \in Ledgers |-> {}] /\ rows = [l \in Ledgers |-> {}]
  /\ profile = [l \in Ledgers |-> 0]
  /\ open = {} /\ nextEvent = 1 /\ nextTask = 1
  /\ writes = 0 /\ runs = 0 /\ faults = 0
  /\ pc = "idle" /\ copy = {} /\ expected = {} /\ state = NoState
  /\ late = {} /\ attempt = 0 /\ outcome = "none"
  /\ touched = FALSE /\ sound = TRUE /\ raced = {}

Ids(table) == {r.id : r \in table}
LastId(table) == Max({0} \union Ids(table))

----------------------------------------------------------------------------
(* Callers. *)

(* What the transaction of a write does to the tables. *)
RowsAfter(tasks, e) ==
  CASE e.kind = "interview" -> tasks
    [] e.kind = "task_created" -> tasks \union {[id |-> e.task, by |-> e.by, done |-> FALSE]}
    [] e.kind = "task_done" ->
         {IF r.id = e.task THEN [r EXCEPT !.done = TRUE] ELSE r : r \in tasks}

Apply(l, e) ==
  /\ log' = [log EXCEPT ![l] = @ \union {e}]
  /\ rows' = [rows EXCEPT ![l] = RowsAfter(@, e)]
  /\ profile' = [profile EXCEPT ![l] = IF e.kind = "interview" THEN e.by ELSE @]

(* The ids an insert gets: SQLite's counter is part of the transaction, so *)
(* it never leaves a gap.                                                  *)
EventId(l) == IF l = "sqlite" THEN LastId(log[l]) + 1 ELSE nextEvent
TaskId(l) == IF l = "sqlite" THEN LastId(rows[l]) + 1 ELSE nextTask

Write(l, e) ==
  /\ writes < MaxWrites
  /\ writes' = writes + 1
  /\ \/ l = "sqlite" /\ Apply(l, e) /\ UNCHANGED <<open, nextEvent, nextTask>>
     \/ /\ l = "supabase"
        /\ open' = open \union {e}
        /\ nextEvent' = nextEvent + 1
        /\ nextTask' = IF e.kind = "task_created" THEN nextTask + 1 ELSE nextTask
        /\ UNCHANGED tables
  /\ touched' = TRUE
  /\ sound' = (sound /\ pc = "idle")
  /\ UNCHANGED <<runVars, late, runs, faults, outcome, raced>>

NewEvent(l, kind, t, f) ==
  [id |-> EventId(l), kind |-> kind, by |-> writes + 1, task |-> t, fine |-> f]

(* The upsert of the one profile row comes first and locks it. *)
RecordInterview(l) ==
  /\ l = "supabase" => \A e \in open : e.kind # "interview"
  /\ Write(l, NewEvent(l, "interview", 0, FALSE))

CreateTask(l) ==
  \E f \in BOOLEAN : Write(l, NewEvent(l, "task_created", TaskId(l), f))

(* SELECT ... FOR UPDATE: one at a time for a task. *)
CompleteTask(l, r) ==
  /\ r \in rows[l] /\ ~r.done
  /\ l = "supabase" => \A e \in open : ~(e.kind = "task_done" /\ e.task = r.id)
  /\ \E f \in BOOLEAN : Write(l, NewEvent(l, "task_done", r.id, f))

(* An id that is taken by then is an error. *)
Commit(e) ==
  /\ e \in open
  /\ e.id \notin Ids(log["supabase"])
  /\ e.kind = "task_created" => e.task \notin Ids(rows["supabase"])
  /\ Apply("supabase", e)
  /\ open' = open \ {e}
  /\ UNCHANGED <<nextEvent, nextTask, writes, runVars, late, runs, faults, outcome, ghosts>>

(* That error, or any other: the ids are lost. *)
RollBack(e) ==
  /\ e \in open
  /\ open' = open \ {e}
  /\ UNCHANGED <<tables, nextEvent, nextTask, writes, runVars, late, runs, faults,
                 outcome, ghosts>>

----------------------------------------------------------------------------
(* The two requests of a migration that write to Supabase. *)

(* Both set a counter to the largest id they see, which is not that of a   *)
(* write in flight, nor of another import in flight.                       *)
Resets(kind, others) ==
  raced' = IF open # {} \/ (\E m \in others : m.kind = kind)
           THEN raced \union {kind} ELSE raced \ {kind}

Conflicts(events) ==
  \E e \in events, f \in log["supabase"] : e.id = f.id /\ e # f

(* An insert of an id that a write in flight holds waits for its end. *)
EventsHeld(events) == \E e \in open : e.id \in Ids(events) \ Ids(log["supabase"])

EventsCounter(events) ==
  nextEvent' = LastId(log["supabase"] \union events) + 1

(* Mutant of ImportEvents: the counter of the ids is left where it was. *)
ImportEventsNoSetval(events) ==
  /\ ~Conflicts(events) /\ ~EventsHeld(events)
  /\ log' = [log EXCEPT !["supabase"] = @ \union events]
  /\ UNCHANGED <<rows, profile, open, nextEvent, nextTask>>

(* astrolabe_import_events: an id that is there must have the same         *)
(* content, the others are inserted, the counter follows the largest id.   *)
ImportEvents(events) ==
  /\ ~Conflicts(events) /\ ~EventsHeld(events)
  /\ log' = [log EXCEPT !["supabase"] = @ \union events]
  /\ EventsCounter(events)
  /\ UNCHANGED <<rows, profile, open, nextTask>>

RowsWith(s) == s.rows \union {r \in rows["supabase"] : r.id \notin Ids(s.rows)}

TasksCounter(s) == nextTask' = LastId(RowsWith(s)) + 1

(* Its upserts wait for the writes that hold the rows. *)
StateHeld(s) == \E e \in open : e.kind = "interview" \/ e.task \in Ids(s.rows)

(* astrolabe_import_state: the profile (whose JSON is never empty) and     *)
(* every task are written over what is there.                              *)
ImportState(s) ==
  /\ ~StateHeld(s)
  /\ rows' = [rows EXCEPT !["supabase"] = RowsWith(s)]
  /\ profile' = [profile EXCEPT !["supabase"] = s.profile]
  /\ TasksCounter(s)
  /\ UNCHANGED <<log, open, nextEvent>>

(* A request that is rolled back at its end has moved the counter. *)
ServeLate(m) ==
  /\ m \in late
  /\ late' = late \ {m}
  /\ \/ m.kind = "events" /\ ImportEvents(m.what) /\ Resets("events", late')
     \/ /\ m.kind = "events" /\ ~Conflicts(m.what) /\ ~EventsHeld(m.what)
        /\ EventsCounter(m.what) /\ Resets("events", late')
        /\ UNCHANGED <<tables, open, nextTask>>
     \/ m.kind = "events" /\ Conflicts(m.what) /\ UNCHANGED <<ledgerVars, raced>>
     \/ m.kind = "state" /\ ImportState(m.what) /\ Resets("state", late')
     \/ /\ m.kind = "state" /\ ~StateHeld(m.what)
        /\ TasksCounter(m.what) /\ Resets("state", late')
        /\ UNCHANGED <<tables, open, nextEvent>>
  /\ touched' = TRUE /\ sound' = FALSE
  /\ UNCHANGED <<writes, runVars, runs, faults, outcome>>

----------------------------------------------------------------------------
(* migrate_sqlite_to_supabase *)

Goto(label) == pc' = label /\ attempt' = 0

Ends(answer) ==
  /\ Goto("idle")
  /\ outcome' = answer
  /\ copy' = {} /\ expected' = {} /\ state' = NoState

Begin ==
  /\ pc = "idle"
  /\ runs < MaxRuns
  /\ runs' = runs + 1
  /\ copy' = log["sqlite"]
  /\ Goto("rebuild")
  /\ outcome' = "none"
  /\ touched' = (open # {}) /\ sound' = (sound /\ open = {})
  /\ UNCHANGED <<ledgerVars, writes, expected, state, late, faults, raced>>

(* The source's derived tables are built anew, from its events by then. *)
DeriveSource ==
  /\ pc = "rebuild"
  /\ expected' = log["sqlite"]
  /\ Goto("events")
  /\ UNCHANGED <<ledgerVars, writes, copy, state, late, runs, faults, outcome, ghosts>>

(* With no events there is no request.  A conflict ends the migration, and *)
(* so may a late import that inserts the same ids at the same time.        *)
SendEvents ==
  /\ pc = "events"
  /\ \/ /\ copy # {} /\ ImportEvents(copy) /\ Resets("events", late)
        /\ sound' = (sound /\ log' = log)
        /\ Goto("check") /\ UNCHANGED <<copy, expected, state, outcome>>
     \/ /\ copy = {} /\ Goto("check")
        /\ UNCHANGED <<copy, expected, state, outcome, ledgerVars, sound, raced>>
     \/ /\ Conflicts(copy) \/ \E m \in late : m.kind = "events"
        /\ Ends("failed") /\ UNCHANGED <<ledgerVars, sound, raced>>
  /\ UNCHANGED <<writes, late, runs, faults, touched>>

(* load_events of Supabase cuts the timestamps to the second. *)
Loaded(events) == {[e EXCEPT !.fine = FALSE] : e \in events}

(* Mutant of CheckTarget: the target may have more events than the source. *)
CheckTargetPrefix ==
  /\ pc = "check"
  /\ \/ /\ copy \subseteq Loaded(log["supabase"])
        /\ Goto("derive")
        /\ UNCHANGED <<copy, expected, state, outcome>>
     \/ ~(copy \subseteq Loaded(log["supabase"])) /\ Ends("failed")
  /\ UNCHANGED <<ledgerVars, writes, late, runs, faults, ghosts>>

(* Number and content of the target's events, as it gives them, and of the *)
(* source's, as they were written.                                         *)
CheckTarget ==
  /\ pc = "check"
  /\ \/ /\ Loaded(log["supabase"]) = copy
        /\ Goto("derive")
        /\ UNCHANGED <<copy, expected, state, outcome>>
     \/ Loaded(log["supabase"]) # copy /\ Ends("failed")
  /\ UNCHANGED <<ledgerVars, writes, late, runs, faults, ghosts>>

(* Rebuild of the target and comparison of the derived tables.  The same   *)
(* events give the same tables, different ones may do so too.              *)
CheckDerived ==
  /\ pc = "derive"
  /\ \/ Goto("read") /\ UNCHANGED <<copy, expected, state, outcome>>
     \/ Loaded(log["supabase"]) # expected /\ Ends("failed")
  /\ UNCHANGED <<ledgerVars, writes, late, runs, faults, ghosts>>

(* The reads of profile and tasks (a write between them overlaps the       *)
(* migration as one between two other steps does).                         *)
ReadState ==
  /\ pc = "read"
  /\ state' = [profile |-> profile["sqlite"], rows |-> rows["sqlite"]]
  /\ Goto("state")
  /\ UNCHANGED <<ledgerVars, writes, copy, expected, late, runs, faults, outcome, ghosts>>

(* A migration that nothing has overlapped leaves the target whole. *)
SendState ==
  /\ pc = "state"
  /\ ImportState(state) /\ Resets("state", late)
  /\ sound' = ~touched
  /\ Ends("ok")
  /\ UNCHANGED <<writes, late, runs, faults, touched>>

Fault == faults < MaxFaults /\ faults' = faults + 1

Requesting == pc = "state" \/ (pc = "events" /\ copy # {})

LoseRequest ==
  late' = IF Requesting
          THEN late \union {[kind |-> pc, what |-> IF pc = "events" THEN copy ELSE state]}
          ELSE late

(* _request repeats a request whose answer is lost once. *)
Resend ==
  /\ Requesting /\ attempt = 0
  /\ Fault
  /\ LoseRequest
  /\ attempt' = 1
  /\ UNCHANGED <<ledgerVars, writes, pc, copy, expected, state, runs, outcome, ghosts>>

(* Any error, or the process is killed. *)
Abort ==
  /\ pc # "idle"
  /\ Fault
  /\ LoseRequest
  /\ Ends("failed")
  /\ UNCHANGED <<ledgerVars, writes, runs, ghosts>>

Migrate ==
  \/ Begin \/ DeriveSource \/ SendEvents \/ CheckTarget \/ CheckDerived
  \/ ReadState \/ SendState \/ Resend \/ Abort

----------------------------------------------------------------------------
(* Snapshot and restore: write_events_jsonl writes the events in the order *)
(* of their ids, restore_sqlite makes a new file of them with the same     *)
(* ids, and the profile of the last interview event.                       *)
InterviewsOf(events) == {e \in events : e.kind = "interview"}

ProfileFrom(events, by) ==
  IF InterviewsOf(events) = {} THEN by = 0
  ELSE \E e \in InterviewsOf(events) :
         e.by = by /\ \A f \in InterviewsOf(events) : f.id <= e.id

----------------------------------------------------------------------------

Call(l) ==
  \/ RecordInterview(l)
  \/ CreateTask(l)
  \/ \E r \in rows[l] : CompleteTask(l, r)

Next ==
  \/ \E l \in Ledgers : Call(l)
  \/ \E e \in open : Commit(e) \/ RollBack(e)
  \/ Migrate
  \/ \E m \in late : ServeLate(m)

Spec == Init /\ [][Next]_vars

----------------------------------------------------------------------------
(* Properties *)

(* A migration that reports success has copied events, tasks and profile,  *)
(* if nobody has written to either ledger since it began; whatever it      *)
(* found in the target, and after any failed runs.                         *)
SuccessIsCopy ==
  (outcome = "ok" /\ ~touched) =>
     /\ log["supabase"] = log["sqlite"]
     /\ rows["supabase"] = rows["sqlite"]
     /\ profile["supabase"] = profile["sqlite"]

(* A ledger's rows and events agree, and a file restored from a snapshot   *)
(* of the events would have its profile.                                   *)
EventsOf(l, kind, t) == {e \in log[l] : e.kind = kind /\ e.task = t}

Agrees(l) ==
  /\ \A r \in rows[l] :
       /\ \E e \in log[l] : EventsOf(l, "task_created", r.id) = {e} /\ e.by = r.by
       /\ r.done <=> EventsOf(l, "task_done", r.id) # {}
  /\ \A e \in log[l] : e.task \in {0} \union Ids(rows[l])
  /\ ProfileFrom(log[l], profile[l])

(* The migration is idempotent: a target in use agrees with its events     *)
(* after any number of further migrations, succeeding or refused, from a   *)
(* source that has moved on too.  One that has added events and was then   *)
(* refused or cut off (for one thing, the check refuses any timestamp with *)
(* a fraction of a second, when the events are already in) leaves task     *)
(* events without rows, until a migration that nothing overlaps succeeds;  *)
(* one that overlaps writes may do so too.                                 *)
RerunKeepsAgreement == Agrees("sqlite") /\ (sound => Agrees("supabase"))

(* Supabase's counters are past every id in use or in flight, so that no   *)
(* later write is refused: unless the last import of the table ran beside  *)
(* a write or another import, whose ids it did not see.                    *)
IdsFree ==
  /\ "events" \notin raced => \A e \in log["supabase"] \union open : e.id < nextEvent
  /\ "state" \notin raced =>
       /\ \A r \in rows["supabase"] : r.id < nextTask
       /\ \A e \in open : e.kind = "task_created" => e.task < nextTask

=============================================================================
