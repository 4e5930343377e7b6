------------------------ MODULE LedgerTransferProofs ------------------------
(***************************************************************************)
(* What a migration promises, for any number of writes, runs and faults.   *)
(*                                                                         *)
(* Fits bounds all ids by the number of writes, so that a table has a      *)
(* largest one.  IInv adds what a migration knows of two ledgers that      *)
(* nobody has written to since it began (Undisturbed) and where the rows   *)
(* of the target come from (TargetTasks); AInv adds what the writes in     *)
(* flight will do to the agreement of rows and events (OpenTasks), and     *)
(* that the next ids are free while nothing has spoilt the target.         *)
(***************************************************************************)
EXTENDS LedgerTransfer, WellFoundedInduction, TLAPS

AnyEvent == [id : Nat, kind : Kinds, by : Nat, task : Nat, fine : BOOLEAN]
AnyRow == [id : Nat, by : Nat, done : BOOLEAN]
AnyState == [profile : Nat, rows : SUBSET AnyRow]

(* Ids are no greater than the number of writes. *)
UpTo(table, n) == \A r \in table : r.id <= n

TablesFit ==
  /\ log \in [Ledgers -> SUBSET AnyEvent] /\ rows \in [Ledgers -> SUBSET AnyRow]
  /\ profile \in [Ledgers -> Nat] /\ writes \in Nat
  /\ \A l \in Ledgers : UpTo(log[l], writes) /\ UpTo(rows[l], writes)

OpenFits ==
  /\ open \in SUBSET AnyEvent /\ UpTo(open, writes)
  /\ nextEvent \in Nat \ {0} /\ nextEvent <= writes + 1
  /\ nextTask \in Nat \ {0} /\ nextTask <= writes + 1
  /\ \A e \in open : e.kind = "task_created" => e.task <= writes

(* Rows that were read from the source have tasks of the source, which are *)
(* never taken back.                                                       *)
EventsFit(events) == events \in SUBSET AnyEvent /\ UpTo(events, writes)
StateFits(s) ==
  /\ s \in AnyState /\ UpTo(s.rows, writes)
  /\ Ids(s.rows) \subseteq Ids(rows["sqlite"])

RequestFits(m) ==
  /\ m.kind = "events" => EventsFit(m.what)
  /\ m.kind = "state" => StateFits(m.what)

RunFits ==
  /\ pc \in {"idle", "rebuild", "events", "check", "derive", "read", "state"}
  /\ EventsFit(copy) /\ StateFits(state)
  /\ \A m \in late : RequestFits(m)

Fits == TablesFit /\ OpenFits /\ RunFits

----------------------------------------------------------------------------
(* The largest id of a table *)

LEMMA LastOf ==
  ASSUME NEW n \in Nat, NEW S \in SUBSET (0..n), S # {}
  PROVE  Max(S) \in S /\ \A j \in S : j <= Max(S)
  <1> DEFINE T == {n - i : i \in S}
  <1>1. T \in SUBSET Nat /\ T # {}
    <2>1. \A i \in S : i \in Nat /\ i <= n /\ n - i \in Nat /\ n - i \in T
      OBVIOUS
    <2>2. QED
      BY <2>1
  <1>2. IsWellFoundedOn(OpToRel(<, Nat), Nat)
    BY NatLessThanWellFounded
  <1>3. PICK x \in T : \A y \in T : <<y, x>> \notin OpToRel(<, Nat)
    BY <1>1, <1>2, WFMin
  <1>4. \A y \in T : ~(y < x)
    BY <1>1, <1>3 DEF OpToRel
  <1>5. PICK i \in S : x = n - i
    BY <1>3
  <1>6. \A j \in S : i >= j
    BY <1>4, <1>5
  <1>7. QED
    BY <1>6 DEF Max

LEMMA LastIdBounds ==
  ASSUME NEW n \in Nat, NEW T, \A r \in T : r.id \in Nat, UpTo(T, n)
  PROVE  /\ LastId(T) \in Nat /\ LastId(T) <= n
         /\ \A r \in T : r.id <= LastId(T)
  <1> DEFINE S == {0} \union Ids(T)
  <1>1. S \in SUBSET (0..n) /\ S # {}
    BY DEF Ids, UpTo
  <1>2. \A r \in T : r.id \in S
    BY DEF Ids
  <1>3. LastId(T) = Max(S)
    BY DEF LastId
  <1> HIDE DEF S
  <1>4. Max(S) \in S /\ \A j \in S : j <= Max(S)
    BY <1>1, LastOf
  <1>5. Max(S) \in 0..n
    BY <1>1, <1>4
  <1>6. \A r \in T : r.id <= Max(S)
    BY <1>2, <1>4
  <1>7. QED
    BY <1>3, <1>5, <1>6

----------------------------------------------------------------------------
(* The writes *)

LEMMA RowsAfterFit ==
  ASSUME NEW T \in SUBSET AnyRow, NEW e \in AnyEvent
  PROVE  /\ RowsAfter(T, e) \in SUBSET AnyRow
         /\ e.kind = "interview" => RowsAfter(T, e) = T
         /\ e.kind = "task_created" =>
              /\ RowsAfter(T, e) = T \union {[id |-> e.task, by |-> e.by, done |-> FALSE]}
              /\ Ids(RowsAfter(T, e)) = Ids(T) \union {e.task}
         /\ e.kind = "task_done" =>
              /\ RowsAfter(T, e) =
                   {IF r.id = e.task THEN [r EXCEPT !.done = TRUE] ELSE r : r \in T}
              /\ Ids(RowsAfter(T, e)) = Ids(T)
  <1>1. CASE e.kind = "interview"
    BY <1>1 DEF RowsAfter
  <1>2. CASE e.kind = "task_created"
    <2>1. RowsAfter(T, e) = T \union {[id |-> e.task, by |-> e.by, done |-> FALSE]}
      BY <1>2 DEF RowsAfter
    <2>2. PICK new \in AnyRow : new = [id |-> e.task, by |-> e.by, done |-> FALSE]
      BY DEF AnyRow, AnyEvent
    <2>3. new.id = e.task
      BY <2>2
    <2>4. Ids(T \union {new}) = Ids(T) \union {e.task}
      BY <2>3 DEF Ids
    <2>5. QED
      BY <1>2, <2>1, <2>2, <2>4
  <1>3. CASE e.kind = "task_done"
    <2> DEFINE d(r) == IF r.id = e.task THEN [r EXCEPT !.done = TRUE] ELSE r
    <2>1. RowsAfter(T, e) = {d(r) : r \in T}
      BY <1>3 DEF RowsAfter
    <2>2. \A r \in AnyRow : d(r) \in AnyRow /\ d(r).id = r.id
      BY DEF AnyRow
    <2>3. RowsAfter(T, e) \in SUBSET AnyRow
      BY <2>1, <2>2
    <2>4. Ids({d(r) : r \in T}) = Ids(T)
      <3> HIDE DEF d
      <3>1. QED
        BY <2>2 DEF Ids
    <2>5. QED
      BY <1>3, <2>1, <2>3, <2>4
  <1>4. QED
    BY <1>1, <1>2, <1>3 DEF AnyEvent, Kinds

(* The other ledger is left alone, and no row is taken away. *)
LEMMA ApplyFits ==
  ASSUME TablesFit, NEW l \in Ledgers, NEW e \in AnyEvent, Apply(l, e)
  PROVE  /\ log' \in [Ledgers -> SUBSET AnyEvent] /\ rows' \in [Ledgers -> SUBSET AnyRow]
         /\ profile' \in [Ledgers -> Nat]
         /\ log'[l] = log[l] \union {e} /\ rows'[l] = RowsAfter(rows[l], e)
         /\ profile'[l] = IF e.kind = "interview" THEN e.by ELSE profile[l]
         /\ \A x \in Ledgers \ {l} :
              log'[x] = log[x] /\ rows'[x] = rows[x] /\ profile'[x] = profile[x]
         /\ Ids(rows'[l]) = IF e.kind = "task_created" THEN Ids(rows[l]) \union {e.task}
                                                       ELSE Ids(rows[l])
  <1>1. rows[l] \in SUBSET AnyRow /\ e.by \in Nat /\ e.kind \in Kinds
    BY DEF TablesFit, AnyEvent
  <1>2. RowsAfter(rows[l], e) \in SUBSET AnyRow
    BY <1>1, RowsAfterFit
  <1>3. Ids(RowsAfter(rows[l], e)) = IF e.kind = "task_created" THEN Ids(rows[l]) \union {e.task}
                                                                ELSE Ids(rows[l])
    BY <1>1, RowsAfterFit DEF Kinds
  <1>4. log' = [log EXCEPT ![l] = @ \union {e}]
    BY DEF Apply
  <1>5. rows' = [rows EXCEPT ![l] = RowsAfter(rows[l], e)]
    BY DEF Apply
  <1>6. profile' = [profile EXCEPT ![l] = IF e.kind = "interview" THEN e.by ELSE @]
    BY DEF Apply
  <1>7. QED
    BY <1>1, <1>2, <1>3, <1>4, <1>5, <1>6 DEF TablesFit

(* Ids within a bound stay within a larger one. *)
LEMMA UpToGrows ==
  ASSUME NEW n \in Nat, NEW T, \A r \in T : r.id \in Nat, UpTo(T, n)
  PROVE  UpTo(T, n + 1)
  BY DEF UpTo

LEMMA RowIdsBounded ==
  ASSUME NEW n \in Nat, NEW T, NEW U, Ids(U) \subseteq Ids(T) \union 0..n, UpTo(T, n)
  PROVE  UpTo(U, n)
  BY DEF UpTo, Ids

(* The run is not touched by a write, and what it holds still fits.        *)
LEMMA RunStays ==
  ASSUME RunFits, TablesFit, UNCHANGED <<pc, copy, state>>, late' \subseteq late,
         writes' = writes \/ writes' = writes + 1,
         Ids(rows["sqlite"]) \subseteq Ids(rows'["sqlite"])
  PROVE  RunFits'
  <1>1. writes \in Nat
    BY DEF TablesFit
  <1>2. ASSUME NEW T, \A r \in T : r.id \in Nat, UpTo(T, writes)
        PROVE  UpTo(T, writes')
    BY <1>1, <1>2, UpToGrows
  <1>3. ASSUME NEW events, EventsFit(events)
        PROVE  EventsFit(events)'
    <2>1. events \in SUBSET AnyEvent /\ UpTo(events, writes)
      BY <1>3 DEF EventsFit
    <2>2. \A r \in events : r.id \in Nat
      BY <2>1 DEF AnyEvent
    <2>3. QED
      BY <1>2, <2>1, <2>2 DEF EventsFit
  <1>4. ASSUME NEW s, StateFits(s)
        PROVE  StateFits(s)'
    <2>1. s \in AnyState /\ UpTo(s.rows, writes)
      BY <1>4 DEF StateFits
    <2>2. \A r \in s.rows : r.id \in Nat
      BY <2>1 DEF AnyState, AnyRow
    <2>3. QED
      BY <1>2, <1>4, <2>1, <2>2 DEF StateFits
  <1>5. EventsFit(copy) /\ StateFits(state)
        /\ \A m \in late : RequestFits(m)
    BY DEF RunFits
  <1>6. EventsFit(copy)' /\ StateFits(state)'
    <2>1. PICK c, s : c = copy /\ s = state
      OBVIOUS
    <2>2. EventsFit(c)' /\ StateFits(s)'
      BY <1>3, <1>4, <1>5, <2>1
    <2>3. copy' = c /\ state' = s
      BY <2>1
    <2>4. QED
      BY <2>2, <2>3 DEF EventsFit, StateFits
  <1>7. ASSUME NEW m \in late'
        PROVE  RequestFits(m)'
    BY <1>3, <1>4, <1>5 DEF RequestFits
  <1>8. QED
    BY <1>6, <1>7 DEF RunFits, EventsFit, StateFits

(* A call is a write of an event with the next ids of its ledger. *)
NextIds(l, e) ==
  /\ e.id = EventId(l) /\ e.id \in Nat /\ e.id <= writes + 1
  /\ e.kind = "interview" =>
       e.task = 0 /\ (l = "supabase" => \A f \in open : f.kind # "interview")
  /\ e.kind = "task_created" => /\ e.task \in Nat \ {0} /\ e.task <= writes + 1
                                /\ e.task = TaskId(l)
  /\ e.kind = "task_done" => e.task \in Ids(rows[l])

LEMMA CallIsWrite ==
  ASSUME TablesFit, OpenFits, NEW l \in Ledgers, Call(l)
  PROVE  \E e \in AnyEvent : Write(l, e) /\ NextIds(l, e)
  <1>1. writes \in Nat /\ log[l] \in SUBSET AnyEvent /\ rows[l] \in SUBSET AnyRow
        /\ UpTo(log[l], writes) /\ UpTo(rows[l], writes)
    BY DEF TablesFit
  <1>2. \A r \in log[l] \union rows[l] : r.id \in Nat
    BY <1>1 DEF AnyEvent, AnyRow
  <1>3. /\ LastId(log[l]) \in Nat /\ LastId(log[l]) <= writes
        /\ LastId(rows[l]) \in Nat /\ LastId(rows[l]) <= writes
    BY <1>1, <1>2, LastIdBounds
  <1>4. /\ EventId(l) \in Nat /\ EventId(l) <= writes + 1
        /\ TaskId(l) \in Nat \ {0} /\ TaskId(l) <= writes + 1
    BY <1>1, <1>3 DEF EventId, TaskId, OpenFits
  <1>5. ASSUME NEW kind \in Kinds, NEW t \in Nat, NEW f \in BOOLEAN
        PROVE  /\ NewEvent(l, kind, t, f) \in AnyEvent
               /\ NewEvent(l, kind, t, f).id = EventId(l)
               /\ NewEvent(l, kind, t, f).kind = kind /\ NewEvent(l, kind, t, f).task = t
    BY <1>1, <1>4 DEF NewEvent, AnyEvent
  <1>6. CASE RecordInterview(l)
    <2>1. PICK e : e = NewEvent(l, "interview", 0, FALSE)
      OBVIOUS
    <2>2. e \in AnyEvent /\ e.id = EventId(l) /\ e.kind = "interview" /\ e.task = 0
      BY <1>5, <2>1 DEF Kinds
    <2>3. Write(l, e) /\ (l = "supabase" => \A f \in open : f.kind # "interview")
      BY <1>6, <2>1 DEF RecordInterview
    <2>4. QED
      BY <1>4, <2>2, <2>3 DEF NextIds
  <1>7. CASE CreateTask(l)
    <2>1. PICK f \in BOOLEAN : Write(l, NewEvent(l, "task_created", TaskId(l), f))
      BY <1>7 DEF CreateTask
    <2>2. PICK e : e = NewEvent(l, "task_created", TaskId(l), f)
      OBVIOUS
    <2>3. e \in AnyEvent /\ e.id = EventId(l) /\ e.kind = "task_created" /\ e.task = TaskId(l)
      BY <1>4, <1>5, <2>2 DEF Kinds
    <2>4. QED
      BY <1>4, <2>1, <2>2, <2>3 DEF NextIds
  <1>8. ASSUME NEW r \in rows[l], CompleteTask(l, r)
        PROVE  \E e \in AnyEvent : Write(l, e) /\ NextIds(l, e)
    <2>1. PICK f \in BOOLEAN : Write(l, NewEvent(l, "task_done", r.id, f))
      BY <1>8 DEF CompleteTask
    <2>2. PICK e : e = NewEvent(l, "task_done", r.id, f)
      OBVIOUS
    <2>3. r.id \in Nat /\ r.id \in Ids(rows[l])
      BY <1>2, <1>8 DEF Ids
    <2>4. e \in AnyEvent /\ e.id = EventId(l) /\ e.kind = "task_done" /\ e.task = r.id
      BY <1>5, <2>2, <2>3 DEF Kinds
    <2>5. QED
      BY <1>4, <2>1, <2>2, <2>3, <2>4 DEF NextIds
  <1>9. QED
    BY <1>6, <1>7, <1>8 DEF Call

(* What the transaction of a write adds is within the bounds. *)
LEMMA ApplyBounded ==
  ASSUME TablesFit, NEW l \in Ledgers, NEW e \in AnyEvent, Apply(l, e),
         writes' = writes \/ writes' = writes + 1,
         e.id <= writes', e.kind = "task_created" => e.task <= writes'
  PROVE  TablesFit' /\ \A x \in Ledgers : Ids(rows[x]) \subseteq Ids(rows'[x])
  <1>1. writes \in Nat /\ writes' \in Nat
    BY DEF TablesFit
  <1>2. /\ log' \in [Ledgers -> SUBSET AnyEvent] /\ rows' \in [Ledgers -> SUBSET AnyRow]
        /\ profile' \in [Ledgers -> Nat]
        /\ log'[l] = log[l] \union {e}
        /\ \A x \in Ledgers \ {l} : log'[x] = log[x] /\ rows'[x] = rows[x]
        /\ Ids(rows'[l]) = IF e.kind = "task_created" THEN Ids(rows[l]) \union {e.task}
                                                      ELSE Ids(rows[l])
    BY ApplyFits
  <1>3. ASSUME NEW x \in Ledgers
        PROVE  UpTo(log[x], writes') /\ UpTo(rows[x], writes')
    <2>1. UpTo(log[x], writes) /\ UpTo(rows[x], writes)
          /\ \A r \in log[x] \union rows[x] : r.id \in Nat
      BY DEF TablesFit, AnyEvent, AnyRow
    <2>2. QED
      BY <1>1, <2>1, UpToGrows
  <1>4. UpTo(log'[l], writes')
    BY <1>2, <1>3 DEF UpTo
  <1>5. UpTo(rows'[l], writes')
    <2>1. e.task \in Nat
      BY DEF AnyEvent
    <2>2. Ids(rows'[l]) \subseteq Ids(rows[l]) \union 0..writes'
      BY <1>1, <1>2, <2>1
    <2>3. QED
      BY <1>1, <1>3, <2>2, RowIdsBounded
  <1>6. \A x \in Ledgers : UpTo(log'[x], writes') /\ UpTo(rows'[x], writes')
    BY <1>2, <1>3, <1>4, <1>5
  <1>7. QED
    BY <1>1, <1>2, <1>6 DEF TablesFit

LEMMA WriteFits ==
  ASSUME Fits, NEW l \in Ledgers, NEW e \in AnyEvent, Write(l, e), NextIds(l, e)
  PROVE  Fits'
  <1>1. writes \in Nat /\ writes' = writes + 1 /\ UNCHANGED <<runVars, late>>
    BY DEF Fits, TablesFit, Write
  <1>2. e.id \in Nat /\ e.id <= writes' /\ (e.kind = "task_created" => e.task <= writes')
    BY <1>1 DEF NextIds
  <1>3. \A f \in open : f.id \in Nat /\ f.task \in Nat
    BY DEF Fits, OpenFits, AnyEvent
  <1>4. CASE l = "sqlite" /\ Apply(l, e) /\ UNCHANGED <<open, nextEvent, nextTask>>
    <2>1. TablesFit' /\ Ids(rows["sqlite"]) \subseteq Ids(rows'["sqlite"])
      BY <1>1, <1>2, <1>4, ApplyBounded DEF Fits, Ledgers
    <2>2. OpenFits'
      BY <1>1, <1>3, <1>4 DEF Fits, OpenFits, UpTo
    <2>3. QED
      BY <1>1, <2>1, <2>2, RunStays DEF Fits, runVars
  <1>5. CASE /\ l = "supabase"
             /\ open' = open \union {e}
             /\ nextEvent' = nextEvent + 1
             /\ nextTask' = IF e.kind = "task_created" THEN nextTask + 1 ELSE nextTask
             /\ UNCHANGED tables
    <2>1. TablesFit'
      <3>1. ASSUME NEW x \in Ledgers
            PROVE  UpTo(log[x], writes') /\ UpTo(rows[x], writes')
        <4>1. UpTo(log[x], writes) /\ UpTo(rows[x], writes)
              /\ \A r \in log[x] \union rows[x] : r.id \in Nat
          BY DEF Fits, TablesFit, AnyEvent, AnyRow
        <4>2. QED
          BY <1>1, <4>1, UpToGrows
      <3>2. QED
        BY <1>1, <1>5, <3>1 DEF Fits, TablesFit, tables
    <2>2. OpenFits'
      <3>1. open' \in SUBSET AnyEvent
        BY <1>5 DEF Fits, OpenFits
      <3>2. UpTo(open', writes') /\ \A f \in open' : f.kind = "task_created" => f.task <= writes'
        BY <1>1, <1>2, <1>3, <1>5 DEF Fits, OpenFits, UpTo
      <3>3. /\ nextEvent' \in Nat \ {0} /\ nextEvent' <= writes' + 1
            /\ nextTask' \in Nat \ {0} /\ nextTask' <= writes' + 1
        BY <1>1, <1>5 DEF Fits, OpenFits
      <3>4. QED
        BY <3>1, <3>2, <3>3 DEF OpenFits
    <2>3. QED
      BY <1>1, <1>5, <2>1, <2>2, RunStays DEF Fits, runVars, tables
  <1>6. QED
    BY <1>4, <1>5 DEF Write

LEMMA CommitFits ==
  ASSUME Fits, NEW e \in open, Commit(e) \/ RollBack(e)
  PROVE  Fits'
  <1>1. open' = open \ {e} /\ UNCHANGED <<nextEvent, nextTask, writes, runVars, late>>
    BY DEF Commit, RollBack
  <1>2. OpenFits'
    BY <1>1 DEF Fits, OpenFits, UpTo
  <1>3. CASE Apply("supabase", e)
    <2>1. /\ e \in AnyEvent /\ e.id <= writes /\ (e.kind = "task_created" => e.task <= writes)
          /\ "supabase" \in Ledgers /\ "sqlite" \in Ledgers
      BY DEF Fits, OpenFits, UpTo, Ledgers
    <2>2. TablesFit' /\ Ids(rows["sqlite"]) \subseteq Ids(rows'["sqlite"])
      BY <1>1, <1>3, <2>1, ApplyBounded DEF Fits
    <2>3. QED
      BY <1>1, <1>2, <2>2, RunStays DEF Fits, runVars
  <1>4. CASE UNCHANGED tables
    <2>1. TablesFit'
      BY <1>1, <1>4 DEF Fits, TablesFit, tables
    <2>2. QED
      BY <1>1, <1>2, <1>4, <2>1, RunStays DEF Fits, runVars, tables
  <1>5. QED
    BY <1>3, <1>4 DEF Commit, RollBack

----------------------------------------------------------------------------
(* The imports *)

LEMMA EventsCounterAhead ==
  ASSUME TablesFit, NEW events, EventsFit(events), EventsCounter(events)
  PROVE  /\ nextEvent' \in Nat \ {0} /\ nextEvent' <= writes + 1
         /\ \A e \in log["supabase"] \union events : e.id < nextEvent'
  <1> DEFINE T == log["supabase"] \union events
  <1>1. writes \in Nat /\ T \in SUBSET AnyEvent /\ UpTo(T, writes)
    BY DEF TablesFit, EventsFit, Ledgers, UpTo
  <1>2. nextEvent' = LastId(T) + 1
    BY DEF EventsCounter
  <1> HIDE DEF T
  <1>3. \A r \in T : r.id \in Nat
    BY <1>1 DEF AnyEvent
  <1>4. LastId(T) \in Nat /\ LastId(T) <= writes /\ \A r \in T : r.id <= LastId(T)
    BY <1>1, <1>3, LastIdBounds
  <1>5. \A r \in T : r.id < nextEvent'
    BY <1>2, <1>3, <1>4
  <1>6. nextEvent' \in Nat \ {0} /\ nextEvent' <= writes + 1
    BY <1>1, <1>2, <1>4
  <1>7. QED
    BY <1>5, <1>6 DEF T

LEMMA RowsWithFit ==
  ASSUME TablesFit, NEW s, StateFits(s)
  PROVE  /\ RowsWith(s) \in SUBSET AnyRow /\ UpTo(RowsWith(s), writes)
         /\ Ids(RowsWith(s)) = Ids(s.rows) \union Ids(rows["supabase"])
  <1>1. s.rows \in SUBSET AnyRow /\ UpTo(s.rows, writes)
    BY DEF StateFits, AnyState
  <1>2. rows["supabase"] \in SUBSET AnyRow /\ UpTo(rows["supabase"], writes)
    BY DEF TablesFit, Ledgers
  <1>3. RowsWith(s) \in SUBSET AnyRow /\ UpTo(RowsWith(s), writes)
    BY <1>1, <1>2 DEF RowsWith, UpTo
  <1>4. Ids(RowsWith(s)) = Ids(s.rows) \union Ids(rows["supabase"])
    BY DEF RowsWith, Ids
  <1>5. QED
    BY <1>3, <1>4

LEMMA TasksCounterAhead ==
  ASSUME TablesFit, NEW s, StateFits(s), TasksCounter(s)
  PROVE  /\ nextTask' \in Nat \ {0} /\ nextTask' <= writes + 1
         /\ \A r \in RowsWith(s) : r.id < nextTask'
         /\ \A r \in rows["supabase"] : r.id < nextTask'
  <1>1. writes \in Nat /\ RowsWith(s) \in SUBSET AnyRow /\ UpTo(RowsWith(s), writes)
    BY RowsWithFit DEF TablesFit
  <1>2. nextTask' = LastId(RowsWith(s)) + 1
    BY DEF TasksCounter
  <1>3. \A r \in RowsWith(s) : r.id \in Nat
    BY <1>1 DEF AnyRow
  <1>4. /\ LastId(RowsWith(s)) \in Nat /\ LastId(RowsWith(s)) <= writes
        /\ \A r \in RowsWith(s) : r.id <= LastId(RowsWith(s))
    BY <1>1, <1>3, LastIdBounds
  <1>5. \A r \in RowsWith(s) : r.id < nextTask'
    BY <1>2, <1>3, <1>4
  <1>6. \A r \in rows["supabase"] : \E q \in RowsWith(s) : q.id = r.id
    BY DEF RowsWith, Ids
  <1>7. QED
    BY <1>1, <1>2, <1>4, <1>5, <1>6

(* The events that are there stay, those of the copy are added. *)
LEMMA ImportEventsFits ==
  ASSUME TablesFit, OpenFits, NEW events, EventsFit(events), ImportEvents(events),
         UNCHANGED writes
  PROVE  /\ TablesFit' /\ OpenFits'
         /\ log'["supabase"] = log["supabase"] \union events /\ log'["sqlite"] = log["sqlite"]
         /\ \A e \in log'["supabase"] : e.id < nextEvent'
         /\ UNCHANGED <<rows, profile, open, nextTask>>
  <1>1. /\ log' = [log EXCEPT !["supabase"] = @ \union events] /\ EventsCounter(events)
        /\ UNCHANGED <<rows, profile, open, nextTask>>
    BY DEF ImportEvents
  <1>2. /\ nextEvent' \in Nat \ {0} /\ nextEvent' <= writes + 1
        /\ \A e \in log["supabase"] \union events : e.id < nextEvent'
    BY <1>1, EventsCounterAhead
  <1>3. "sqlite" \in Ledgers /\ "supabase" \in Ledgers /\ DOMAIN log = Ledgers
    BY DEF TablesFit, Ledgers
  <1>4. log'["supabase"] = log["supabase"] \union events
        /\ \A l \in Ledgers \ {"supabase"} : log'[l] = log[l]
    BY <1>1, <1>3
  <1>5. events \in SUBSET AnyEvent /\ UpTo(events, writes)
    BY DEF EventsFit
  <1>6. log["supabase"] \in SUBSET AnyEvent
    BY <1>3 DEF TablesFit
  <1>7. log' \in [Ledgers -> SUBSET AnyEvent]
    <2>1. log["supabase"] \union events \in SUBSET AnyEvent
      BY <1>5, <1>6
    <2>2. QED
      BY <1>1, <2>1 DEF TablesFit
  <1>8. \A l \in Ledgers : \A e \in log'[l] : e \in log[l] \union events
    BY <1>4
  <1>9. TablesFit'
    BY <1>1, <1>5, <1>7, <1>8 DEF TablesFit, UpTo
  <1>10. OpenFits'
    BY <1>1, <1>2 DEF OpenFits
  <1>11. QED
    BY <1>1, <1>2, <1>3, <1>4, <1>9, <1>10 DEF Ledgers

(* Tasks and profile are written over what is there. *)
LEMMA ImportStateFits ==
  ASSUME TablesFit, OpenFits, NEW s, StateFits(s), ImportState(s), UNCHANGED writes
  PROVE  /\ TablesFit' /\ OpenFits'
         /\ rows'["supabase"] = RowsWith(s) /\ rows'["sqlite"] = rows["sqlite"]
         /\ profile'["supabase"] = s.profile /\ profile'["sqlite"] = profile["sqlite"]
         /\ \A r \in rows'["supabase"] : r.id < nextTask'
         /\ UNCHANGED <<log, open, nextEvent>>
  <1>1. /\ rows' = [rows EXCEPT !["supabase"] = RowsWith(s)] /\ TasksCounter(s)
        /\ profile' = [profile EXCEPT !["supabase"] = s.profile]
        /\ UNCHANGED <<log, open, nextEvent>>
    BY DEF ImportState
  <1>2. /\ nextTask' \in Nat \ {0} /\ nextTask' <= writes + 1
        /\ \A r \in RowsWith(s) : r.id < nextTask'
    BY <1>1, TasksCounterAhead
  <1>3. RowsWith(s) \in SUBSET AnyRow /\ UpTo(RowsWith(s), writes) /\ s.profile \in Nat
    BY RowsWithFit DEF StateFits, AnyState
  <1>4. /\ "sqlite" \in Ledgers /\ "supabase" \in Ledgers
        /\ DOMAIN rows = Ledgers /\ DOMAIN profile = Ledgers
    BY DEF TablesFit, Ledgers
  <1>5. /\ rows'["supabase"] = RowsWith(s) /\ profile'["supabase"] = s.profile
        /\ \A l \in Ledgers \ {"supabase"} : rows'[l] = rows[l] /\ profile'[l] = profile[l]
    BY <1>1, <1>4
  <1>6. rows' \in [Ledgers -> SUBSET AnyRow] /\ profile' \in [Ledgers -> Nat]
    BY <1>1, <1>3 DEF TablesFit
  <1>7. TablesFit'
    <2>1. \A l \in Ledgers : UpTo(rows'[l], writes)
      BY <1>3, <1>5 DEF TablesFit
    <2>2. QED
      BY <1>1, <1>6, <2>1 DEF TablesFit
  <1>8. OpenFits'
    BY <1>1, <1>2 DEF OpenFits
  <1>9. QED
    BY <1>1, <1>2, <1>4, <1>5, <1>7, <1>8 DEF Ledgers

LEMMA ServeLateFits ==
  ASSUME Fits, NEW m \in late, ServeLate(m)
  PROVE  Fits'
  <1>1. late' = late \ {m} /\ UNCHANGED <<writes, runVars>>
    BY DEF ServeLate
  <1>2. (m.kind = "events" => EventsFit(m.what)) /\ (m.kind = "state" => StateFits(m.what))
    BY DEF Fits, RunFits, RequestFits
  <1>3. ASSUME TablesFit', OpenFits', Ids(rows["sqlite"]) \subseteq Ids(rows'["sqlite"])
        PROVE  Fits'
    BY <1>1, <1>3, RunStays DEF Fits, runVars
  <1>4. CASE m.kind = "events" /\ ImportEvents(m.what)
    BY <1>1, <1>2, <1>3, <1>4, ImportEventsFits DEF Fits
  <1>5. CASE m.kind = "state" /\ ImportState(m.what)
    BY <1>1, <1>2, <1>3, <1>5, ImportStateFits DEF Fits
  <1>6. CASE UNCHANGED ledgerVars
    <2>1. TablesFit' /\ OpenFits'
      BY <1>1, <1>6 DEF Fits, TablesFit, OpenFits, ledgerVars, tables
    <2>2. QED
      BY <1>3, <1>6, <2>1 DEF ledgerVars, tables
  <1>7. CASE m.kind = "events" /\ EventsCounter(m.what) /\ UNCHANGED <<tables, open, nextTask>>
    <2>1. nextEvent' \in Nat \ {0} /\ nextEvent' <= writes + 1
      BY <1>2, <1>7, EventsCounterAhead DEF Fits
    <2>2. TablesFit' /\ OpenFits'
      BY <1>1, <1>7, <2>1 DEF Fits, TablesFit, OpenFits, tables
    <2>3. QED
      BY <1>3, <1>7, <2>2 DEF tables
  <1>8. CASE m.kind = "state" /\ TasksCounter(m.what) /\ UNCHANGED <<tables, open, nextEvent>>
    <2>1. nextTask' \in Nat \ {0} /\ nextTask' <= writes + 1
      BY <1>2, <1>8, TasksCounterAhead DEF Fits
    <2>2. TablesFit' /\ OpenFits'
      BY <1>1, <1>8, <2>1 DEF Fits, TablesFit, OpenFits, tables
    <2>3. QED
      BY <1>3, <1>8, <2>2 DEF tables
  <1>9. QED
    BY <1>4, <1>5, <1>6, <1>7, <1>8 DEF ServeLate

----------------------------------------------------------------------------
(* The steps of a migration *)

LEMMA NothingFits ==
  ASSUME TablesFit
  PROVE  EventsFit({}) /\ StateFits(NoState)
  BY DEF EventsFit, StateFits, AnyState, NoState, UpTo, Ids

(* Copies and reads of the source fit. *)
LEMMA SourceFits ==
  ASSUME TablesFit
  PROVE  /\ EventsFit(log["sqlite"])
         /\ StateFits([profile |-> profile["sqlite"], rows |-> rows["sqlite"]])
  BY DEF TablesFit, EventsFit, StateFits, AnyState, Ledgers

(* The tables are fixed or fit, and every part of the run is what it was,  *)
(* nothing, or something that fits.                                        *)
LEMMA RunMoves ==
  ASSUME Fits, TablesFit', OpenFits', UNCHANGED writes, rows'["sqlite"] = rows["sqlite"],
         pc' \in {"idle", "rebuild", "events", "check", "derive", "read", "state"},
         EventsFit(copy'), StateFits(state'),
         \A m \in late' : m \in late \/ RequestFits(m)
  PROVE  Fits'
  <1>1. EventsFit(copy)' /\ StateFits(state)'
    BY DEF EventsFit, StateFits
  <1>2. ASSUME NEW m \in late'
        PROVE  RequestFits(m)'
    <2>1. RequestFits(m)
      BY DEF Fits, RunFits
    <2>2. QED
      BY <2>1 DEF RequestFits, EventsFit, StateFits
  <1>3. QED
    BY <1>1, <1>2 DEF Fits, RunFits, EventsFit, StateFits

LEMMA LoseRequestFits ==
  ASSUME Fits, LoseRequest, NEW m \in late'
  PROVE  m \in late \/ RequestFits(m)
  <1>1. CASE m \in late
    BY <1>1
  <1>2. CASE m \notin late
    <2>1. m = [kind |-> pc, what |-> IF pc = "events" THEN copy ELSE state]
      BY <1>2 DEF LoseRequest
    <2>2. m.kind = pc /\ m.what = (IF pc = "events" THEN copy ELSE state)
      BY <2>1
    <2>3. EventsFit(copy) /\ StateFits(state)
      BY DEF Fits, RunFits
    <2>4. CASE pc = "events"
      BY <2>2, <2>3, <2>4 DEF RequestFits
    <2>5. CASE pc = "state"
      BY <2>2, <2>3, <2>5 DEF RequestFits
    <2>6. QED
      BY <1>2, <2>4, <2>5 DEF LoseRequest, Requesting
  <1>3. QED
    BY <1>1, <1>2

LEMMA MigrateFits ==
  ASSUME Fits, Migrate
  PROVE  Fits'
  <1>1. EventsFit({}) /\ StateFits(NoState) /\ EventsFit(copy) /\ StateFits(state)
        /\ EventsFit(log["sqlite"])
        /\ StateFits([profile |-> profile["sqlite"], rows |-> rows["sqlite"]])
    BY NothingFits, SourceFits DEF Fits, RunFits
  <1>2. UNCHANGED writes
    BY DEF Migrate, Begin, DeriveSource, SendEvents, CheckTarget, CheckDerived, ReadState,
       SendState, Resend, Abort
  <1>3. ASSUME UNCHANGED ledgerVars
        PROVE  TablesFit' /\ OpenFits' /\ rows'["sqlite"] = rows["sqlite"]
    BY <1>2, <1>3 DEF Fits, TablesFit, OpenFits, ledgerVars, tables
  <1>4. TablesFit' /\ OpenFits' /\ rows'["sqlite"] = rows["sqlite"]
    <2>1. CASE pc = "events" /\ ImportEvents(copy)
      BY <1>1, <1>2, <2>1, ImportEventsFits DEF Fits
    <2>2. CASE ImportState(state)
      BY <1>1, <1>2, <2>2, ImportStateFits DEF Fits
    <2>3. CASE UNCHANGED ledgerVars
      BY <1>3, <2>3
    <2>4. QED
      BY <2>1, <2>2, <2>3 DEF Migrate, Begin, DeriveSource, SendEvents, CheckTarget,
         CheckDerived, ReadState, SendState, Resend, Abort
  <1>5. /\ pc' \in {"idle", "rebuild", "events", "check", "derive", "read", "state"}
        /\ EventsFit(copy') /\ StateFits(state')
    <2>1. CASE Ends("ok") \/ Ends("failed")
      BY <1>1, <2>1 DEF Ends, Goto
    <2>2. CASE Begin
      BY <1>1, <2>2 DEF Begin, Goto
    <2>3. CASE ReadState
      BY <1>1, <2>3 DEF ReadState, Goto
    <2>4. CASE /\ UNCHANGED <<copy, state>>
               /\ UNCHANGED pc \/ \E p \in {"events", "check", "derive", "read"} : Goto(p)
      BY <1>1, <2>4 DEF Goto, Fits, RunFits
    <2>5. QED
      BY <2>1, <2>2, <2>3, <2>4 DEF Migrate, DeriveSource, SendEvents, CheckTarget,
         CheckDerived, SendState, Resend, Abort
  <1>6. \A m \in late' : m \in late \/ RequestFits(m)
    <2>1. late' = late \/ LoseRequest
      BY DEF Migrate, Begin, DeriveSource, SendEvents, CheckTarget, CheckDerived, ReadState,
         SendState, Resend, Abort
    <2>2. QED
      BY <2>1, LoseRequestFits
  <1>7. QED
    BY <1>2, <1>4, <1>5, <1>6, RunMoves

LEMMA InitFits == Init => Fits
  <1> SUFFICES ASSUME Init PROVE Fits
    OBVIOUS
  <1>1. TablesFit /\ OpenFits
    BY DEF Init, TablesFit, OpenFits, UpTo, AnyRow, AnyEvent
  <1>2. RunFits
    BY <1>1, NothingFits DEF Init, RunFits
  <1>3. QED
    BY <1>1, <1>2 DEF Fits

LEMMA StutterFits == Fits /\ UNCHANGED vars => Fits'
  BY DEF Fits, TablesFit, OpenFits, RunFits, EventsFit, StateFits, RequestFits, vars, ledgerVars,
     tables, runVars

----------------------------------------------------------------------------
(* The invariant *)

(* The source knows the tasks its events have made. *)
SourceTasks ==
  \A e \in log["sqlite"] : e.kind = "task_created" => e.task \in Ids(rows["sqlite"])

(* Rows that a migration has brought are rows of the source; the others    *)
(* have an event in the target.                                            *)
TargetTasks ==
  \A r \in rows["supabase"] :
     \/ r.id \in Ids(rows["sqlite"])
     \/ \E e \in log["supabase"] : e.kind = "task_created" /\ e.task = r.id

(* What a migration knows of the two ledgers that nobody has written to    *)
(* since it began; it has no outcome while it runs.                        *)
Imported ==
  /\ copy \subseteq log["supabase"]
  /\ \A e \in copy, f \in log["supabase"] \ copy : e.id # f.id

CounterFollows == copy = {} \/ \A e \in log["supabase"] : e.id < nextEvent

Undisturbed ==
  /\ pc # "idle" => outcome # "ok"
  /\ ~touched =>
       /\ open = {}
       /\ pc # "idle" => copy = log["sqlite"]
       /\ pc = "check" => Imported
       /\ pc \in {"check", "derive", "read", "state"} => CounterFollows
       /\ pc \in {"derive", "read", "state"} => log["supabase"] = copy
       /\ pc = "state" => state = [profile |-> profile["sqlite"], rows |-> rows["sqlite"]]

IInv == Fits /\ SourceTasks /\ TargetTasks /\ Undisturbed /\ SuccessIsCopy /\ IdsFree

LEMMA ResetsOne ==
  ASSUME NEW kind, NEW others, Resets(kind, others)
  PROVE  /\ kind \notin raced' => open = {}
         /\ \A k : k # kind => (k \in raced' <=> k \in raced)
  BY DEF Resets

(* Writes set the flag that says so. *)
LEMMA TouchedKeeps ==
  ASSUME Undisturbed, UNCHANGED <<pc, outcome>>, touched' = TRUE
  PROVE  Undisturbed' /\ SuccessIsCopy'
  BY DEF Undisturbed, SuccessIsCopy

LEMMA WriteKeeps ==
  ASSUME IInv, NEW l \in Ledgers, NEW e \in AnyEvent, Write(l, e), NextIds(l, e)
  PROVE  IInv'
  <1>1. Fits'
    BY WriteFits DEF IInv
  <1>2. Undisturbed' /\ SuccessIsCopy'
    BY TouchedKeeps DEF IInv, Write, runVars
  <1>3. UNCHANGED raced /\ "sqlite" \in Ledgers /\ "supabase" \in Ledgers
    BY DEF Write, Ledgers
  <1>4. CASE l = "sqlite" /\ Apply(l, e) /\ UNCHANGED <<open, nextEvent, nextTask>>
    <2>1. /\ log'["sqlite"] = log["sqlite"] \union {e}
          /\ log'["supabase"] = log["supabase"] /\ rows'["supabase"] = rows["supabase"]
          /\ Ids(rows'["sqlite"]) = IF e.kind = "task_created"
                                    THEN Ids(rows["sqlite"]) \union {e.task}
                                    ELSE Ids(rows["sqlite"])
      BY <1>3, <1>4, ApplyFits DEF IInv, Fits
    <2>2. SourceTasks' /\ TargetTasks'
      BY <2>1 DEF IInv, SourceTasks, TargetTasks
    <2>3. IdsFree'
      BY <1>3, <1>4, <2>1 DEF IInv, IdsFree
    <2>4. QED
      BY <1>1, <1>2, <2>2, <2>3 DEF IInv
  <1>5. CASE /\ l = "supabase"
             /\ open' = open \union {e}
             /\ nextEvent' = nextEvent + 1
             /\ nextTask' = IF e.kind = "task_created" THEN nextTask + 1 ELSE nextTask
             /\ UNCHANGED tables
    <2>1. SourceTasks' /\ TargetTasks'
      BY <1>5 DEF IInv, SourceTasks, TargetTasks, tables
    <2>2. e.id = nextEvent /\ (e.kind = "task_created" => e.task = nextTask)
      BY <1>5 DEF NextIds, EventId, TaskId
    <2>3. /\ nextEvent \in Nat /\ nextTask \in Nat
          /\ \A f \in log["supabase"] \union open : f.id \in Nat /\ f.task \in Nat
          /\ \A r \in rows["supabase"] : r.id \in Nat
      BY <1>3 DEF IInv, Fits, TablesFit, OpenFits, AnyEvent, AnyRow
    <2>4. IdsFree'
      <3>1. "events" \notin raced => \A f \in log["supabase"] \union open' : f.id < nextEvent'
        BY <1>5, <2>2, <2>3 DEF IInv, IdsFree
      <3>2. "state" \notin raced => \A r \in rows["supabase"] : r.id < nextTask'
        BY <1>5, <2>2, <2>3 DEF IInv, IdsFree
      <3>3. "state" \notin raced =>
              \A f \in open' : f.kind = "task_created" => f.task < nextTask'
        BY <1>5, <2>2, <2>3 DEF IInv, IdsFree
      <3>4. QED
        BY <1>3, <1>5, <3>1, <3>2, <3>3 DEF IdsFree, tables
    <2>5. QED
      BY <1>1, <1>2, <2>1, <2>4 DEF IInv
  <1>6. QED
    BY <1>4, <1>5 DEF Write

LEMMA CommitKeeps ==
  ASSUME IInv, NEW e \in open, Commit(e) \/ RollBack(e)
  PROVE  IInv'
  <1>1. Fits'
    BY CommitFits DEF IInv
  <1>2. /\ open' = open \ {e}
        /\ UNCHANGED <<nextEvent, nextTask, runVars, outcome, touched, raced>>
    BY DEF Commit, RollBack, ghosts
  <1>4. Undisturbed' /\ SuccessIsCopy'
    <2>1. touched
      BY DEF IInv, Undisturbed
    <2>2. QED
      BY <1>2, <2>1 DEF IInv, Undisturbed, SuccessIsCopy, runVars
  <1>5. CASE Apply("supabase", e)
    <2>1. e \in AnyEvent /\ "supabase" \in Ledgers /\ "sqlite" \in Ledgers
      BY DEF IInv, Fits, OpenFits, Ledgers
    <2>2. /\ log'["supabase"] = log["supabase"] \union {e}
          /\ log'["sqlite"] = log["sqlite"] /\ rows'["sqlite"] = rows["sqlite"]
          /\ Ids(rows'["supabase"]) = IF e.kind = "task_created"
                                      THEN Ids(rows["supabase"]) \union {e.task}
                                      ELSE Ids(rows["supabase"])
      BY <1>5, <2>1, ApplyFits DEF IInv, Fits
    <2>3. SourceTasks'
      BY <2>2 DEF IInv, SourceTasks
    <2>4. ASSUME NEW r \in rows'["supabase"]
          PROVE  \/ \E q \in rows["supabase"] : q.id = r.id
                 \/ e.kind = "task_created" /\ e.task = r.id
      <3>1. r.id \in Ids(rows'["supabase"])
        BY DEF Ids
      <3>2. QED
        BY <2>2, <3>1 DEF Ids
    <2>5. TargetTasks'
      BY <2>2, <2>4 DEF IInv, TargetTasks
    <2>6. IdsFree'
      BY <1>2, <2>2, <2>4 DEF IInv, IdsFree
    <2>7. QED
      BY <1>1, <1>4, <2>3, <2>5, <2>6 DEF IInv
  <1>6. CASE UNCHANGED tables
    <2>1. SourceTasks' /\ TargetTasks' /\ IdsFree'
      BY <1>2, <1>6 DEF IInv, SourceTasks, TargetTasks, IdsFree, tables
    <2>2. QED
      BY <1>1, <1>4, <2>1 DEF IInv
  <1>7. QED
    BY <1>5, <1>6 DEF Commit, RollBack

(* The imports, of a migration or of a request it has given up on. *)
LEMMA EventsKeep ==
  ASSUME IInv, NEW events, NEW others, EventsFit(events), ImportEvents(events),
         Resets("events", others), UNCHANGED writes
  PROVE  SourceTasks' /\ TargetTasks' /\ IdsFree'
  <1>1. /\ log'["supabase"] = log["supabase"] \union events /\ log'["sqlite"] = log["sqlite"]
        /\ \A e \in log'["supabase"] : e.id < nextEvent'
        /\ UNCHANGED <<rows, profile, open, nextTask>>
    BY ImportEventsFits DEF IInv, Fits
  <1>2. /\ "events" \notin raced' => open' = {}
        /\ "state" \in raced' <=> "state" \in raced
    BY <1>1, ResetsOne
  <1>3. SourceTasks' /\ TargetTasks'
    BY <1>1 DEF IInv, SourceTasks, TargetTasks
  <1>4. IdsFree'
    BY <1>1, <1>2 DEF IInv, IdsFree
  <1>5. QED
    BY <1>3, <1>4

LEMMA StateKeeps ==
  ASSUME IInv, NEW s, NEW others, StateFits(s), ImportState(s), Resets("state", others),
         UNCHANGED writes
  PROVE  SourceTasks' /\ TargetTasks' /\ IdsFree'
  <1>1. /\ rows'["supabase"] = RowsWith(s) /\ rows'["sqlite"] = rows["sqlite"]
        /\ \A r \in rows'["supabase"] : r.id < nextTask'
        /\ UNCHANGED <<log, open, nextEvent>>
    BY ImportStateFits DEF IInv, Fits
  <1>2. /\ "state" \notin raced' => open' = {}
        /\ "events" \in raced' <=> "events" \in raced
    BY <1>1, ResetsOne
  <1>3. SourceTasks'
    BY <1>1 DEF IInv, SourceTasks
  <1>4. \A r \in RowsWith(s) : r.id \in Ids(rows["sqlite"]) \/ r \in rows["supabase"]
    BY DEF RowsWith, StateFits, Ids
  <1>5. TargetTasks'
    BY <1>1, <1>4 DEF IInv, TargetTasks
  <1>6. IdsFree'
    BY <1>1, <1>2 DEF IInv, IdsFree
  <1>7. QED
    BY <1>3, <1>5, <1>6

LEMMA ServeLateKeeps ==
  ASSUME IInv, NEW m \in late, ServeLate(m)
  PROVE  IInv'
  <1>1. Fits'
    BY ServeLateFits DEF IInv
  <1>2. Undisturbed' /\ SuccessIsCopy'
    BY TouchedKeeps DEF IInv, ServeLate, runVars
  <1>3. UNCHANGED writes /\ RequestFits(m) /\ TablesFit
    BY DEF ServeLate, IInv, Fits, RunFits
  <1>4. SUFFICES SourceTasks' /\ TargetTasks' /\ IdsFree'
    BY <1>1, <1>2 DEF IInv
  <1>5. CASE m.kind = "events" /\ ImportEvents(m.what) /\ Resets("events", late')
    BY <1>3, <1>5, EventsKeep DEF RequestFits
  <1>6. CASE m.kind = "state" /\ ImportState(m.what) /\ Resets("state", late')
    BY <1>3, <1>6, StateKeeps DEF RequestFits
  <1>7. CASE UNCHANGED <<ledgerVars, raced>>
    BY <1>7 DEF IInv, SourceTasks, TargetTasks, IdsFree, ledgerVars, tables
  <1>8. CASE /\ m.kind = "events" /\ EventsCounter(m.what) /\ Resets("events", late')
             /\ UNCHANGED <<tables, open, nextTask>>
    <2>1. \A e \in log["supabase"] : e.id < nextEvent'
      BY <1>3, <1>8, EventsCounterAhead DEF RequestFits
    <2>2. ("events" \notin raced' => open = {}) /\ ("state" \in raced' <=> "state" \in raced)
      BY <1>8, ResetsOne
    <2>3. IdsFree'
      BY <1>8, <2>1, <2>2 DEF IInv, IdsFree, tables
    <2>4. QED
      BY <1>8, <2>3 DEF IInv, SourceTasks, TargetTasks, tables
  <1>9. CASE /\ m.kind = "state" /\ TasksCounter(m.what) /\ Resets("state", late')
             /\ UNCHANGED <<tables, open, nextEvent>>
    <2>1. \A r \in rows["supabase"] : r.id < nextTask'
      BY <1>3, <1>9, TasksCounterAhead DEF RequestFits
    <2>2. ("state" \notin raced' => open = {}) /\ ("events" \in raced' <=> "events" \in raced)
      BY <1>9, ResetsOne
    <2>3. IdsFree'
      BY <1>9, <2>1, <2>2 DEF IInv, IdsFree, tables
    <2>4. QED
      BY <1>9, <2>3 DEF IInv, SourceTasks, TargetTasks, tables
  <1>10. QED
    BY <1>5, <1>6, <1>7, <1>8, <1>9 DEF ServeLate

LEMMA FailedKeeps ==
  ASSUME IInv, Ends("failed"), UNCHANGED <<open, touched>>
  PROVE  Undisturbed' /\ SuccessIsCopy'
  BY DEF IInv, Undisturbed, SuccessIsCopy, Ends, Goto

LEMMA TablesStay ==
  ASSUME IInv, UNCHANGED <<ledgerVars, raced>>
  PROVE  SourceTasks' /\ TargetTasks' /\ IdsFree'
  BY DEF IInv, SourceTasks, TargetTasks, IdsFree, ledgerVars, tables

LEMMA SendEventsKeeps ==
  ASSUME IInv, SendEvents, Fits'
  PROVE  IInv'
  <1>1. pc = "events" /\ EventsFit(copy) /\ UNCHANGED <<writes, touched>> /\ outcome # "ok"
    BY DEF SendEvents, IInv, Fits, RunFits, Undisturbed
  <1>2. CASE /\ copy # {} /\ ImportEvents(copy) /\ Resets("events", late)
             /\ Goto("check") /\ UNCHANGED <<copy, expected, state, outcome>>
    <2>1. SourceTasks' /\ TargetTasks' /\ IdsFree'
      BY <1>1, <1>2, EventsKeep
    <2>2. /\ log'["supabase"] = log["supabase"] \union copy /\ log'["sqlite"] = log["sqlite"]
          /\ \A e \in log'["supabase"] : e.id < nextEvent'
          /\ UNCHANGED <<rows, profile, open, nextTask>>
      BY <1>1, <1>2, ImportEventsFits DEF IInv, Fits
    <2>3. pc' = "check"
      BY <1>2 DEF Goto
    <2>4. Imported'
      <3>1. \A e \in copy, f \in log["supabase"] : e.id = f.id => e = f
        BY <1>2 DEF ImportEvents, Conflicts
      <3>2. QED
        BY <1>2, <2>2, <3>1 DEF Imported
    <2>5. CounterFollows'
      BY <2>2 DEF CounterFollows
    <2>6. Undisturbed'
      BY <1>1, <1>2, <2>2, <2>3, <2>4, <2>5 DEF IInv, Undisturbed
    <2>7. SuccessIsCopy'
      BY <1>1, <1>2 DEF SuccessIsCopy
    <2>8. QED
      BY <2>1, <2>6, <2>7 DEF IInv
  <1>3. CASE /\ copy = {} /\ Goto("check")
             /\ UNCHANGED <<copy, expected, state, outcome, ledgerVars, sound, raced>>
    <2>1. Undisturbed'
      BY <1>1, <1>3
      DEF IInv, Undisturbed, Imported, CounterFollows, Goto, ledgerVars, tables
    <2>2. SuccessIsCopy'
      BY <1>1, <1>3 DEF SuccessIsCopy
    <2>3. QED
      BY <1>3, <2>1, <2>2, TablesStay DEF IInv
  <1>4. CASE Ends("failed") /\ UNCHANGED <<ledgerVars, sound, raced>>
    BY <1>1, <1>4, FailedKeeps, TablesStay DEF IInv, ledgerVars
  <1>5. QED
    BY <1>2, <1>3, <1>4 DEF SendEvents

(* What the target gives, cut to the second, is the copy: then every event *)
(* of it is one of the copy, since no other has an id of one.              *)
LEMMA CheckedIsCopy ==
  ASSUME Fits, Imported, Loaded(log["supabase"]) = copy
  PROVE  log["supabase"] = copy
  <1>1. ASSUME NEW f \in log["supabase"]
        PROVE  f \in copy
    <2>1. f \in AnyEvent
      BY DEF Fits, TablesFit, Ledgers
    <2>2. [f EXCEPT !.fine = FALSE] \in copy
      BY DEF Loaded
    <2>3. [f EXCEPT !.fine = FALSE].id = f.id
      BY <2>1 DEF AnyEvent
    <2>4. QED
      BY <2>2, <2>3 DEF Imported
  <1>2. QED
    BY <1>1 DEF Imported

LEMMA ChecksKeep ==
  ASSUME IInv, Fits', CheckTarget \/ CheckDerived \/ ReadState
  PROVE  IInv'
  <1>1. UNCHANGED <<ledgerVars, touched, raced>>
    BY DEF CheckTarget, CheckDerived, ReadState, ghosts
  <1>2. SUFFICES Undisturbed' /\ SuccessIsCopy'
    BY <1>1, TablesStay DEF IInv
  <1>3. CASE Ends("failed")
    BY <1>1, <1>3, FailedKeeps DEF ledgerVars
  <1>4. CASE /\ pc = "check" /\ Loaded(log["supabase"]) = copy
             /\ Goto("derive") /\ UNCHANGED <<copy, expected, state, outcome>>
    <2>1. ~touched => log["supabase"] = copy
      BY <1>4, CheckedIsCopy DEF IInv, Undisturbed
    <2>2. QED
      BY <1>1, <1>4, <2>1
      DEF IInv, Undisturbed, CounterFollows, SuccessIsCopy, Goto, ledgerVars, tables
  <1>5. CASE pc = "derive" /\ Goto("read") /\ UNCHANGED <<copy, expected, state, outcome>>
    BY <1>1, <1>5 DEF IInv, Undisturbed, CounterFollows, SuccessIsCopy, Goto, ledgerVars, tables
  <1>6. CASE ReadState
    BY <1>1, <1>6
    DEF IInv, Undisturbed, CounterFollows, SuccessIsCopy, ReadState, Goto, ledgerVars, tables
  <1>7. QED
    BY <1>3, <1>4, <1>5, <1>6 DEF CheckTarget, CheckDerived

(* The last request of a migration that nothing has disturbed. *)
LEMMA SendStateKeeps ==
  ASSUME IInv, Fits', SendState
  PROVE  IInv'
  <1>1. /\ pc = "state" /\ StateFits(state) /\ UNCHANGED <<writes, touched>>
        /\ ImportState(state) /\ Resets("state", late)
    BY DEF SendState, IInv, Fits, RunFits
  <1>2. SourceTasks' /\ TargetTasks' /\ IdsFree'
    BY <1>1, StateKeeps
  <1>3. /\ rows'["supabase"] = RowsWith(state) /\ rows'["sqlite"] = rows["sqlite"]
        /\ profile'["supabase"] = state.profile /\ profile'["sqlite"] = profile["sqlite"]
        /\ UNCHANGED <<log, open, nextEvent>>
    BY <1>1, ImportStateFits DEF IInv, Fits
  <1>4. pc' = "idle" /\ outcome' = "ok"
    BY DEF SendState, Ends, Goto
  <1>5. Undisturbed'
    BY <1>1, <1>3, <1>4 DEF IInv, Undisturbed
  <1>6. SuccessIsCopy'
    <2>1. SUFFICES ASSUME ~touched
                   PROVE  /\ log["supabase"] = log["sqlite"]
                          /\ rows'["supabase"] = rows["sqlite"]
                          /\ profile'["supabase"] = profile["sqlite"]
      BY <1>1, <1>3 DEF SuccessIsCopy
    <2>2. /\ log["supabase"] = log["sqlite"]
          /\ state = [profile |-> profile["sqlite"], rows |-> rows["sqlite"]]
      BY <1>1, <2>1 DEF IInv, Undisturbed
    <2>3. state.rows = rows["sqlite"] /\ state.profile = profile["sqlite"]
      BY <2>2
    <2>4. \A r \in rows["supabase"] : r.id \in Ids(rows["sqlite"])
      BY <2>2 DEF IInv, TargetTasks, SourceTasks
    <2>5. RowsWith(state) = rows["sqlite"]
      BY <2>3, <2>4 DEF RowsWith
    <2>6. QED
      BY <1>3, <2>2, <2>3, <2>5
  <1>7. QED
    BY <1>2, <1>5, <1>6 DEF IInv

LEMMA MigrateKeeps ==
  ASSUME IInv, Migrate
  PROVE  IInv'
  <1>1. Fits'
    BY MigrateFits DEF IInv
  <1>2. CASE SendEvents
    BY <1>1, <1>2, SendEventsKeeps
  <1>3. CASE CheckTarget \/ CheckDerived \/ ReadState
    BY <1>1, <1>3, ChecksKeep
  <1>4. CASE SendState
    BY <1>1, <1>4, SendStateKeeps
  <1>5. CASE Begin
    <2>1. SourceTasks' /\ TargetTasks' /\ IdsFree'
      BY <1>5, TablesStay DEF Begin
    <2>2. Undisturbed' /\ SuccessIsCopy'
      BY <1>5 DEF Begin, Undisturbed, SuccessIsCopy, Goto, ledgerVars, tables
    <2>3. QED
      BY <1>1, <2>1, <2>2 DEF IInv
  <1>6. CASE DeriveSource \/ Resend
    <2>1. UNCHANGED <<ledgerVars, ghosts, copy, state, outcome>> /\ pc # "idle"
          /\ pc' \in {pc, "events"} /\ (pc' = "events" \/ pc' = pc)
      BY <1>6 DEF DeriveSource, Resend, Requesting, Goto
    <2>2. SourceTasks' /\ TargetTasks' /\ IdsFree'
      BY <2>1, TablesStay DEF ghosts
    <2>3. Undisturbed' /\ SuccessIsCopy'
      BY <2>1 DEF IInv, Undisturbed, Imported, CounterFollows, SuccessIsCopy, ledgerVars, tables,
         ghosts
    <2>4. QED
      BY <1>1, <2>2, <2>3 DEF IInv
  <1>7. CASE Abort
    <2>1. UNCHANGED <<ledgerVars, ghosts>> /\ Ends("failed")
      BY <1>7 DEF Abort
    <2>2. QED
      BY <1>1, <2>1, FailedKeeps, TablesStay DEF IInv, ledgerVars, ghosts
  <1>8. QED
    BY <1>2, <1>3, <1>4, <1>5, <1>6, <1>7 DEF Migrate

LEMMA InitHolds == Init => IInv
  <1> SUFFICES ASSUME Init PROVE IInv
    OBVIOUS
  <1>1. Fits
    BY InitFits
  <1>2. SourceTasks /\ TargetTasks /\ Undisturbed /\ SuccessIsCopy /\ IdsFree
    BY DEF Init, SourceTasks, TargetTasks, Undisturbed, SuccessIsCopy, IdsFree, Ledgers
  <1>3. QED
    BY <1>1, <1>2 DEF IInv

LEMMA Inductive == IInv /\ [Next]_vars => IInv'
  <1> SUFFICES ASSUME IInv, [Next]_vars PROVE IInv'
    OBVIOUS
  <1>1. ASSUME NEW l \in Ledgers, Call(l) PROVE IInv'
    <2>1. PICK e \in AnyEvent : Write(l, e) /\ NextIds(l, e)
      BY <1>1, CallIsWrite DEF IInv, Fits
    <2>2. QED
      BY <2>1, WriteKeeps
  <1>2. CASE UNCHANGED vars
    <2>1. Fits'
      BY <1>2, StutterFits DEF IInv
    <2>2. SourceTasks' /\ TargetTasks' /\ IdsFree'
      BY <1>2, TablesStay DEF vars, ghosts
    <2>3. Undisturbed' /\ SuccessIsCopy'
      BY <1>2 DEF IInv, Undisturbed, Imported, CounterFollows, SuccessIsCopy, vars, ledgerVars,
         tables, runVars, ghosts
    <2>4. QED
      BY <2>1, <2>2, <2>3 DEF IInv
  <1>3. QED
    BY <1>1, <1>2, CommitKeeps, MigrateKeeps, ServeLateKeeps DEF Next

LEMMA IInvAlways == Spec => []IInv
  <1>1. QED
    BY InitHolds, Inductive, PTL DEF Spec

----------------------------------------------------------------------------

(* A migration that reports success has made an exact copy, if nobody has  *)
(* written since it began and no write was in flight then; whatever it     *)
(* found in the target.                                                    *)
THEOREM SuccessIsAlwaysCopy == Spec => []SuccessIsCopy
  <1>1. IInv => SuccessIsCopy
    BY DEF IInv
  <1>2. QED
    BY <1>1, IInvAlways, PTL

(* The counters are past every id in use or in flight, for any number of   *)
(* writes and imports, unless the last import had one of them beside it.   *)
THEOREM IdsAlwaysFree == Spec => []IdsFree
  <1>1. IInv => IdsFree
    BY DEF IInv
  <1>2. QED
    BY <1>1, IInvAlways, PTL

----------------------------------------------------------------------------
(* Agreement of rows and events *)

(* What a row says of its task's events. *)
RowAgrees(l, r) ==
  /\ \E e \in log[l] : EventsOf(l, "task_created", r.id) = {e} /\ e.by = r.by
  /\ r.done <=> EventsOf(l, "task_done", r.id) # {}

LEMMA AgreesIsRows ==
  ASSUME NEW l
  PROVE  Agrees(l) <=> /\ \A r \in rows[l] : RowAgrees(l, r)
                       /\ \A e \in log[l] : e.task \in {0} \union Ids(rows[l])
                       /\ ProfileFrom(log[l], profile[l])
  BY DEF Agrees, RowAgrees

LEMMA AgreesUntouched ==
  ASSUME NEW l, log'[l] = log[l], rows'[l] = rows[l], profile'[l] = profile[l], Agrees(l)
  PROVE  Agrees(l)'
  BY DEF Agrees, EventsOf

(* The events of a task, after one more event. *)
LEMMA EventsOfGrows ==
  ASSUME NEW l, NEW e, log'[l] = log[l] \union {e}, NEW kind, NEW t
  PROVE  /\ ~(e.kind = kind /\ e.task = t) => EventsOf(l, kind, t)' = EventsOf(l, kind, t)
         /\ (e.kind = kind /\ e.task = t) =>
              EventsOf(l, kind, t)' = EventsOf(l, kind, t) \union {e}
  BY DEF EventsOf

LEMMA ApplyAgrees ==
  ASSUME TablesFit, NEW l \in Ledgers, NEW e \in AnyEvent, Apply(l, e), Agrees(l),
         e.kind = "interview" =>
            e.task = 0 /\ \A f \in InterviewsOf(log[l]) : f.id <= e.id,
         e.kind = "task_created" => e.task # 0 /\ e.task \notin Ids(rows[l]),
         e.kind = "task_done" => e.task \in Ids(rows[l])
  PROVE  Agrees(l)'
  <1>1. /\ log'[l] = log[l] \union {e} /\ rows'[l] = RowsAfter(rows[l], e)
        /\ profile'[l] = IF e.kind = "interview" THEN e.by ELSE profile[l]
        /\ Ids(rows'[l]) = IF e.kind = "task_created" THEN Ids(rows[l]) \union {e.task}
                                                      ELSE Ids(rows[l])
    BY ApplyFits
  <1>2. /\ e.kind \in Kinds /\ e.id \in Nat
        /\ rows[l] \in SUBSET AnyRow /\ log[l] \in SUBSET AnyEvent
    BY DEF AnyEvent, TablesFit
  <1>3. /\ \A r \in rows[l] : RowAgrees(l, r)
        /\ \A f \in log[l] : f.task \in {0} \union Ids(rows[l])
        /\ ProfileFrom(log[l], profile[l])
    BY AgreesIsRows
  <1>4. ASSUME NEW r \in rows[l],
               ~(e.kind = "task_created" /\ e.task = r.id),
               ~(e.kind = "task_done" /\ e.task = r.id)
        PROVE  RowAgrees(l, r)'
    <2>1. /\ EventsOf(l, "task_created", r.id)' = EventsOf(l, "task_created", r.id)
          /\ EventsOf(l, "task_done", r.id)' = EventsOf(l, "task_done", r.id)
      BY <1>1, <1>4, EventsOfGrows
    <2>2. RowAgrees(l, r)
      BY <1>3
    <2>3. QED
      BY <1>1, <2>1, <2>2 DEF RowAgrees
  <1>5. \A r \in rows'[l] : RowAgrees(l, r)'
    <2>1. CASE e.kind = "interview"
      <3>1. rows'[l] = rows[l]
        BY <1>1, <1>2, <2>1, RowsAfterFit
      <3>2. QED
        BY <1>4, <2>1, <3>1
    <2>2. CASE e.kind = "task_created"
      <3>1. PICK new : new = [id |-> e.task, by |-> e.by, done |-> FALSE]
        OBVIOUS
      <3>2. new.id = e.task /\ new.by = e.by /\ new.done = FALSE
        BY <3>1
      <3>3. rows'[l] = rows[l] \union {new}
        BY <1>1, <1>2, <2>2, <3>1, RowsAfterFit
      <3>4. \A r \in rows[l] : RowAgrees(l, r)'
        BY <1>4, <2>2 DEF Ids
      <3>5. \A f \in log[l] : f.task # e.task
        BY <1>3, <2>2
      <3>6. EventsOf(l, "task_created", e.task) = {} /\ EventsOf(l, "task_done", e.task) = {}
        BY <3>5 DEF EventsOf
      <3>7. EventsOf(l, "task_created", e.task)' = {e}
        BY <1>1, <2>2, <3>5 DEF EventsOf
      <3>8. EventsOf(l, "task_done", e.task)' = {}
        BY <1>1, <2>2, <3>5 DEF EventsOf
      <3>9. RowAgrees(l, new)'
        BY <1>1, <3>2, <3>7, <3>8 DEF RowAgrees
      <3>10. QED
        BY <3>3, <3>4, <3>9
    <2>3. CASE e.kind = "task_done"
      <3>1. ASSUME NEW q \in rows'[l]
            PROVE  RowAgrees(l, q)'
        <4>1. PICK r \in rows[l] : q = IF r.id = e.task THEN [r EXCEPT !.done = TRUE] ELSE r
          BY <1>1, <1>2, <2>3, RowsAfterFit
        <4>2. CASE r.id # e.task
          BY <1>4, <2>3, <4>1, <4>2
        <4>3. CASE r.id = e.task
          <5>1. q.id = r.id /\ q.by = r.by /\ q.done = TRUE
            BY <1>2, <4>1, <4>3 DEF AnyRow
          <5>2. RowAgrees(l, r)
            BY <1>3
          <5>3. EventsOf(l, "task_created", r.id)' = EventsOf(l, "task_created", r.id)
            BY <1>1, <2>3 DEF EventsOf
          <5>4. e \in EventsOf(l, "task_done", r.id)'
            BY <1>1, <2>3, <4>3 DEF EventsOf
          <5>5. QED
            BY <1>1, <5>1, <5>2, <5>3, <5>4 DEF RowAgrees
        <4>4. QED
          BY <4>2, <4>3
      <3>2. QED
        BY <3>1
    <2>4. QED
      BY <1>2, <2>1, <2>2, <2>3 DEF Kinds
  <1>6. \A f \in log'[l] : f.task \in {0} \union Ids(rows'[l])
    BY <1>1, <1>2, <1>3 DEF Kinds
  <1>7. ProfileFrom(log'[l], profile'[l])
    <2>1. CASE e.kind = "interview"
      <3>1. InterviewsOf(log'[l]) = InterviewsOf(log[l]) \union {e}
        BY <1>1, <2>1 DEF InterviewsOf
      <3>2. \A f \in InterviewsOf(log'[l]) : f.id <= e.id
        BY <1>2, <2>1, <3>1
      <3>3. QED
        BY <1>1, <2>1, <3>1, <3>2 DEF ProfileFrom
    <2>2. CASE e.kind # "interview"
      <3>1. InterviewsOf(log'[l]) = InterviewsOf(log[l])
        BY <1>1, <2>2 DEF InterviewsOf
      <3>2. QED
        BY <1>1, <1>3, <2>2, <3>1 DEF ProfileFrom
    <2>3. QED
      BY <2>1, <2>2
  <1>8. QED
    <2>1. /\ (\A r \in rows[l] : RowAgrees(l, r))'
          /\ (\A f \in log[l] : f.task \in {0} \union Ids(rows[l]))'
          /\ ProfileFrom(log[l], profile[l])'
      BY <1>5, <1>6, <1>7 DEF ProfileFrom
    <2>2. QED
      BY <2>1 DEF Agrees, RowAgrees


(* What is known of the writes in flight, and of the target while nothing  *)
(* has spoilt it: then the next ids are free, and the write of a profile   *)
(* that is in flight is the newest.                                        *)
OpenTasks ==
  /\ \A e \in open :
       /\ e.kind = "interview" => e.task = 0
       /\ e.kind = "task_created" => e.task # 0
       /\ e.kind = "task_done" => e.task \in Ids(rows["supabase"])
  /\ \A e, f \in open : e.kind = "interview" /\ f.kind = "interview" => e = f

SoundFits ==
  sound =>
    /\ pc # "idle" => ~touched
    /\ \A e \in log["supabase"] \union open : e.id < nextEvent
    /\ \A e \in open, f \in InterviewsOf(log["supabase"]) : e.kind = "interview" => f.id <= e.id

AInv == IInv /\ RerunKeepsAgreement /\ OpenTasks /\ SoundFits

(* A write to the SQLite file has ids that no event and no row has. *)
LEMMA SqliteIdsFresh ==
  ASSUME TablesFit, NEW e \in AnyEvent, NextIds("sqlite", e)
  PROVE  /\ \A f \in log["sqlite"] : f.id <= e.id
         /\ e.kind = "task_created" => e.task # 0 /\ e.task \notin Ids(rows["sqlite"])
  <1>1. /\ writes \in Nat /\ log["sqlite"] \in SUBSET AnyEvent /\ rows["sqlite"] \in SUBSET AnyRow
        /\ UpTo(log["sqlite"], writes) /\ UpTo(rows["sqlite"], writes)
    BY DEF TablesFit, Ledgers
  <1>2. /\ \A r \in log["sqlite"] : r.id \in Nat
        /\ \A r \in rows["sqlite"] : r.id \in Nat
    BY <1>1 DEF AnyEvent, AnyRow
  <1>3. /\ LastId(log["sqlite"]) \in Nat
        /\ \A f \in log["sqlite"] : f.id <= LastId(log["sqlite"])
    BY <1>1, <1>2, LastIdBounds
  <1>4. /\ LastId(rows["sqlite"]) \in Nat
        /\ \A r \in rows["sqlite"] : r.id <= LastId(rows["sqlite"])
    BY <1>1, <1>2, LastIdBounds
  <1>5. e.id = LastId(log["sqlite"]) + 1
    BY DEF NextIds, EventId
  <1>6. \A f \in log["sqlite"] : f.id <= e.id
    BY <1>2, <1>3, <1>5
  <1>7. e.kind = "task_created" => e.task # 0 /\ e.task = LastId(rows["sqlite"]) + 1
    BY DEF NextIds, TaskId
  <1>8. e.kind = "task_created" => e.task \notin Ids(rows["sqlite"])
    BY <1>2, <1>4, <1>7 DEF Ids
  <1>9. QED
    BY <1>6, <1>7, <1>8

LEMMA WriteAgrees ==
  ASSUME AInv, NEW l \in Ledgers, NEW e \in AnyEvent, Write(l, e), NextIds(l, e)
  PROVE  AInv'
  <1>1. IInv'
    BY WriteKeeps DEF AInv
  <1>2. /\ pc' = pc /\ (sound' => sound /\ pc = "idle")
        /\ "sqlite" \in Ledgers /\ "supabase" \in Ledgers
    BY DEF Write, runVars, Ledgers
  <1>3. CASE l = "sqlite" /\ Apply(l, e) /\ UNCHANGED <<open, nextEvent, nextTask>>
    <2>1. /\ log'["supabase"] = log["supabase"] /\ rows'["supabase"] = rows["supabase"]
          /\ profile'["supabase"] = profile["supabase"]
      BY <1>2, <1>3, ApplyFits DEF AInv, IInv, Fits
    <2>2. /\ \A f \in log[l] : f.id <= e.id
          /\ e.kind = "task_created" => e.task # 0 /\ e.task \notin Ids(rows[l])
          /\ e.kind = "interview" => e.task = 0
          /\ e.kind = "task_done" => e.task \in Ids(rows[l])
      BY <1>3, SqliteIdsFresh DEF NextIds, AInv, IInv, Fits
    <2>3. Agrees(l)'
      BY <1>3, <2>2, ApplyAgrees DEF AInv, IInv, Fits, RerunKeepsAgreement, InterviewsOf
    <2>4. Agrees("supabase") => Agrees("supabase")'
      BY <2>1, AgreesUntouched
    <2>5. RerunKeepsAgreement'
      BY <1>2, <1>3, <2>3, <2>4 DEF AInv, RerunKeepsAgreement
    <2>6. OpenTasks' /\ SoundFits'
      BY <1>2, <1>3, <2>1 DEF AInv, OpenTasks, SoundFits
    <2>7. QED
      BY <1>1, <2>5, <2>6 DEF AInv
  <1>4. CASE /\ l = "supabase"
             /\ open' = open \union {e}
             /\ nextEvent' = nextEvent + 1
             /\ UNCHANGED tables
    <2>1. RerunKeepsAgreement'
      BY <1>2, <1>4 DEF AInv, RerunKeepsAgreement, Agrees, EventsOf, tables
    <2>2. OpenTasks'
      <3>1. /\ e.kind = "interview" => e.task = 0
            /\ e.kind = "interview" => \A f \in open : f.kind # "interview"
            /\ e.kind = "task_created" => e.task # 0
            /\ e.kind = "task_done" => e.task \in Ids(rows["supabase"])
        BY <1>4 DEF NextIds
      <3>2. \A f \in open' : /\ f.kind = "interview" => f.task = 0
                             /\ f.kind = "task_created" => f.task # 0
                             /\ f.kind = "task_done" => f.task \in Ids(rows["supabase"])
        BY <1>4, <3>1 DEF AInv, OpenTasks
      <3>3. \A f, g \in open' : f.kind = "interview" /\ g.kind = "interview" => f = g
        BY <1>4, <3>1 DEF AInv, OpenTasks
      <3>4. QED
        BY <1>4, <3>2, <3>3 DEF OpenTasks, tables
    <2>3. SoundFits'
      <3>1. e.id = nextEvent /\ nextEvent \in Nat
        BY <1>4 DEF NextIds, EventId, AInv, IInv, Fits, OpenFits
      <3>2. \A f \in log["supabase"] \union open : f.id \in Nat
        BY <1>2 DEF AInv, IInv, Fits, TablesFit, OpenFits, AnyEvent
      <3>3. SUFFICES ASSUME sound'
                     PROVE  /\ \A f \in log["supabase"] \union open' : f.id < nextEvent'
                            /\ \A f \in open', g \in InterviewsOf(log["supabase"]) :
                                 f.kind = "interview" => g.id <= f.id
        BY <1>2, <1>4 DEF SoundFits, tables
      <3>4. \A f \in log["supabase"] \union open : f.id < nextEvent
        BY <1>2, <3>3 DEF AInv, SoundFits
      <3>5. \A f \in log["supabase"] \union open' : f.id < nextEvent'
        BY <1>4, <3>1, <3>2, <3>4
      <3>6. \A g \in InterviewsOf(log["supabase"]) : g.id <= e.id
        BY <3>1, <3>2, <3>4 DEF InterviewsOf
      <3>7. QED
        BY <1>2, <1>4, <3>3, <3>5, <3>6 DEF AInv, SoundFits
    <2>4. QED
      BY <1>1, <2>1, <2>2, <2>3 DEF AInv
  <1>5. QED
    BY <1>3, <1>4 DEF Write

LEMMA CommitAgrees ==
  ASSUME AInv, NEW e \in open, Commit(e) \/ RollBack(e)
  PROVE  AInv'
  <1>1. IInv'
    BY CommitKeeps DEF AInv
  <1>2. open' = open \ {e} /\ UNCHANGED <<nextEvent, nextTask, pc, touched, sound>>
    BY DEF Commit, RollBack, runVars, ghosts
  <1>3. CASE Commit(e)
    <2>1. Apply("supabase", e) /\ e \in AnyEvent /\ "supabase" \in Ledgers /\ "sqlite" \in Ledgers
      BY <1>3 DEF Commit, AInv, IInv, Fits, OpenFits, Ledgers
    <2>2. /\ log'["supabase"] = log["supabase"] \union {e}
          /\ log'["sqlite"] = log["sqlite"] /\ rows'["sqlite"] = rows["sqlite"]
          /\ profile'["sqlite"] = profile["sqlite"]
          /\ Ids(rows["supabase"]) \subseteq Ids(rows'["supabase"])
      BY <2>1, ApplyFits DEF AInv, IInv, Fits
    <2>3. ASSUME sound, Agrees("supabase")
          PROVE  Agrees("supabase")'
      <3>1. /\ e.kind = "interview" =>
                  e.task = 0 /\ \A f \in InterviewsOf(log["supabase"]) : f.id <= e.id
            /\ e.kind = "task_done" => e.task \in Ids(rows["supabase"])
        BY <2>3 DEF AInv, OpenTasks, SoundFits
      <3>2. e.kind = "task_created" => e.task # 0 /\ e.task \notin Ids(rows["supabase"])
        BY <1>3 DEF Commit, AInv, OpenTasks
      <3>3. QED
        BY <2>1, <2>3, <3>1, <3>2, ApplyAgrees DEF AInv, IInv, Fits
    <2>4. Agrees("sqlite")'
      BY <2>2, AgreesUntouched DEF AInv, RerunKeepsAgreement
    <2>5. RerunKeepsAgreement'
      BY <1>2, <2>3, <2>4 DEF AInv, RerunKeepsAgreement
    <2>6. OpenTasks'
      BY <1>2, <2>2 DEF AInv, OpenTasks
    <2>7. SoundFits'
      <3>1. SUFFICES ASSUME sound
                     PROVE  /\ pc # "idle" => ~touched
                            /\ \A f \in log'["supabase"] \union open' : f.id < nextEvent
                            /\ \A f \in open', g \in InterviewsOf(log'["supabase"]) :
                                 f.kind = "interview" => g.id <= f.id
        BY <1>2 DEF SoundFits
      <3>2. \A g \in InterviewsOf(log'["supabase"]) :
              g \in InterviewsOf(log["supabase"]) \/ (g = e /\ e.kind = "interview")
        BY <2>2 DEF InterviewsOf
      <3>3. \A f \in open', g \in InterviewsOf(log'["supabase"]) :
              f.kind = "interview" => g.id <= f.id
        BY <1>2, <3>1, <3>2 DEF AInv, SoundFits, OpenTasks
      <3>4. \A f \in log'["supabase"] \union open' : f.id < nextEvent
        BY <1>2, <2>2, <3>1 DEF AInv, SoundFits
      <3>5. QED
        BY <3>1, <3>3, <3>4 DEF AInv, SoundFits
    <2>8. QED
      BY <1>1, <2>5, <2>6, <2>7 DEF AInv
  <1>4. CASE RollBack(e)
    <2>1. UNCHANGED tables
      BY <1>4 DEF RollBack
    <2>2. RerunKeepsAgreement'
      BY <1>2, <2>1 DEF AInv, RerunKeepsAgreement, Agrees, EventsOf, tables
    <2>3. OpenTasks' /\ SoundFits'
      BY <1>2, <2>1 DEF AInv, OpenTasks, SoundFits, tables
    <2>4. QED
      BY <1>1, <2>2, <2>3 DEF AInv
  <1>5. QED
    BY <1>3, <1>4

(* A late import only ever spoils the target; it takes no row away. *)
LEMMA ServeLateAgrees ==
  ASSUME AInv, NEW m \in late, ServeLate(m)
  PROVE  AInv'
  <1>1. IInv'
    BY ServeLateKeeps DEF AInv
  <1>2. sound' = FALSE /\ UNCHANGED writes /\ RequestFits(m) /\ TablesFit /\ OpenFits
    BY DEF ServeLate, AInv, IInv, Fits, RunFits
  <1>3. /\ UNCHANGED open
        /\ log'["sqlite"] = log["sqlite"] /\ rows'["sqlite"] = rows["sqlite"]
        /\ profile'["sqlite"] = profile["sqlite"]
        /\ Ids(rows["supabase"]) \subseteq Ids(rows'["supabase"])
    <2>1. CASE m.kind = "events" /\ ImportEvents(m.what)
      BY <1>2, <2>1, ImportEventsFits DEF RequestFits
    <2>2. CASE m.kind = "state" /\ ImportState(m.what)
      BY <1>2, <2>2, ImportStateFits, RowsWithFit DEF RequestFits
    <2>3. CASE UNCHANGED <<tables, open>>
      BY <2>3 DEF tables
    <2>4. QED
      BY <2>1, <2>2, <2>3 DEF ServeLate, ledgerVars
  <1>4. Agrees("sqlite")'
    BY <1>3, AgreesUntouched DEF AInv, RerunKeepsAgreement
  <1>5. OpenTasks'
    BY <1>3 DEF AInv, OpenTasks
  <1>6. QED
    BY <1>1, <1>2, <1>4, <1>5 DEF AInv, RerunKeepsAgreement, SoundFits

LEMMA SendEventsAgrees ==
  ASSUME AInv, SendEvents
  PROVE  AInv'
  <1>1. IInv'
    BY MigrateKeeps DEF AInv, Migrate
  <1>2. pc = "events" /\ UNCHANGED <<writes, touched>> /\ TablesFit /\ OpenFits /\ EventsFit(copy)
    BY DEF SendEvents, AInv, IInv, Fits, RunFits
  <1>3. CASE copy # {} /\ ImportEvents(copy) /\ sound' = (sound /\ log' = log) /\ Goto("check")
    <2>1. /\ log'["sqlite"] = log["sqlite"]
          /\ \A e \in log'["supabase"] : e.id < nextEvent'
          /\ UNCHANGED <<rows, profile, open>>
      BY <1>2, <1>3, ImportEventsFits
    <2>2. sound' => sound /\ log' = log /\ ~touched /\ open = {}
      BY <1>2, <1>3 DEF AInv, SoundFits, IInv, Undisturbed
    <2>3. Agrees("sqlite")'
      BY <2>1, AgreesUntouched DEF AInv, RerunKeepsAgreement
    <2>4. sound' => Agrees("supabase")'
      BY <2>1, <2>2, AgreesUntouched DEF AInv, RerunKeepsAgreement
    <2>5. OpenTasks'
      BY <2>1 DEF AInv, OpenTasks
    <2>6. SoundFits'
      BY <1>2, <2>1, <2>2 DEF SoundFits
    <2>7. QED
      BY <1>1, <2>3, <2>4, <2>5, <2>6 DEF AInv, RerunKeepsAgreement
  <1>4. CASE UNCHANGED <<ledgerVars, sound>>
    <2>1. RerunKeepsAgreement' /\ OpenTasks'
      BY <1>4 DEF AInv, RerunKeepsAgreement, OpenTasks, Agrees, EventsOf, ledgerVars, tables
    <2>2. SoundFits'
      BY <1>2, <1>4 DEF AInv, SoundFits, ledgerVars, tables
    <2>3. QED
      BY <1>1, <2>1, <2>2 DEF AInv
  <1>5. QED
    BY <1>3, <1>4 DEF SendEvents

(* The state of a source that agrees makes the target agree, if the target *)
(* has its events and nobody has written to either.                        *)
LEMMA SendStateAgrees ==
  ASSUME AInv, SendState
  PROVE  AInv'
  <1>1. IInv'
    BY MigrateKeeps DEF AInv, Migrate
  <1>2. /\ pc = "state" /\ UNCHANGED <<writes, touched>> /\ sound' = ~touched
        /\ pc' = "idle" /\ outcome' = "ok" /\ ImportState(state)
        /\ TablesFit /\ OpenFits /\ StateFits(state)
    BY DEF SendState, Ends, Goto, AInv, IInv, Fits, RunFits
  <1>3. /\ UNCHANGED <<log, open, nextEvent>>
        /\ rows'["sqlite"] = rows["sqlite"] /\ profile'["sqlite"] = profile["sqlite"]
        /\ Ids(rows["supabase"]) \subseteq Ids(rows'["supabase"])
    BY <1>2, ImportStateFits, RowsWithFit
  <1>4. Agrees("sqlite")'
    BY <1>3, AgreesUntouched DEF AInv, RerunKeepsAgreement
  <1>5. sound' => Agrees("supabase")'
    <2>1. SUFFICES ASSUME ~touched
                   PROVE  Agrees("supabase")'
      BY <1>2
    <2>2. /\ log'["supabase"] = log'["sqlite"]
          /\ rows'["supabase"] = rows'["sqlite"]
          /\ profile'["supabase"] = profile'["sqlite"]
      BY <1>1, <1>2, <2>1 DEF IInv, SuccessIsCopy
    <2>3. QED
      BY <1>4, <2>2 DEF Agrees, EventsOf
  <1>6. OpenTasks'
    BY <1>3 DEF AInv, OpenTasks
  <1>7. SoundFits'
    <2>1. SUFFICES ASSUME ~touched
                   PROVE  open = {} /\ \A e \in log["supabase"] : e.id < nextEvent
      BY <1>2, <1>3 DEF SoundFits
    <2>2. QED
      BY <1>2, <2>1 DEF AInv, IInv, Undisturbed, CounterFollows
  <1>8. QED
    BY <1>1, <1>2, <1>4, <1>5, <1>6, <1>7 DEF AInv, RerunKeepsAgreement

LEMMA MigrateAgrees ==
  ASSUME AInv, Migrate
  PROVE  AInv'
  <1>1. IInv'
    BY MigrateKeeps DEF AInv
  <1>2. ASSUME UNCHANGED ledgerVars, sound' => sound, sound' /\ pc' # "idle" => ~touched'
        PROVE  AInv'
    <2>1. RerunKeepsAgreement'
      BY <1>2 DEF AInv, RerunKeepsAgreement, Agrees, EventsOf, ledgerVars, tables
    <2>2. OpenTasks' /\ SoundFits'
      BY <1>2 DEF AInv, OpenTasks, SoundFits, ledgerVars, tables
    <2>3. QED
      BY <1>1, <2>1, <2>2 DEF AInv
  <1>3. CASE Begin
    BY <1>2, <1>3 DEF Begin
  <1>4. CASE DeriveSource \/ CheckTarget \/ CheckDerived \/ ReadState \/ Resend \/ Abort
    <2>1. UNCHANGED <<ledgerVars, sound, touched>> /\ (pc # "idle")
      BY <1>4 DEF DeriveSource, CheckTarget, CheckDerived, ReadState, Resend, Abort, Requesting,
         ghosts
    <2>2. QED
      BY <1>2, <2>1 DEF AInv, SoundFits
  <1>5. QED
    BY <1>3, <1>4, SendEventsAgrees, SendStateAgrees DEF Migrate

LEMMA AgreementHolds == Init => AInv
  <1> SUFFICES ASSUME Init PROVE AInv
    OBVIOUS
  <1>1. OpenTasks /\ SoundFits
    BY DEF Init, OpenTasks, SoundFits, Ledgers
  <1>2. \A l \in Ledgers : Agrees(l)
    BY DEF Init, Agrees, ProfileFrom, InterviewsOf
  <1>3. QED
    BY <1>1, <1>2, InitHolds DEF AInv, RerunKeepsAgreement, Ledgers

LEMMA AgreementInductive == AInv /\ [Next]_vars => AInv'
  <1> SUFFICES ASSUME AInv, [Next]_vars PROVE AInv'
    OBVIOUS
  <1>1. ASSUME NEW l \in Ledgers, Call(l) PROVE AInv'
    <2>1. PICK e \in AnyEvent : Write(l, e) /\ NextIds(l, e)
      BY <1>1, CallIsWrite DEF AInv, IInv, Fits
    <2>2. QED
      BY <2>1, WriteAgrees
  <1>2. CASE UNCHANGED vars
    <2>1. IInv'
      BY <1>2, Inductive DEF AInv
    <2>2. RerunKeepsAgreement'
      BY <1>2 DEF AInv, RerunKeepsAgreement, Agrees, EventsOf, vars, ledgerVars, tables, ghosts
    <2>3. OpenTasks' /\ SoundFits'
      BY <1>2 DEF AInv, OpenTasks, SoundFits, vars, ledgerVars, tables, runVars, ghosts
    <2>4. QED
      BY <2>1, <2>2, <2>3 DEF AInv
  <1>3. QED
    BY <1>1, <1>2, CommitAgrees, MigrateAgrees, ServeLateAgrees DEF Next

(* Rows, events and profile of both ledgers agree after any number of      *)
(* writes and migrations, the target's until a migration overlaps a write  *)
(* or fails between its events and its rows; the next one that nothing     *)
(* overlaps and that succeeds makes them agree again.                      *)
THEOREM RerunsKeepAgreement == Spec => []RerunKeepsAgreement
  <1>1. AInv => RerunKeepsAgreement
    BY DEF AInv
  <1>2. QED
    BY <1>1, AgreementHolds, AgreementInductive, PTL DEF Spec

=============================================================================
