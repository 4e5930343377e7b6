------------------------------ MODULE Learning ------------------------------
(***************************************************************************)
(* What the ledger knows of the learner: the event log of one ledger and   *)
(* the two things computed from it, the tables of derive() and the review  *)
(* schedule.  Events arrive in any order of their timestamps: an imported  *)
(* GitHub issue carries the time it was opened, a restored or migrated     *)
(* event the one it had.  (When the tables are rebuilt, and what is lost   *)
(* when two rebuilds race, is the subject of SupabaseLedger.)              *)
(***************************************************************************)
EXTENDS Derive, ReviewSchedule

CONSTANTS Concepts,     \* the concepts of the instance
          Times,        \* timestamps
          Records,      \* what may be recorded: events without id and time
          MaxEvents     \* bound on the length of the log

Kinds == {"proposed", "selected", "later", "dismissed", "marked_known", "task_created",
          "task_done", "quiz_result", "interview", "chat_note"}

ASSUME MaxEventsAssumption == MaxEvents \in Nat
ASSUME TimesAssumption == Times \subseteq Nat
ASSUME NoConceptAssumption == NoConcept \notin Concepts
ASSUME RecordsAssumption ==
  \A r \in Records :
    /\ r.kind \in Kinds
    /\ r.concept \in Concepts \union {NoConcept}
    /\ r.value \in 0..100 /\ r.grade \in 0..4
    /\ r.kind = "quiz_result" => r.grade \in Grades
    /\ r.concept = NoConcept => r.kind \in {"interview", "chat_note"}
    /\ IsFiniteSet(r.edges)
    /\ \A edge \in r.edges :
          edge.src \in Concepts \union {NoConcept} /\ edge.dst \in Concepts /\ edge.weight \in Nat

VARIABLES events,       \* the events table, a set: ids are 1, 2, ...
          tables,       \* the concepts and edges tables
          schedule      \* review_schedule(events): the state of each concept in it

vars == <<events, tables, schedule>>

Statuses == {"unknown", "queued", "learning", "learned", "review"}

TypeOK ==
  /\ \A e \in events : e.id \in 1..MaxEvents /\ e.ts \in Times
  /\ \A c \in DOMAIN tables.concepts :
        /\ c \in Concepts /\ tables.concepts[c].status \in Statuses
        /\ tables.concepts[c].confidence \in 0..100
  /\ \A c \in DOMAIN schedule : c \in Concepts /\ schedule[c].interval \in 1..MaxIntervalDays

----------------------------------------------------------------------------
(* review_schedule *)

(* Two timestamps fall on each day. *)
Day(t) == t \div 2 + 1

Choice(S) == CHOOSE s \in S : \A r \in S : r.interval <= s.interval

(* The kinds that begin a review state. *)
Reviews == {"marked_known", "task_done", "quiz_result"}

(* Mutant of Review: only quizzes and finished tasks begin a state. *)
ReviewAnswersOnly(sched, e) ==
  IF e.concept = NoConcept \/ e.kind \notin {"quiz_result", "task_done"} THEN sched
  ELSE [d \in DOMAIN sched \union {e.concept} |->
          IF d = e.concept THEN [NoReview EXCEPT !.due = Day(e.ts) + 1, !.interval = 1]
          ELSE sched[d]]

(* One turn of review_schedule's loop. *)
Review(sched, e) ==
  LET c == e.concept
      old == IF c \in DOMAIN sched THEN sched[c] ELSE NoReview
      new == CASE e.kind = "marked_known" -> Choice(MarkedKnown(old, Day(e.ts)))
               [] e.kind = "task_done" -> Choice(Graded(old, 3, Day(e.ts)))
               [] e.kind = "quiz_result" -> Choice(Graded(old, e.grade, Day(e.ts)))
               [] e.kind = "selected" -> Choice(Selected(old, Day(e.ts)))
  IN IF \/ c = NoConcept
        \/ e.kind \notin Reviews \union {"selected"}
        \/ e.kind = "selected" /\ c \notin DOMAIN sched
     THEN sched
     ELSE [d \in DOMAIN sched \union {c} |-> IF d = c THEN new ELSE sched[d]]

ScheduleFrom(S) ==
  LET after[T \in SUBSET S] ==
        IF T = {} THEN << >> ELSE Review(after[T \ {Latest(T)}], Latest(T))
  IN after[S]

----------------------------------------------------------------------------

NextId == Cardinality(events) + 1

Insert(e) ==
  /\ events' = events \union {e}
  /\ tables' = DeriveFrom(events')
  /\ schedule' = ScheduleFrom(events')

WithId(r, id, t) ==
  [id |-> id, ts |-> t, kind |-> r.kind, concept |-> r.concept, value |-> r.value,
   grade |-> r.grade, edges |-> r.edges]

Init == events = {} /\ tables = EmptyTables /\ schedule = << >>

Record(r, t) ==
  /\ NextId <= MaxEvents
  /\ Insert(WithId(r, NextId, t))

(* An append_events request whose answer was lost is sent again: the same  *)
(* row under the next id.                                                  *)
Repeat(e) ==
  /\ NextId <= MaxEvents
  /\ Insert([e EXCEPT !.id = NextId])

Next ==
  \/ \E r \in Records, t \in Times : Record(r, t)
  \/ \E e \in events : Repeat(e)

Spec == Init /\ [][Next]_vars

----------------------------------------------------------------------------
(* Properties *)

(* The status that a set of events gives a concept, said without the loop: *)
(* the last quiz or mark as known, in the order of timestamps and not of   *)
(* arrival, decides; what was selected since is for review.  Before the    *)
(* first, a task makes it learning and a selection queued.  Nothing else   *)
(* counts.                                                                 *)
StatusOf(c, S) ==
  LET about == {e \in S : e.concept = c}
      decisive == {e \in about : e.kind \in {"quiz_result", "marked_known"}}
      last == Latest(decisive)
      known == last.kind = "marked_known" \/ last.value >= 80
      chosen == \E e \in about : e.kind = "selected" /\ Before(last, e)
      Some(kind) == \E e \in about : e.kind = kind
  IN CASE decisive = {} /\ Some("task_created") -> "learning"
       [] decisive = {} /\ ~Some("task_created") ->
            IF Some("selected") THEN "queued" ELSE "unknown"
       [] decisive # {} /\ ~known -> "learning"
       [] decisive # {} /\ known -> IF chosen THEN "review" ELSE "learned"

(* Every concept has the status that the whole log gives it, in whatever   *)
(* order the events arrived.                                               *)
StatusSpec ==
  \A c \in DOMAIN tables.concepts : tables.concepts[c].status = StatusOf(c, events)

(* Every concept that a learner has learned is in the review schedule,     *)
(* whichever events taught it and in whatever order they arrived: the two  *)
(* folds over the log, written apart, agree.                               *)
LearnedIsScheduled ==
  \A c \in DOMAIN tables.concepts :
    tables.concepts[c].status \in {"learned", "review"} => c \in DOMAIN schedule

(* The edges table holds every valid edge of every event, with its         *)
(* greatest weight, credited to the first event in order that has it, and  *)
(* both its ends are concepts; concepts are those events or edges name.    *)
EdgesSpec ==
  LET Having(k) == {e \in events : k \in KeysOf(e)}
  IN /\ DOMAIN tables.edges = UNION {KeysOf(e) : e \in events}
     /\ \A k \in DOMAIN tables.edges :
          /\ \A e \in Having(k) : tables.edges[k].weight >= WeightIn(e, k)
          /\ \E e \in Having(k) : tables.edges[k].weight = WeightIn(e, k)
          /\ \E d \in Having(k) :
                tables.edges[k].by = d.id /\ \A e \in Having(k) : e = d \/ Before(d, e)
     /\ DOMAIN tables.concepts =
          ({e.concept : e \in events} \ {NoConcept}) \union UNION {Endpoints(e) : e \in events}

Added == CHOOSE e \in events' : e \notin events

(* Proposing, dismissing, putting off or talking about a concept never     *)
(* changes what the learner is held to know, whenever the event is dated:  *)
(* slipping one between older events disturbs none of them.                *)
NeutralEvents ==
  [][Added.kind \in {"proposed", "later", "dismissed", "interview", "chat_note"} =>
       \A c \in DOMAIN tables.concepts :
          /\ tables'.concepts[c].status = tables.concepts[c].status
          /\ tables'.concepts[c].confidence = tables.concepts[c].confidence]_vars

(* An append that is sent twice leaves the tables as one does, but for a   *)
(* task_done (whose request cannot be repeated, see SupabaseLedger), if    *)
(* nothing else happened at the same instant: on Supabase, whose           *)
(* timestamps load_events cuts, in the same second.                        *)
RetryHarmless ==
  [][\A e \in events :
       (/\ Added = [e EXCEPT !.id = NextId] /\ e.kind # "task_done"
        /\ \A d \in events : d.ts = e.ts => d = e)
         => tables' = tables]_vars

=============================================================================
