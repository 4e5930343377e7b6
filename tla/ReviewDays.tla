----------------------------- MODULE ReviewDays -----------------------------
(***************************************************************************)
(* The review state of one concept over the days, as the events about it   *)
(* arrive in the order of their timestamps: quizzes, finished tasks, marks *)
(* as known and re-selections, several a day or none for months.           *)
(***************************************************************************)
EXTENDS ReviewSchedule

CONSTANT MaxDay     \* bound on the days followed

ASSUME MaxDayAssumption == MaxDay \in Nat

VARIABLES state,    \* the concept's _ReviewState
          today,    \* the day of the latest event
          reviewed  \* ghost: day of its last review or mark, 0 before the first

reviewVars == <<state, today, reviewed>>

ReviewState == [interval : 0..MaxIntervalDays, reps : 0..2, ease : MinEase..MaxEase,
                due : Nat, grade : 0..4]

ReviewTypeOK ==
  /\ state \in ReviewState
  /\ today \in 1..(MaxDay + 1)
  /\ reviewed \in 0..today

ReviewInit == state = NoReview /\ today = 1 /\ reviewed = 0

(* Days pass. *)
Wait ==
  /\ today' \in (today + 1)..(MaxDay + 1)
  /\ UNCHANGED <<state, reviewed>>

(* quiz_result: its grade, or the one of its score. *)
Quiz(grade) ==
  /\ state' \in Graded(state, grade, today)
  /\ reviewed' = today
  /\ UNCHANGED today

TaskDone ==
  /\ state' \in Graded(state, 3, today)
  /\ reviewed' = today
  /\ UNCHANGED today

MarkKnown ==
  /\ state' \in MarkedKnown(state, today)
  /\ reviewed' = today
  /\ UNCHANGED today

(* selected without later; a concept without state stays without. *)
Select ==
  /\ reviewed # 0
  /\ state' \in Selected(state, today)
  /\ UNCHANGED <<today, reviewed>>

ReviewNext == Wait \/ (\E g \in Grades : Quiz(g)) \/ TaskDone \/ MarkKnown \/ Select

ReviewSpec == ReviewInit /\ [][ReviewNext]_reviewVars

----------------------------------------------------------------------------
(* Properties *)

(* A concept once reviewed is never lost from the schedule: it has a due   *)
(* date, at most a year and at least a day after its last review, unless   *)
(* the user selected it again, which makes it due on a day that has come.  *)
(* Its ease stays within [1.3, 3.0], whatever the grades.                  *)
Scheduled ==
  reviewed # 0 =>
    /\ state.interval \in 1..MaxIntervalDays
    /\ state.ease \in MinEase..MaxEase
    /\ \/ state.due = reviewed + state.interval
       \/ state.due \in reviewed..today

(* An answer that is not "again" never shortens the interval of a concept  *)
(* with two successes behind it, however low hard answers have made its    *)
(* ease and however high the interval is.  (Before that it may: a concept  *)
(* marked as known comes back after 7 days and, answered well, after 3.)   *)
SettledIntervalsGrow ==
  [][(state.reps = 2 /\ state'.grade \in 2..4) => state'.interval >= state.interval]_reviewVars

=============================================================================
