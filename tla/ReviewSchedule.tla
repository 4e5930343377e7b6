--------------------------- MODULE ReviewSchedule ---------------------------
(***************************************************************************)
(* The review scheduler (ledger/review.py): what one event does to the     *)
(* review state of its concept.  Learning folds it over a log, ReviewDays  *)
(* steps it day by day.                                                    *)
(*                                                                         *)
(* Days are integers; ease is in hundredths and a score in percent.  The   *)
(* program computes with floats, so that an interval that falls exactly    *)
(* between two days may be rounded either way (Rounded has both).  Only    *)
(* 0, 1 and more repetitions are told apart.                               *)
(***************************************************************************)
EXTENDS Integers

InitialEase == 250
MinEase == 130
MaxEase == 300
MaxIntervalDays == 365
MarkedKnownIntervalDays == 7

Grades == 1..4      \* again, hard, good, easy

Least(a, b) == IF a < b THEN a ELSE b
Greatest(a, b) == IF a > b THEN a ELSE b

ClampInterval(n) == Least(MaxIntervalDays, Greatest(1, n))
ClampEase(e) == Least(MaxEase, Greatest(MinEase, e))

(* Grade of a quiz_result recorded before grades were. *)
GradeFromScore(score) ==
  CASE score < 50 -> 1 [] score \in 50..79 -> 2 [] score \in 80..94 -> 3 [] OTHER -> 4

(* The integers x/d may be rounded to: both neighbours of an exact tie. *)
Rounded(x, d) ==
  {(2 * x + d) \div (2 * d)} \union
  (IF (2 * x + d) % (2 * d) = 0 THEN {(2 * x + d) \div (2 * d) - 1} ELSE {})

(* A concept without review state, _ReviewState's defaults: due is 0 for   *)
(* None.                                                                   *)
NoReview == [interval |-> 0, reps |-> 0, ease |-> InitialEase, due |-> 0, grade |-> 0]

(* Mutant of Ease: no clamp. *)
EaseUnclamped(s, grade) ==
  CASE grade = 1 -> s.ease - 20 [] grade = 2 -> s.ease - 15
    [] grade = 3 -> s.ease [] grade = 4 -> s.ease + 15

Ease(s, grade) ==
  ClampEase(CASE grade = 1 -> s.ease - 20 [] grade = 2 -> s.ease - 15
              [] grade = 3 -> s.ease [] grade = 4 -> s.ease + 15)

(* Mutant of Intervals: a good answer never gets past the second step. *)
IntervalsTwoSteps(s, grade) ==
  CASE grade = 1 -> {1}
    [] grade = 2 -> {(Greatest(1, s.interval) * 12 + 9) \div 10}
    [] grade = 3 /\ s.reps = 0 -> {1}
    [] grade = 3 /\ s.reps > 0 -> {3}
    [] grade = 4 -> {7}

(* The intervals a review with this grade may give. *)
Intervals(s, grade) ==
  LET previous == Greatest(1, s.interval)
  IN CASE grade = 1 -> {1}
       [] grade = 2 -> {(previous * 12 + 9) \div 10}
       [] grade = 3 /\ s.reps = 0 -> {1}
       [] grade = 3 /\ s.reps = 1 -> {3}
       [] grade = 3 /\ s.reps > 1 -> Rounded(previous * s.ease, 100)
       [] grade = 4 /\ s.reps = 0 -> {3}
       [] grade = 4 /\ s.reps = 1 -> {7}
       [] grade = 4 /\ s.reps > 1 -> Rounded(previous * s.ease * 13, 1000)

Repetitions(s, grade) ==
  CASE grade = 1 -> 0
    [] grade = 2 -> Greatest(1, s.reps)
    [] grade \in {3, 4} -> Least(2, s.reps + 1)

(* Mutant of Graded: due is counted from the previous due date. *)
GradedFromDue(s, grade, day) ==
  {[interval |-> ClampInterval(n), reps |-> Repetitions(s, grade), ease |-> Ease(s, grade),
    due |-> Greatest(s.due, day) + ClampInterval(n), grade |-> grade]
     : n \in Intervals(s, grade)}

(* The states _apply_grade may leave: a review with this grade on this day. *)
Graded(s, grade, day) ==
  {[interval |-> ClampInterval(n), reps |-> Repetitions(s, grade), ease |-> Ease(s, grade),
    due |-> day + ClampInterval(n), grade |-> grade] : n \in Intervals(s, grade)}

(* marked_known: a week, the first time; later an easy review. *)
MarkedKnown(s, day) ==
  IF s.interval = 0
  THEN {[s EXCEPT !.interval = MarkedKnownIntervalDays, !.reps = 1,
                  !.due = day + MarkedKnownIntervalDays, !.grade = 4]}
  ELSE Graded(s, 4, day)

(* selected, for a concept that has a state: it is due the same day. *)
Selected(s, day) == {[s EXCEPT !.due = day]}

=============================================================================
