--------------------------- MODULE LearningProofs ---------------------------
(***************************************************************************)
(* What is computed from the events about a concept: its review schedule   *)
(* over any number of days (ReviewDays), and the tables and the schedule   *)
(* of any log (Learning).  The first needs that the clamps bound what a    *)
(* review leaves; the second is an induction over the log, from which the  *)
(* latest event is taken off at each step.                                 *)
(***************************************************************************)
EXTENDS Learning, ReviewDays, FiniteSetTheorems, WellFoundedInduction, TLAPS

----------------------------------------------------------------------------
(* The review schedule of one concept, day by day *)

ReviewInv == ReviewTypeOK /\ Scheduled

(* What the clamps return. *)
LEMMA Clamps ==
  /\ \A n \in Int : ClampInterval(n) \in 1..MaxIntervalDays
  /\ \A e \in Int : ClampEase(e) \in MinEase..MaxEase
<1>1. ASSUME NEW n \in Int, NEW low \in Int, NEW high \in Int, low <= high
      PROVE  Least(high, Greatest(low, n)) \in low..high
  <2>1. CASE n > low
    BY <1>1, <2>1 DEF Least, Greatest
  <2>2. CASE n <= low
    BY <1>1, <2>2 DEF Least, Greatest
  <2> QED
    BY <1>1, <2>1, <2>2
<1>2. ASSUME NEW n \in Int PROVE ClampInterval(n) \in 1..MaxIntervalDays
  <2>1. 1 \in Int /\ 365 \in Int /\ 1 <= 365
    OBVIOUS
  <2>2. Least(365, Greatest(1, n)) \in 1..365
    BY <1>1, <1>2, <2>1
  <2> QED
    BY <2>2 DEF ClampInterval, MaxIntervalDays
<1>3. ASSUME NEW e \in Int PROVE ClampEase(e) \in MinEase..MaxEase
  <2>1. 130 \in Int /\ 300 \in Int /\ 130 <= 300
    OBVIOUS
  <2>2. Least(300, Greatest(130, e)) \in 130..300
    BY <1>1, <1>3, <2>1
  <2> QED
    BY <2>2 DEF ClampEase, MinEase, MaxEase
<1> QED
  BY <1>2, <1>3

(* An interval is an integer before it is clamped. *)
LEMMA IntervalsAreInts ==
  ASSUME NEW s \in ReviewState, NEW grade \in Grades
  PROVE  Intervals(s, grade) \subseteq Int
<1>1. s.interval \in Int /\ s.reps \in 0..2 /\ s.ease \in Int
  BY DEF ReviewState, MinEase, MaxEase, MaxIntervalDays
<1>2. Greatest(1, s.interval) \in Int
  BY <1>1 DEF Greatest
<1>3. ASSUME NEW x \in Int, NEW d \in Int, d > 0
      PROVE  Rounded(x, d) \subseteq Int
  BY <1>3 DEF Rounded
<1>4. /\ Greatest(1, s.interval) * s.ease \in Int
      /\ Greatest(1, s.interval) * s.ease * 13 \in Int
  BY <1>1, <1>2
<1>5. /\ Rounded(Greatest(1, s.interval) * s.ease, 100) \subseteq Int
      /\ Rounded(Greatest(1, s.interval) * s.ease * 13, 1000) \subseteq Int
  BY <1>3, <1>4
<1>6. grade = 1 \/ grade = 2 \/ grade = 3 \/ grade = 4
  BY DEF Grades
<1> QED
  BY <1>1, <1>2, <1>5, <1>6 DEF Intervals

(* A review leaves a state that is due its interval after the review. *)
LEMMA GradedFits ==
  ASSUME NEW s \in ReviewState, NEW grade \in Grades, NEW day \in Nat,
         NEW next \in Graded(s, grade, day)
  PROVE  /\ next \in ReviewState
         /\ next.interval \in 1..MaxIntervalDays
         /\ next.due = day + next.interval
         /\ next.grade = grade
<1>1. PICK n \in Intervals(s, grade) :
         next = [interval |-> ClampInterval(n), reps |-> Repetitions(s, grade),
                 ease |-> Ease(s, grade), due |-> day + ClampInterval(n), grade |-> grade]
  BY DEF Graded
<1>2. n \in Int
  BY <1>1, IntervalsAreInts
<1>3. ClampInterval(n) \in 1..MaxIntervalDays
  BY <1>2, Clamps
<1>4. Repetitions(s, grade) \in 0..2
  BY DEF Repetitions, Grades, ReviewState, Least, Greatest
<1>5. Ease(s, grade) \in MinEase..MaxEase
  <2>1. s.ease \in Int
    BY DEF ReviewState, MinEase, MaxEase
  <2>2. (CASE grade = 1 -> s.ease - 20 [] grade = 2 -> s.ease - 15
           [] grade = 3 -> s.ease [] grade = 4 -> s.ease + 15) \in Int
    BY <2>1 DEF Grades
  <2> QED
    BY <2>2, Clamps DEF Ease
<1>6. day + ClampInterval(n) \in Nat
  BY <1>3 DEF MaxIntervalDays
<1>7. grade \in 0..4
  BY DEF Grades
<1> QED
  BY <1>1, <1>3, <1>4, <1>5, <1>6, <1>7 DEF ReviewState, MaxIntervalDays

(* A mark as known is such a review, the first one with an interval of a   *)
(* week.                                                                   *)
LEMMA MarkedKnownFits ==
  ASSUME NEW s \in ReviewState, NEW day \in Nat, NEW next \in MarkedKnown(s, day)
  PROVE  /\ next \in ReviewState
         /\ next.interval \in 1..MaxIntervalDays
         /\ next.due = day + next.interval
         /\ next.grade = 4
<1>1. CASE s.interval = 0
  <2>1. next = [s EXCEPT !.interval = MarkedKnownIntervalDays, !.reps = 1,
                         !.due = day + MarkedKnownIntervalDays, !.grade = 4]
    BY <1>1 DEF MarkedKnown
  <2>2. /\ next.interval = 7 /\ next.reps = 1 /\ next.due = day + 7 /\ next.grade = 4
        /\ next \in ReviewState
    <3>1. PICK i \in 0..MaxIntervalDays, r \in 0..2, e \in MinEase..MaxEase, d \in Nat,
               g \in 0..4 :
             s = [interval |-> i, reps |-> r, ease |-> e, due |-> d, grade |-> g]
      BY DEF ReviewState
    <3>2. next = [interval |-> 7, reps |-> 1, ease |-> e, due |-> day + 7, grade |-> 4]
      BY <2>1, <3>1 DEF MarkedKnownIntervalDays
    <3> QED
      BY <3>1, <3>2 DEF ReviewState, MaxIntervalDays
  <2> QED
    BY <2>2 DEF MaxIntervalDays
<1>2. CASE s.interval # 0
  <2>1. 4 \in Grades /\ next \in Graded(s, 4, day)
    BY <1>2 DEF Grades, MarkedKnown
  <2> QED
    BY <2>1, GradedFits
<1> QED
  BY <1>1, <1>2

LEMMA ReviewInvInit == ReviewInit => ReviewInv
BY MaxDayAssumption
   DEF ReviewInit, ReviewInv, ReviewTypeOK, Scheduled, NoReview, ReviewState, InitialEase,
       MinEase, MaxEase, MaxIntervalDays

LEMMA ReviewInvStep == ReviewInv /\ [ReviewNext]_reviewVars => ReviewInv'
<1> SUFFICES ASSUME ReviewInv, [ReviewNext]_reviewVars PROVE ReviewInv'
  OBVIOUS
<1>0. /\ state \in ReviewState /\ today \in Nat /\ today \in 1..(MaxDay + 1)
      /\ reviewed \in Nat /\ reviewed <= today /\ MaxDay \in Nat
  BY MaxDayAssumption DEF ReviewInv, ReviewTypeOK
<1>1. ASSUME NEW grade \in Grades, Quiz(grade) PROVE ReviewInv'
  <2>1. /\ state' \in ReviewState /\ state'.interval \in 1..MaxIntervalDays
        /\ state'.due = today + state'.interval
    BY <1>0, <1>1, GradedFits DEF Quiz
  <2>2. state'.ease \in MinEase..MaxEase
    BY <2>1 DEF ReviewState
  <2> QED
    BY <1>0, <1>1, <2>1, <2>2 DEF Quiz, ReviewInv, ReviewTypeOK, Scheduled
<1>2. CASE TaskDone
  <2>1. /\ state' \in ReviewState /\ state'.interval \in 1..MaxIntervalDays
        /\ state'.due = today + state'.interval
    <3>1. 3 \in Grades
      BY DEF Grades
    <3> QED
      BY <1>0, <1>2, <3>1, GradedFits DEF TaskDone
  <2>2. state'.ease \in MinEase..MaxEase
    BY <2>1 DEF ReviewState
  <2> QED
    BY <1>0, <1>2, <2>1, <2>2 DEF TaskDone, ReviewInv, ReviewTypeOK, Scheduled
<1>3. CASE MarkKnown
  <2>1. /\ state' \in ReviewState /\ state'.interval \in 1..MaxIntervalDays
        /\ state'.due = today + state'.interval
    BY <1>0, <1>3, MarkedKnownFits DEF MarkKnown
  <2>2. state'.ease \in MinEase..MaxEase
    BY <2>1 DEF ReviewState
  <2> QED
    BY <1>0, <1>3, <2>1, <2>2 DEF MarkKnown, ReviewInv, ReviewTypeOK, Scheduled
<1>4. CASE Select
  (* reviewed is not after today: the one fact Select needs of the past. *)
  <2>1. state' = [state EXCEPT !.due = today]
    BY <1>4 DEF Select, Selected
  <2>2. /\ state' \in ReviewState /\ state'.due = today
        /\ state'.interval = state.interval /\ state'.ease = state.ease
    BY <1>0, <2>1 DEF ReviewState
  <2> QED
    BY <1>0, <1>4, <2>2 DEF Select, ReviewInv, ReviewTypeOK, Scheduled
<1>5. CASE Wait
  BY <1>0, <1>5 DEF Wait, ReviewInv, ReviewTypeOK, Scheduled
<1>6. CASE UNCHANGED reviewVars
  BY <1>0, <1>6 DEF reviewVars, ReviewInv, ReviewTypeOK, Scheduled
<1> QED
  BY <1>1, <1>2, <1>3, <1>4, <1>5, <1>6 DEF ReviewNext

LEMMA ReviewInvAlways == ReviewSpec => []ReviewInv
BY ReviewInvInit, ReviewInvStep, PTL DEF ReviewSpec

(* Type correctness: whatever is answered and however long the learner     *)
(* waits, interval, repetitions and ease stay in their ranges.             *)
THEOREM ReviewTypes == ReviewSpec => []ReviewTypeOK
<1>1. ReviewInv => ReviewTypeOK
  BY DEF ReviewInv
<1> QED
  BY ReviewInvAlways, <1>1, PTL

(* A concept once reviewed has a due date, within a year of its last       *)
(* review, for any number of days and answers.                             *)
THEOREM AlwaysScheduled == ReviewSpec => []Scheduled
<1>1. ReviewInv => Scheduled
  BY DEF ReviewInv
<1> QED
  BY ReviewInvAlways, <1>1, PTL

----------------------------------------------------------------------------
(* Growth *)

(* Rounding a multiple of at least 1.3 of an interval never shortens it,   *)
(* the tie that is rounded down included.                                  *)
LEMMA RoundedGrows ==
  ASSUME NEW p \in Nat, p >= 1, NEW x \in Nat
  PROVE  /\ x >= 130 * p => \A n \in Rounded(x, 100) : n \in Int /\ n >= p
         /\ x >= 1690 * p => \A n \in Rounded(x, 1000) : n \in Int /\ n >= p
BY DEF Rounded

(* Once the two fixed steps are behind it, an interval is multiplied.      *)
LEMMA SettledGrows ==
  ASSUME NEW s \in ReviewState, s.reps = 2, NEW grade \in 2..4,
         NEW n \in Intervals(s, grade)
  PROVE  n \in Int /\ n >= s.interval
<1> DEFINE p == Greatest(1, s.interval)
<1>1. s.interval \in 0..365 /\ s.ease \in 130..300
  BY DEF ReviewState, MinEase, MaxEase, MaxIntervalDays
<1>2. p \in Nat /\ p >= 1 /\ p >= s.interval
  BY <1>1 DEF Greatest
<1> HIDE DEF p
<1>3. p * s.ease \in Nat /\ p * s.ease >= 130 * p
  <2>1. PICK e \in 130..300 : s.ease = e
    BY <1>1
  <2>2. p * e \in Nat /\ p * e >= 130 * p
    BY <1>2
  <2> QED
    BY <2>1, <2>2
<1>4. p * s.ease * 13 \in Nat /\ p * s.ease * 13 >= 1690 * p
  BY <1>2, <1>3
<1>5. CASE grade = 2
  <2>1. n = (p * 12 + 9) \div 10
    BY <1>5 DEF Intervals, p
  <2> QED
    BY <1>1, <1>2, <2>1
<1>6. CASE grade = 3
  <2>1. n \in Rounded(p * s.ease, 100)
    BY <1>6 DEF Intervals, p
  <2>2. n \in Int /\ n >= p
    BY <1>2, <1>3, <2>1, RoundedGrows
  <2> QED
    BY <1>1, <1>2, <2>2
<1>7. CASE grade = 4
  <2>1. n \in Rounded(p * s.ease * 13, 1000)
    BY <1>7 DEF Intervals, p
  <2>2. n \in Int /\ n >= p
    BY <1>2, <1>4, <2>1, RoundedGrows
  <2> QED
    BY <1>1, <1>2, <2>2
<1> QED
  BY <1>5, <1>6, <1>7

(* The clamp of a grown interval is not below the old one. *)
LEMMA ClampGrows ==
  ASSUME NEW i \in 0..MaxIntervalDays, NEW n \in Int, n >= i
  PROVE  ClampInterval(n) >= i
BY DEF ClampInterval, Least, Greatest, MaxIntervalDays

LEMMA GradedGrows ==
  ASSUME NEW s \in ReviewState, s.reps = 2, NEW grade \in 2..4, NEW day \in Nat,
         NEW next \in Graded(s, grade, day)
  PROVE  next.interval >= s.interval
<1>1. PICK n \in Intervals(s, grade) : next.interval = ClampInterval(n)
  BY DEF Graded
<1>2. n \in Int /\ n >= s.interval
  BY <1>1, SettledGrows
<1>3. s.interval \in 0..MaxIntervalDays
  BY DEF ReviewState
<1> QED
  BY <1>1, <1>2, <1>3, ClampGrows

(* No answer but "again" shortens the interval of a settled concept, at    *)
(* any ease the clamp allows and any interval up to a year.                *)
THEOREM SettledIntervalsAlwaysGrow == ReviewSpec => SettledIntervalsGrow
<1> DEFINE Grows ==
      (state.reps = 2 /\ state'.grade \in 2..4) => state'.interval >= state.interval
<1>1. ReviewInv /\ [ReviewNext]_reviewVars => [Grows]_reviewVars
  <2> SUFFICES ASSUME ReviewInv, ReviewNext, state.reps = 2, state'.grade \in 2..4
               PROVE  state'.interval >= state.interval
    BY DEF reviewVars
  <2>0. state \in ReviewState /\ today \in Nat /\ state.interval \in 0..365
    BY MaxDayAssumption DEF ReviewInv, ReviewTypeOK, ReviewState, MaxIntervalDays
  <2>1. ASSUME NEW grade \in Grades, Quiz(grade) PROVE state'.interval >= state.interval
    <3>1. state' \in Graded(state, grade, today)
      BY <2>1 DEF Quiz
    <3>2. grade \in 2..4
      BY <2>0, <3>1, GradedFits
    <3> QED
      BY <2>0, <3>1, <3>2, GradedGrows
  <2>2. CASE TaskDone
    <3>1. state' \in Graded(state, 3, today) /\ 3 \in 2..4
      BY <2>2 DEF TaskDone
    <3> QED
      BY <2>0, <3>1, GradedGrows
  <2>3. CASE MarkKnown
    <3>1. state' \in MarkedKnown(state, today)
      BY <2>3 DEF MarkKnown
    <3>2. CASE state.interval = 0
      <4>1. state'.interval \in 1..365
        BY <2>0, <3>1, MarkedKnownFits DEF MaxIntervalDays
      <4> QED
        BY <3>2, <4>1
    <3>3. CASE state.interval # 0
      <4>1. state' \in Graded(state, 4, today) /\ 4 \in 2..4
        BY <3>1, <3>3 DEF MarkedKnown
      <4> QED
        BY <2>0, <4>1, GradedGrows
    <3> QED
      BY <3>2, <3>3
  <2>4. CASE Select
    <3>1. state' = [state EXCEPT !.due = today]
      BY <2>4 DEF Select, Selected
    <3>2. state'.interval = state.interval
      BY <2>0, <3>1 DEF ReviewState
    <3> QED
      BY <2>0, <3>2
  <2>5. CASE Wait
    BY <2>0, <2>5 DEF Wait
  <2> QED
    BY <2>1, <2>2, <2>3, <2>4, <2>5 DEF ReviewNext
<1> QED
  BY ReviewInvAlways, <1>1, PTL DEF ReviewSpec, SettledIntervalsGrow

----------------------------------------------------------------------------
(* Finite sets of numbers, and induction by the smallest counterexample *)

(* Every set of numbers has a least one. *)
LEMMA MinIs ==
  ASSUME NEW S \in SUBSET Nat, S # {}
  PROVE  Min(S) \in S /\ \A y \in S : Min(S) <= y
  <1>1. IsWellFoundedOn(OpToRel(<, Nat), Nat)
    BY NatLessThanWellFounded
  <1>2. \E x \in S : \A y \in S : <<y, x>> \notin OpToRel(<, Nat)
    BY <1>1, WFMin
  <1>3. \A x, y \in Nat : y < x => <<y, x>> \in OpToRel(<, Nat)
    BY DEF OpToRel
  <1>4. PICK x \in S : \A y \in S : ~(y < x)
    BY <1>2, <1>3
  <1>5. \A y \in S : x <= y
    BY <1>4
  <1>6. QED
    BY <1>5 DEF Min

(* What holds of 0, and of n + 1 with n, holds of every number. *)
LEMMA NatInd ==
  ASSUME NEW T, 0 \in T, \A n \in Nat : n \in T => n + 1 \in T
  PROVE  Nat \subseteq T
  <1>1. SUFFICES ASSUME Nat \ T # {} PROVE FALSE
    OBVIOUS
  <1>2. PICK x \in Nat \ T : \A y \in Nat \ T : x <= y
    BY <1>1, MinIs
  <1>3. x # 0 /\ x - 1 \in Nat /\ x - 1 \in T /\ x = (x - 1) + 1
    BY <1>2
  <1>4. QED
    BY <1>2, <1>3

(* What holds of a finite set when it holds of all its proper subsets      *)
(* holds of all.                                                           *)
LEMMA SubsetInd ==
  ASSUME NEW S, IsFiniteSet(S), NEW Good,
         \A T \in SUBSET S : (\A U \in SUBSET T : U # T => U \in Good) => T \in Good
  PROVE  SUBSET S \subseteq Good
  <1> DEFINE Bad == {T \in SUBSET S : T \notin Good}
  <1>1. SUFFICES ASSUME Bad # {} PROVE FALSE
    OBVIOUS
  <1>2. Bad \subseteq FiniteSubsetsOf(S)
    BY FS_FiniteSubsetsOfFinite
  <1>3. PICK T \in Bad : \A U \in Bad : <<U, T>> \notin StrictSubsetOrdering(S)
    <2> HIDE DEF Bad
    <2>1. QED
      BY <1>1, <1>2, WFMin, FS_StrictSubsetOrderingWellFounded
  <1>4. ASSUME NEW U \in SUBSET T, U # T PROVE U \in Good
    BY <1>3, <1>4 DEF StrictSubsetOrdering
  <1>5. QED
    BY <1>3, <1>4

(* Every finite set of numbers has a greatest one. *)
LEMMA MaxIs ==
  ASSUME NEW S \in SUBSET Nat, IsFiniteSet(S), S # {}
  PROVE  Max(S) \in S /\ \A y \in S : y <= Max(S)
  <1> DEFINE Good == {T \in SUBSET S : T # {} => \E x \in T : \A y \in T : x >= y}
  <1>1. ASSUME NEW T \in SUBSET S, \A U \in SUBSET T : U # T => U \in Good
        PROVE  T \in Good
    <2>1. SUFFICES ASSUME T # {} PROVE \E x \in T : \A y \in T : x >= y
      OBVIOUS
    <2>2. PICK z \in T : TRUE
      BY <2>1
    <2>3. T \ {z} \in Good
      BY <1>1, <2>2
    <2>4. CASE T \ {z} = {}
      BY <2>2, <2>4
    <2>5. CASE T \ {z} # {}
      <3>1. PICK x \in T \ {z} : \A y \in T \ {z} : x >= y
        BY <2>3, <2>5
      <3>2. x \in Nat /\ z \in Nat
        BY <2>2, <3>1
      <3>3. CASE x >= z
        BY <3>1, <3>3
      <3>4. CASE z >= x
        <4>1. \A y \in T : z >= y
          BY <3>1, <3>2, <3>4
        <4>2. QED
          BY <4>1
      <3>5. QED
        BY <3>2, <3>3, <3>4
    <2>6. QED
      BY <2>4, <2>5
  <1>2. S \in Good
    <2> HIDE DEF Good
    <2>1. QED
      BY <1>1, SubsetInd
  <1>3. \E x \in S : \A y \in S : x >= y
    BY <1>2
  <1>4. Max(S) \in S /\ \A y \in S : Max(S) >= y
    BY <1>3 DEF Max
  <1>5. QED
    BY <1>4

----------------------------------------------------------------------------
(* Logs: finite sets of events with different ids *)

IsEvent(e) ==
  /\ e = WithId(e, e.id, e.ts)
  /\ e.id \in Nat /\ e.ts \in Nat /\ e.kind \in Kinds
  /\ e.concept \in Concepts \union {NoConcept}
  /\ e.value \in 0..100
  /\ e.kind = "quiz_result" => e.grade \in Grades
  /\ e.concept = NoConcept => e.kind \in {"interview", "chat_note"}
  /\ IsFiniteSet(e.edges)
  /\ \A edge \in e.edges :
        edge.src \in Concepts \union {NoConcept} /\ edge.dst \in Concepts /\ edge.weight \in Nat

IsLog(S) ==
  /\ IsFiniteSet(S)
  /\ \A e \in S : IsEvent(e)
  /\ \A d, e \in S : d.id = e.id => d = e

Rest(S) == S \ {Latest(S)}

LEMMA PartOfLog ==
  ASSUME NEW S, IsLog(S), NEW T \in SUBSET S
  PROVE  IsLog(T)
  BY FS_Subset DEF IsLog

(* The order of a log is total. *)
LEMMA LogOrder ==
  ASSUME NEW S, IsLog(S), NEW c \in S, NEW d \in S, NEW e \in S
  PROVE  /\ d = e \/ Before(d, e) \/ Before(e, d)
         /\ ~(Before(d, e) /\ Before(e, d)) /\ ~Before(e, e)
         /\ Before(c, d) /\ Before(d, e) => Before(c, e)
  <1>1. /\ c.ts \in Nat /\ c.id \in Nat /\ d.ts \in Nat /\ d.id \in Nat
        /\ e.ts \in Nat /\ e.id \in Nat /\ (d.id = e.id => d = e)
    BY DEF IsLog, IsEvent
  <1>2. QED
    BY <1>1 DEF Before

LEMMA LatestIs ==
  ASSUME NEW S, IsLog(S), S # {}
  PROVE  Latest(S) \in S /\ \A d \in S : d = Latest(S) \/ Before(d, Latest(S))
  <1> DEFINE IsLast(e, T) == \A d \in T : d = e \/ Before(d, e)
             Good == {T \in SUBSET S : T # {} => \E e \in T : IsLast(e, T)}
  <1>0. IsFiniteSet(S)
    BY DEF IsLog
  <1>1. ASSUME NEW T \in SUBSET S, \A U \in SUBSET T : U # T => U \in Good
        PROVE  T \in Good
    <2>1. SUFFICES ASSUME T # {} PROVE \E e \in T : IsLast(e, T)
      OBVIOUS
    <2>2. PICK z \in T : TRUE
      BY <2>1
    <2>3. T \ {z} \in Good
      BY <1>1, <2>2
    <2>4. CASE T \ {z} = {}
      BY <2>2, <2>4
    <2>5. CASE T \ {z} # {}
      <3>1. PICK x \in T \ {z} : IsLast(x, T \ {z})
        BY <2>3, <2>5
      <3>2. CASE Before(z, x)
        BY <3>1, <3>2
      <3>3. CASE Before(x, z)
        <4>1. ASSUME NEW d \in T PROVE d = z \/ Before(d, z)
          <5>1. d = z \/ d = x \/ Before(d, x)
            BY <3>1, <4>1
          <5>2. QED
            BY <3>3, <5>1, LogOrder
        <4>2. QED
          BY <2>2, <4>1
      <3>4. Before(z, x) \/ Before(x, z)
        BY <3>1, LogOrder
      <3>5. QED
        BY <3>2, <3>3, <3>4
    <2>6. QED
      BY <2>4, <2>5
  <1>2. S \in Good
    <2> HIDE DEF Good
    <2>1. QED
      BY <1>0, <1>1, SubsetInd
  <1>3. \E e \in S : \A d \in S : d = e \/ Before(d, e)
    BY <1>2
  <1>4. QED
    BY <1>3 DEF Latest

(* An event after which no other comes is the latest. *)
LEMMA LatestUnique ==
  ASSUME NEW S, IsLog(S), NEW e \in S, \A d \in S : d = e \/ Before(d, e)
  PROVE  Latest(S) = e
  <1>1. Latest(S) \in S /\ (e = Latest(S) \/ Before(e, Latest(S)))
    BY LatestIs
  <1>2. QED
    BY <1>1, LogOrder

(* What holds of no events, and of a log when it holds of all but its      *)
(* latest event, holds of every log.                                       *)
LEMMA LogInd ==
  ASSUME NEW S, IsLog(S), NEW Good, {} \in Good,
         \A T \in SUBSET S : T # {} /\ Rest(T) \in Good => T \in Good
  PROVE  \A T \in SUBSET S : T \in Good
  <1>0. IsFiniteSet(S)
    BY DEF IsLog
  <1>1. ASSUME NEW T \in SUBSET S, \A U \in SUBSET T : U # T => U \in Good
        PROVE  T \in Good
    <2>1. CASE T = {}
      BY <2>1
    <2>2. CASE T # {}
      <3>1. Latest(T) \in T
        BY <2>2, PartOfLog, LatestIs
      <3>2. Rest(T) \in Good
        BY <1>1, <3>1 DEF Rest
      <3>3. QED
        BY <2>2, <3>2
    <2>3. QED
      BY <2>1, <2>2
  <1>2. QED
    BY <1>0, <1>1, SubsetInd

(* Going through a log in its order: some function gives what is reached   *)
(* after each of its parts.                                                *)
Passes(S, base, step, g) ==
  \A T \in SUBSET S : g[T] = IF T = {} THEN base ELSE step[<<Latest(T), g[Rest(T)]>>]

LEMMA PassExists ==
  ASSUME NEW S, IsLog(S), NEW V, NEW base \in V, NEW step \in [S \X V -> V]
  PROVE  \E g \in [SUBSET S -> V] : Passes(S, base, step, g)
  <1> DEFINE Next1(g) == [T \in SUBSET S |->
                            IF T = {} THEN base ELSE step[<<Latest(T), g[Rest(T)]>>]]
             Right(g, n) == \A T \in SUBSET S : Cardinality(T) <= n => g[T] = Next1(g)[T]
             Depths == {n \in Nat : \E g \in [SUBSET S -> V] : Right(g, n)}
  <1>0. IsFiniteSet(S)
    BY DEF IsLog
  <1>1. ASSUME NEW T \in SUBSET S
        PROVE  /\ Cardinality(T) \in Nat /\ (Cardinality(T) = 0 <=> T = {})
               /\ T # {} => /\ Latest(T) \in S /\ Rest(T) \in SUBSET S
                            /\ Cardinality(Rest(T)) = Cardinality(T) - 1
    <2>1. IsFiniteSet(T) /\ IsLog(T)
      BY <1>0, FS_Subset, PartOfLog
    <2>2. T # {} => Latest(T) \in T
      BY <2>1, LatestIs
    <2>3. QED
      BY <2>1, <2>2, FS_EmptySet, FS_CardinalityType, FS_RemoveElement DEF Rest
  <1>2. ASSUME NEW g \in [SUBSET S -> V]
        PROVE  Next1(g) \in [SUBSET S -> V]
    BY <1>1
  <1>3. ASSUME NEW g \in [SUBSET S -> V], NEW n \in Nat, Right(g, n)
        PROVE  Right(Next1(g), n + 1)
    <2>1. SUFFICES ASSUME NEW T \in SUBSET S, Cardinality(T) <= n + 1
                   PROVE  Next1(g)[T] = Next1(Next1(g))[T]
      OBVIOUS
    <2>2. CASE T = {}
      BY <2>2
    <2>3. CASE T # {}
      <3>1. Rest(T) \in SUBSET S /\ Cardinality(Rest(T)) <= n
        BY <1>1, <2>1, <2>3
      <3>2. g[Rest(T)] = Next1(g)[Rest(T)]
        BY <1>3, <3>1
      <3>3. QED
        BY <2>3, <3>1, <3>2
    <2>4. QED
      BY <2>2, <2>3
  <1>4. 0 \in Depths
    <2> DEFINE g == [T \in SUBSET S |-> base]
    <2>1. ASSUME NEW T \in SUBSET S, Cardinality(T) <= 0 PROVE T = {}
      <3>1. Cardinality(T) \in Nat /\ (Cardinality(T) = 0 <=> T = {})
        BY <1>1
      <3>2. QED
        BY <2>1, <3>1
    <2>2. Right(g, 0) /\ g \in [SUBSET S -> V]
      BY <2>1
    <2>3. QED
      BY <2>2
  <1>5. Nat \subseteq Depths
    <2>1. ASSUME NEW n \in Nat, n \in Depths PROVE n + 1 \in Depths
      <3>1. PICK g \in [SUBSET S -> V] : Right(g, n)
        BY <2>1
      <3> HIDE DEF Right, Next1
      <3>2. Right(Next1(g), n + 1)
        BY <1>3, <3>1
      <3>3. Next1(g) \in [SUBSET S -> V]
        BY <1>2
      <3>4. QED
        BY <3>2, <3>3
    <2> HIDE DEF Depths
    <2>2. QED
      BY <1>4, <2>1, NatInd
  <1>6. Cardinality(S) \in Depths
    BY <1>0, <1>5, FS_CardinalityType
  <1>7. PICK g \in [SUBSET S -> V] : Right(g, Cardinality(S))
    BY <1>6
  <1>8. \A T \in SUBSET S : Cardinality(T) <= Cardinality(S)
    BY <1>0, FS_Subset
  <1>9. \A T \in SUBSET S : g[T] = Next1(g)[T]
    BY <1>7, <1>8
  <1>10. QED
    BY <1>9 DEF Passes

----------------------------------------------------------------------------
(* The tables *)

ConceptRow == [status : Statuses, confidence : 0..100, first : Nat, touched : Nat]
EdgeRow == [weight : Nat, by : Nat]
EdgeKeys == Concepts \X Concepts \X EdgeTypes

IsConcepts(f) == DOMAIN f \subseteq Concepts /\ f \in [DOMAIN f -> ConceptRow]
IsEdges(f) == DOMAIN f \subseteq EdgeKeys /\ f \in [DOMAIN f -> EdgeRow]

Tables == [concepts : UNION {[D -> ConceptRow] : D \in SUBSET Concepts},
           edges : UNION {[D -> EdgeRow] : D \in SUBSET EdgeKeys}]

LEMMA TablesAre ==
  /\ \A t \in Tables : IsConcepts(t.concepts) /\ IsEdges(t.edges)
  /\ \A f, g : IsConcepts(f) /\ IsEdges(g) => [concepts |-> f, edges |-> g] \in Tables
  <1>1. \A f : f \in UNION {[D -> ConceptRow] : D \in SUBSET Concepts} <=> IsConcepts(f)
    BY DEF IsConcepts
  <1>2. \A f : f \in UNION {[D -> EdgeRow] : D \in SUBSET EdgeKeys} <=> IsEdges(f)
    BY DEF IsEdges
  <1>3. QED
    BY <1>1, <1>2 DEF Tables

(* The concept of an event, as a set. *)
Subject(e) == IF e.concept = NoConcept THEN {} ELSE {e.concept}
Named(e) == Subject(e) \union Endpoints(e)

LEMMA KeysFit ==
  ASSUME NEW e, IsEvent(e)
  PROVE  /\ KeysOf(e) \subseteq EdgeKeys
         /\ Endpoints(e) \subseteq Concepts /\ Subject(e) \subseteq Concepts
  <1>1. ASSUME NEW edge \in e.edges, Counts(edge, e) PROVE Key(edge, e) \in EdgeKeys
    <2>1. /\ edge.src \in Concepts \union {NoConcept} /\ edge.dst \in Concepts
          /\ e.concept \in Concepts \union {NoConcept}
      BY DEF IsEvent
    <2>2. Key(edge, e)[1] # NoConcept /\ edge.type \in EdgeTypes
      BY <1>1 DEF Counts, Key
    <2>3. QED
      BY <2>1, <2>2 DEF Key, EdgeKeys
  <1>2. KeysOf(e) \subseteq EdgeKeys
    BY <1>1 DEF KeysOf, EdgesOf
  <1>3. Endpoints(e) \subseteq Concepts
    BY <1>2 DEF Endpoints, EdgeKeys
  <1>4. QED
    BY <1>2, <1>3 DEF Subject, IsEvent

LEMMA MaxOfTwo ==
  ASSUME NEW a \in Nat, NEW b \in Nat
  PROVE  Max({a, b}) = IF a >= b THEN a ELSE b
  <1>1. IsFiniteSet({a, b})
    <2>1. IsFiniteSet({a} \union {b})
      BY FS_Singleton, FS_AddElement
    <2>2. {a} \union {b} = {a, b}
      OBVIOUS
    <2>3. QED
      BY <2>1, <2>2
  <1>2. Max({a, b}) \in {a, b} /\ \A y \in {a, b} : y <= Max({a, b})
    BY <1>1, MaxIs
  <1>3. QED
    BY <1>2

LEMMA WeightIs ==
  ASSUME NEW e, IsEvent(e), NEW k \in KeysOf(e)
  PROVE  WeightIn(e, k) \in Nat
  <1> DEFINE E == {x \in EdgesOf(e) : Key(x, e) = k}
             W == {edge.weight : edge \in E}
             f == [x \in E |-> x.weight]
  <1>1. E \in SUBSET e.edges /\ E # {} /\ IsFiniteSet(e.edges)
    BY DEF KeysOf, EdgesOf, IsEvent
  <1>2. IsFiniteSet(E)
    BY <1>1, FS_Subset
  <1>3. W \in SUBSET Nat /\ W # {}
    BY <1>1 DEF IsEvent
  <1>4. f \in Surjection(E, W)
    BY DEF Surjection
  <1>5. IsFiniteSet(W)
    BY <1>2, <1>4, FS_Surjection
  <1>6. Max(W) \in Nat
    BY <1>3, <1>5, MaxIs
  <1>7. QED
    BY <1>6 DEF WeightIn

(* A mention enters a concept or touches it, and changes nothing that is   *)
(* known of it.                                                            *)
LEMMA EnsureIs ==
  ASSUME NEW f, IsConcepts(f), NEW M \in SUBSET Concepts, NEW t \in Nat
  PROVE  /\ IsConcepts(Ensure(f, M, t)) /\ DOMAIN Ensure(f, M, t) = DOMAIN f \union M
         /\ \A c \in DOMAIN f : /\ Ensure(f, M, t)[c].status = f[c].status
                                /\ Ensure(f, M, t)[c].confidence = f[c].confidence
         /\ \A c \in M \ DOMAIN f : /\ Ensure(f, M, t)[c].status = "unknown"
                                    /\ Ensure(f, M, t)[c].confidence = 0
  <1>1. DOMAIN Ensure(f, M, t) = DOMAIN f \union M /\ DOMAIN f \subseteq Concepts
    BY DEF Ensure, IsConcepts
  <1>2. ASSUME NEW c \in DOMAIN f \union M, c \notin DOMAIN f
        PROVE  /\ Ensure(f, M, t)[c] \in ConceptRow /\ Ensure(f, M, t)[c].status = "unknown"
               /\ Ensure(f, M, t)[c].confidence = 0
    BY <1>2 DEF Ensure, NewConcept, ConceptRow, Statuses
  <1>3. ASSUME NEW c \in DOMAIN f
        PROVE  /\ Ensure(f, M, t)[c] \in ConceptRow
               /\ Ensure(f, M, t)[c].status = f[c].status
               /\ Ensure(f, M, t)[c].confidence = f[c].confidence
    <2>1. f[c] \in ConceptRow
      BY DEF IsConcepts
    <2>2. Ensure(f, M, t)[c] = IF c \in M THEN [f[c] EXCEPT !.touched = t] ELSE f[c]
      BY DEF Ensure
    <2>3. QED
      BY <2>1, <2>2 DEF ConceptRow
  <1>4. Ensure(f, M, t) = [c \in DOMAIN f \union M |-> Ensure(f, M, t)[c]]
    BY DEF Ensure
  <1>5. Ensure(f, M, t) \in [DOMAIN f \union M -> ConceptRow]
    <2>1. \A c \in DOMAIN f \union M : Ensure(f, M, t)[c] \in ConceptRow
      BY <1>2, <1>3
    <2>2. QED
      BY <1>4, <2>1
  <1>6. QED
    BY <1>1, <1>2, <1>3, <1>5 DEF IsConcepts

(* What the learner is held to know of a concept: nothing, before it is    *)
(* entered.                                                                *)
Known(t, c) ==
  IF c \in DOMAIN t.concepts
  THEN [status |-> t.concepts[c].status, confidence |-> t.concepts[c].confidence]
  ELSE [status |-> "unknown", confidence |-> 0]

Knowledge == [status : Statuses, confidence : 0..100]

LEMMA EffectIs ==
  ASSUME NEW e, IsEvent(e), NEW r \in ConceptRow, NEW v \in Knowledge,
         v.status = r.status, v.confidence = r.confidence
  PROVE  /\ Effect(r, e) \in ConceptRow /\ Effect(v, e) \in Knowledge
         /\ Effect(r, e).status = Effect(v, e).status
         /\ Effect(r, e).confidence = Effect(v, e).confidence
  <1>1. \A n \in Int : Percent(n) \in 0..100
    BY DEF Percent
  <1>2. e.value \in 0..100 /\ e.kind \in Kinds
    BY DEF IsEvent
  <1>3. Percent(e.value) \in 0..100 /\ Percent(r.confidence + e.value) \in 0..100
    <2>1. r.confidence \in 0..100
      BY DEF ConceptRow
    <2>2. e.value \in Int /\ r.confidence + e.value \in Int
      BY <1>2, <2>1
    <2>3. QED
      BY <1>1, <2>2
  <1>4. QED
    BY <1>2, <1>3 DEF Effect, ConceptRow, Knowledge, Statuses

LEMMA KnownIs ==
  ASSUME NEW t \in Tables, NEW c
  PROVE  Known(t, c) \in Knowledge
  <1>1. c \in DOMAIN t.concepts => t.concepts[c] \in ConceptRow
    BY TablesAre DEF IsConcepts
  <1>2. QED
    BY <1>1 DEF Known, Knowledge, ConceptRow, Statuses

LEMMA EffectOfKnown ==
  ASSUME NEW e, IsEvent(e), NEW v \in Knowledge
  PROVE  Effect(v, e) \in Knowledge
  <1> DEFINE r == [status |-> v.status, confidence |-> v.confidence, first |-> 0, touched |-> 0]
  <1>1. r \in ConceptRow
    BY DEF Knowledge, ConceptRow
  <1>2. v.status = r.status /\ v.confidence = r.confidence
    OBVIOUS
  <1> HIDE DEF r
  <1>3. QED
    BY <1>1, <1>2, EffectIs

(* A repeated edge keeps its first event and the greater weight. *)
LEMMA MergeIs ==
  ASSUME NEW f, IsEdges(f), NEW e, IsEvent(e)
  PROVE  /\ IsEdges(MergeEdges(f, e)) /\ DOMAIN MergeEdges(f, e) = DOMAIN f \union KeysOf(e)
         /\ \A k \in DOMAIN f \ KeysOf(e) : MergeEdges(f, e)[k] = f[k]
         /\ \A k \in KeysOf(e) \ DOMAIN f :
              MergeEdges(f, e)[k] = [weight |-> WeightIn(e, k), by |-> e.id]
         /\ \A k \in KeysOf(e) \intersect DOMAIN f :
              MergeEdges(f, e)[k] =
                [weight |-> IF f[k].weight >= WeightIn(e, k) THEN f[k].weight ELSE WeightIn(e, k),
                 by |-> f[k].by]
  <1> DEFINE g == MergeEdges(f, e)
             D == DOMAIN f \union KeysOf(e)
  <1>1. DOMAIN g = D /\ g = [k \in D |-> g[k]] /\ D \subseteq EdgeKeys
    BY KeysFit DEF MergeEdges, IsEdges
  <1>2. ASSUME NEW k \in DOMAIN f \ KeysOf(e) PROVE g[k] = f[k] /\ g[k] \in EdgeRow
    BY <1>2 DEF MergeEdges, IsEdges
  <1>3. ASSUME NEW k \in KeysOf(e) \ DOMAIN f
        PROVE  g[k] = [weight |-> WeightIn(e, k), by |-> e.id] /\ g[k] \in EdgeRow
    <2>1. g[k] = [weight |-> WeightIn(e, k), by |-> e.id]
      BY <1>3 DEF MergeEdges
    <2>2. WeightIn(e, k) \in Nat /\ e.id \in Nat
      BY WeightIs DEF IsEvent
    <2>3. QED
      BY <2>1, <2>2 DEF EdgeRow
  <1>4. ASSUME NEW k \in KeysOf(e) \intersect DOMAIN f
        PROVE  /\ g[k] =
                    [weight |-> IF f[k].weight >= WeightIn(e, k)
                                THEN f[k].weight ELSE WeightIn(e, k),
                     by |-> f[k].by]
               /\ g[k] \in EdgeRow
    <2>1. f[k] \in EdgeRow /\ WeightIn(e, k) \in Nat
      BY WeightIs DEF IsEdges
    <2>2. PICK w \in Nat, n \in Nat : f[k] = [weight |-> w, by |-> n]
      BY <2>1 DEF EdgeRow
    <2>3. g[k] = [f[k] EXCEPT !.weight = Max({f[k].weight, WeightIn(e, k)})]
      BY <1>4 DEF MergeEdges
    <2>4. Max({w, WeightIn(e, k)}) = IF w >= WeightIn(e, k) THEN w ELSE WeightIn(e, k)
      BY <2>1, MaxOfTwo
    <2>5. g[k] = [weight |-> IF w >= WeightIn(e, k) THEN w ELSE WeightIn(e, k), by |-> n]
      BY <2>2, <2>3, <2>4
    <2>6. QED
      BY <2>1, <2>2, <2>5 DEF EdgeRow
  <1>5. g \in [D -> EdgeRow]
    <2>1. \A k \in D : g[k] \in EdgeRow
      BY <1>2, <1>3, <1>4
    <2>2. QED
      BY <1>1, <2>1
  <1>6. QED
    BY <1>1, <1>2, <1>3, <1>4, <1>5 DEF IsEdges

(* One turn of the loop: an event enters the concepts that it names and    *)
(* changes what is known of its own.                                       *)
LEMMA ApplyIs ==
  ASSUME NEW t \in Tables, NEW e, IsEvent(e)
  PROVE  /\ ApplyEvent(t, e) \in Tables
         /\ DOMAIN ApplyEvent(t, e).concepts = DOMAIN t.concepts \union Named(e)
         /\ ApplyEvent(t, e).edges = MergeEdges(t.edges, e)
         /\ \A c \in Concepts : Known(ApplyEvent(t, e), c) =
                                  IF e.concept = c THEN Effect(Known(t, c), e) ELSE Known(t, c)
  <1> DEFINE about == Subject(e)
             touched == Ensure(t.concepts, about, e.ts)
             changed == [c \in DOMAIN touched |->
                           IF c \in about THEN Effect(touched[c], e) ELSE touched[c]]
             final == Ensure(changed, Endpoints(e), e.ts)
  <1>1. ApplyEvent(t, e) = [concepts |-> final, edges |-> MergeEdges(t.edges, e)]
    BY DEF ApplyEvent, Subject
  <1>2. /\ IsConcepts(t.concepts) /\ IsEdges(t.edges) /\ e.ts \in Nat
        /\ about \in SUBSET Concepts /\ Endpoints(e) \in SUBSET Concepts
    BY TablesAre, KeysFit DEF IsEvent
  <1>3. /\ IsConcepts(touched) /\ DOMAIN touched = DOMAIN t.concepts \union about
        /\ \A c \in DOMAIN t.concepts : /\ touched[c].status = t.concepts[c].status
                                        /\ touched[c].confidence = t.concepts[c].confidence
        /\ \A c \in about \ DOMAIN t.concepts : /\ touched[c].status = "unknown"
                                                /\ touched[c].confidence = 0
    <2> HIDE DEF about
    <2>1. QED
      BY <1>2, EnsureIs
  <1>4. ASSUME NEW c \in about
        PROVE  /\ Effect(touched[c], e) \in ConceptRow
               /\ Effect(touched[c], e).status = Effect(Known(t, c), e).status
               /\ Effect(touched[c], e).confidence = Effect(Known(t, c), e).confidence
    <2>1. touched[c] \in ConceptRow
      BY <1>3 DEF IsConcepts
    <2>2. Known(t, c) \in Knowledge
      BY KnownIs
    <2>3. Known(t, c).status = touched[c].status /\ Known(t, c).confidence = touched[c].confidence
      BY <1>3 DEF Known
    <2> HIDE DEF touched, about
    <2>4. QED
      BY <2>1, <2>2, <2>3, EffectIs
  <1>5. IsConcepts(changed) /\ DOMAIN changed = DOMAIN t.concepts \union about
    <2>1. ASSUME NEW c \in DOMAIN touched PROVE changed[c] \in ConceptRow
      <3>1. touched[c] \in ConceptRow
        BY <1>3 DEF IsConcepts
      <3>2. QED
        BY <1>4, <3>1
    <2>2. changed \in [DOMAIN touched -> ConceptRow] /\ DOMAIN touched \subseteq Concepts
      BY <1>3, <2>1 DEF IsConcepts
    <2>3. QED
      BY <1>3, <2>2 DEF IsConcepts
  <1>6. /\ IsConcepts(final) /\ DOMAIN final = DOMAIN changed \union Endpoints(e)
        /\ \A c \in DOMAIN changed : /\ final[c].status = changed[c].status
                                     /\ final[c].confidence = changed[c].confidence
        /\ \A c \in Endpoints(e) \ DOMAIN changed : /\ final[c].status = "unknown"
                                                    /\ final[c].confidence = 0
    <2>1. IsConcepts(changed) /\ Endpoints(e) \in SUBSET Concepts /\ e.ts \in Nat
      BY <1>2, <1>5
    <2> HIDE DEF changed, touched, about
    <2>2. QED
      BY <2>1, EnsureIs
  <1>7. IsEdges(MergeEdges(t.edges, e))
    BY <1>2, MergeIs
  <1>8. ApplyEvent(t, e) \in Tables
    <2> HIDE DEF final
    <2>1. QED
      BY <1>1, <1>6, <1>7, TablesAre
  <1>9. DOMAIN final = DOMAIN t.concepts \union Named(e)
    <2> HIDE DEF final, changed
    <2>1. QED
      BY <1>5, <1>6 DEF Named
  <1>10. ASSUME NEW c \in Concepts
         PROVE  Known(ApplyEvent(t, e), c) =
                  IF e.concept = c THEN Effect(Known(t, c), e) ELSE Known(t, c)
    <2> DEFINE K == Known(ApplyEvent(t, e), c)
    <2>1. K = IF c \in DOMAIN final
              THEN [status |-> final[c].status, confidence |-> final[c].confidence]
              ELSE [status |-> "unknown", confidence |-> 0]
      <3> HIDE DEF final
      <3>1. QED
        BY <1>1 DEF Known
    <2>2. CASE c \in about
      <3>1. e.concept = c
        BY <2>2 DEF Subject
      <3>2. changed[c] = Effect(touched[c], e) /\ c \in DOMAIN changed
        BY <1>3, <2>2
      <3>3. Effect(Known(t, c), e) \in Knowledge
        BY <1>4, <2>2, KnownIs, EffectOfKnown
      <3>4. K = [status |-> Effect(Known(t, c), e).status,
                 confidence |-> Effect(Known(t, c), e).confidence]
        <4> HIDE DEF changed, touched, final
        <4>1. QED
          BY <1>4, <1>6, <2>1, <2>2, <3>2
      <3>5. QED
        BY <3>1, <3>3, <3>4 DEF Knowledge
    <2>3. CASE c \notin about
      <3>1. e.concept # c
        BY NoConceptAssumption, <2>3 DEF Subject
      <3>2. c \in DOMAIN t.concepts =>
              /\ c \in DOMAIN changed
              /\ changed[c].status = t.concepts[c].status
              /\ changed[c].confidence = t.concepts[c].confidence
        BY <1>3, <2>3
      <3>3. c \in DOMAIN changed <=> c \in DOMAIN t.concepts
        BY <1>5, <2>3
      <3>4. K = Known(t, c)
        <4> HIDE DEF changed, touched, final
        <4>1. QED
          BY <1>6, <2>1, <3>2, <3>3 DEF Known
      <3>5. QED
        BY <3>1, <3>4
    <2>4. QED
      BY <2>2, <2>3
  <1>11. QED
    <2> HIDE DEF final
    <2>1. QED
      BY <1>1, <1>8, <1>9, <1>10

(* derive() takes the events in their order: the tables of a log are those *)
(* of all but its latest event, and then that one.                         *)
DerivePass(S, g) ==
  g = [T \in SUBSET S |->
         IF T = {} THEN EmptyTables ELSE ApplyEvent(g[T \ {Latest(T)}], Latest(T))]

LEMMA DerivePassIs ==
  ASSUME NEW S, IsLog(S)
  PROVE  \E g \in [SUBSET S -> Tables] : DerivePass(S, g)
  <1> DEFINE step == [p \in S \X Tables |-> ApplyEvent(p[2], p[1])]
             none == EmptyTables
  <1>1. none \in Tables
    <2>1. IsConcepts(<< >>) /\ IsEdges(<< >>)
      BY DEF IsConcepts, IsEdges
    <2>2. QED
      BY <2>1, TablesAre DEF EmptyTables
  <1>2. step \in [S \X Tables -> Tables]
    BY ApplyIs DEF IsLog
  <1>3. \A e \in S, t \in Tables : step[<<e, t>>] = ApplyEvent(t, e)
    OBVIOUS
  <1> HIDE DEF step, none
  <1>4. PICK g \in [SUBSET S -> Tables] : Passes(S, none, step, g)
    BY <1>1, <1>2, PassExists
  <1>5. ASSUME NEW T \in SUBSET S
        PROVE  g[T] = IF T = {} THEN EmptyTables ELSE ApplyEvent(g[T \ {Latest(T)}], Latest(T))
    <2>1. CASE T = {}
      BY <1>4, <2>1 DEF Passes, none
    <2>2. CASE T # {}
      <3>1. Latest(T) \in S /\ Rest(T) \in SUBSET S
        BY <2>2, PartOfLog, LatestIs DEF Rest
      <3>2. g[T] = step[<<Latest(T), g[Rest(T)]>>]
        BY <1>4, <2>2 DEF Passes
      <3>3. g[T] = ApplyEvent(g[Rest(T)], Latest(T))
        BY <1>3, <3>1, <3>2
      <3>4. QED
        BY <2>2, <3>3 DEF Rest
    <2>3. QED
      BY <2>1, <2>2
  <1>6. QED
    BY <1>4, <1>5 DEF DerivePass

LEMMA DeriveIs ==
  ASSUME NEW S, IsLog(S)
  PROVE  /\ DeriveFrom(S) \in Tables
         /\ S = {} => DeriveFrom(S) = EmptyTables
         /\ S # {} => DeriveFrom(S) = ApplyEvent(DeriveFrom(Rest(S)), Latest(S))
  <1> DEFINE Pass(U) == CHOOSE g : DerivePass(U, g)
  <1>1. \A U : DeriveFrom(U) = Pass(U)[U]
    BY DEF DeriveFrom, DerivePass
  <1>2. PICK g \in [SUBSET S -> Tables] : DerivePass(S, g)
    BY DerivePassIs
  <1>3. ASSUME NEW U \in SUBSET S PROVE \A T \in SUBSET U : Pass(U)[T] = g[T]
    <2> DEFINE h == Pass(U)
               Good == {T \in SUBSET U : h[T] = g[T]}
    <2>1. IsLog(U)
      BY PartOfLog
    <2>2. DerivePass(U, h)
      BY <2>1, DerivePassIs
    <2> HIDE DEF h
    <2>3. ASSUME NEW T \in SUBSET U
          PROVE  /\ h[T] = IF T = {} THEN EmptyTables
                           ELSE ApplyEvent(h[Rest(T)], Latest(T))
                 /\ g[T] = IF T = {} THEN EmptyTables
                           ELSE ApplyEvent(g[Rest(T)], Latest(T))
      BY <1>2, <2>2 DEF DerivePass, Rest
    <2>4. {} \in Good
      BY <2>3
    <2>5. ASSUME NEW T \in SUBSET U, T # {}, Rest(T) \in Good PROVE T \in Good
      BY <2>3, <2>5
    <2>6. \A T \in SUBSET U : T \in Good
      <3> HIDE DEF Good
      <3>1. QED
        BY <2>1, <2>4, <2>5, LogInd
    <2>7. QED
      BY <2>6 DEF h
  <1> HIDE DEF Pass
  <1>4. Rest(S) \in SUBSET S
    BY DEF Rest
  <1>5. DeriveFrom(S) = g[S] /\ DeriveFrom(Rest(S)) = g[Rest(S)]
    BY <1>1, <1>3, <1>4
  <1>6. g[S] = IF S = {} THEN EmptyTables ELSE ApplyEvent(g[Rest(S)], Latest(S))
    BY <1>2 DEF DerivePass, Rest
  <1>7. QED
    BY <1>5, <1>6

----------------------------------------------------------------------------
(* The schedule *)

Reviewed == {s \in ReviewState : s.interval \in 1..MaxIntervalDays}
IsSchedule(f) == DOMAIN f \subseteq Concepts /\ f \in [DOMAIN f -> Reviewed]
Schedules == UNION {[D -> Reviewed] : D \in SUBSET Concepts}

LEMMA SchedulesAre == \A f : f \in Schedules <=> IsSchedule(f)
  BY DEF Schedules, IsSchedule

(* A review leaves one interval, or the two neighbours of a tie. *)
OneOrTwo(S) == \E a, b : S = {a, b}

LEMMA IntervalsAreFew ==
  ASSUME NEW s \in ReviewState, NEW grade \in Grades
  PROVE  OneOrTwo(Intervals(s, grade))
  <1> DEFINE p == Greatest(1, s.interval)
             good == p * s.ease
             easy == p * s.ease * 13
             hard == (p * 12 + 9) \div 10
  <1>1. ASSUME NEW x, NEW d PROVE OneOrTwo(Rounded(x, d))
    <2> DEFINE n == (2 * x + d) \div (2 * d)
               m == n - 1
               tie == (2 * x + d) % (2 * d) = 0
    <2>1. Rounded(x, d) = {n} \union (IF tie THEN {m} ELSE {})
      BY DEF Rounded
    <2> HIDE DEF n, m, tie
    <2>2. Rounded(x, d) = {n, m} \/ Rounded(x, d) = {n, n}
      BY <2>1
    <2>3. QED
      BY <2>2 DEF OneOrTwo
  <1>2. ASSUME NEW n PROVE OneOrTwo({n})
    <2>1. {n} = {n, n}
      OBVIOUS
    <2>2. QED
      BY <2>1 DEF OneOrTwo
  <1>3. OneOrTwo({1}) /\ OneOrTwo({3}) /\ OneOrTwo({7})
    BY <1>2
  <1> HIDE DEF p
  <1>4. OneOrTwo({hard})
    BY <1>2
  <1>5. OneOrTwo(Rounded(good, 100)) /\ OneOrTwo(Rounded(easy, 1000))
    BY <1>1
  <1>6. /\ grade = 1 \/ grade = 2 \/ grade = 3 \/ grade = 4
        /\ s.reps = 0 \/ s.reps = 1 \/ (s.reps > 1 /\ s.reps # 0 /\ s.reps # 1)
    BY DEF Grades, ReviewState
  <1>7. \/ Intervals(s, grade) \in {{1}, {3}, {7}, {hard}}
        \/ Intervals(s, grade) \in {Rounded(good, 100), Rounded(easy, 1000)}
    BY <1>6 DEF Intervals, p
  <1> HIDE DEF hard, good, easy
  <1>8. QED
    BY <1>3, <1>4, <1>5, <1>7

(* One of them is the longest. *)
LEMMA ChoiceIs ==
  ASSUME NEW s \in ReviewState, NEW grade \in Grades, NEW day \in Nat
  PROVE  Choice(Graded(s, grade, day)) \in Graded(s, grade, day)
  <1> DEFINE St(n) == [interval |-> ClampInterval(n), reps |-> Repetitions(s, grade),
                       ease |-> Ease(s, grade), due |-> day + ClampInterval(n),
                       grade |-> grade]
             G == Graded(s, grade, day)
  <1>1. PICK a, b : Intervals(s, grade) = {a, b} /\ a \in Int /\ b \in Int
    BY IntervalsAreFew, IntervalsAreInts DEF OneOrTwo
  <1>2. G = {St(n) : n \in Intervals(s, grade)}
    BY DEF Graded
  <1>3. St(a).interval \in Int /\ St(b).interval \in Int
    <2>1. ClampInterval(a) \in 1..MaxIntervalDays /\ ClampInterval(b) \in 1..MaxIntervalDays
      BY <1>1, Clamps
    <2>2. QED
      BY <2>1 DEF MaxIntervalDays
  <1> HIDE DEF St
  <1>4. G = {St(a), St(b)}
    BY <1>1, <1>2
  <1> HIDE DEF G
  <1>5. St(a).interval <= St(b).interval \/ St(b).interval <= St(a).interval
    BY <1>3
  <1>6. \E x \in G : \A r \in G : r.interval <= x.interval
    <2>1. St(a).interval <= St(a).interval /\ St(b).interval <= St(b).interval
      BY <1>3
    <2>2. QED
      BY <1>4, <1>5, <2>1
  <1>7. Choice(G) \in G
    BY <1>6 DEF Choice
  <1>8. QED
    BY <1>7 DEF G

(* One turn of review_schedule's loop: the three kinds that begin a state  *)
(* enter their concept, no event removes one.                              *)
LEMMA ReviewIs ==
  ASSUME NEW f, IsSchedule(f), NEW e, IsEvent(e)
  PROVE  /\ IsSchedule(Review(f, e))
         /\ DOMAIN Review(f, e) =
              DOMAIN f \union (IF e.kind \in Reviews THEN {e.concept} ELSE {})
  <1> DEFINE c == e.concept
             old == IF c \in DOMAIN f THEN f[c] ELSE NoReview
             new == CASE e.kind = "marked_known" -> Choice(MarkedKnown(old, Day(e.ts)))
                      [] e.kind = "task_done" -> Choice(Graded(old, 3, Day(e.ts)))
                      [] e.kind = "quiz_result" -> Choice(Graded(old, e.grade, Day(e.ts)))
                      [] e.kind = "selected" -> Choice(Selected(old, Day(e.ts)))
             skip == \/ c = NoConcept
                     \/ e.kind \notin Reviews \union {"selected"}
                     \/ e.kind = "selected" /\ c \notin DOMAIN f
  <1>1. Review(f, e) = IF skip THEN f
                       ELSE [d \in DOMAIN f \union {c} |-> IF d = c THEN new ELSE f[d]]
    BY DEF Review
  <1>2. Day(e.ts) \in Nat
    BY DEF Day, IsEvent
  <1>3. old \in ReviewState /\ (c \in DOMAIN f => old.interval \in 1..MaxIntervalDays)
    <2>1. NoReview \in ReviewState
      BY DEF NoReview, ReviewState, InitialEase, MinEase, MaxEase, MaxIntervalDays
    <2>2. c \in DOMAIN f => f[c] \in Reviewed
      BY DEF IsSchedule
    <2>3. QED
      BY <2>1, <2>2 DEF Reviewed
  <1> HIDE DEF old
  <1>4. \A g \in Grades : Choice(Graded(old, g, Day(e.ts))) \in Reviewed
    <2>1. ASSUME NEW g \in Grades PROVE Choice(Graded(old, g, Day(e.ts))) \in Reviewed
      <3>1. Choice(Graded(old, g, Day(e.ts))) \in Graded(old, g, Day(e.ts))
        BY <1>2, <1>3, ChoiceIs
      <3>2. QED
        BY <1>2, <1>3, <3>1, GradedFits DEF Reviewed
    <2>2. QED
      BY <2>1
  <1>5. ASSUME ~skip PROVE new \in Reviewed
    <2>1. CASE e.kind = "marked_known"
      <3>1. CASE old.interval = 0
        <4> DEFINE m == [old EXCEPT !.interval = MarkedKnownIntervalDays, !.reps = 1,
                                    !.due = Day(e.ts) + MarkedKnownIntervalDays, !.grade = 4]
        <4>1. MarkedKnown(old, Day(e.ts)) = {m}
          BY <3>1 DEF MarkedKnown
        <4>2. m.interval = 7
          BY <1>3 DEF ReviewState, MarkedKnownIntervalDays
        <4> HIDE DEF m
        <4>3. Choice({m}) = m
          <5>1. m.interval <= m.interval
            BY <4>2
          <5>2. QED
            BY <5>1 DEF Choice
        <4>4. m \in Reviewed
          BY <1>2, <1>3, <4>1, MarkedKnownFits DEF Reviewed
        <4>5. QED
          BY <2>1, <4>1, <4>3, <4>4
      <3>2. CASE old.interval # 0
        <4>1. MarkedKnown(old, Day(e.ts)) = Graded(old, 4, Day(e.ts)) /\ 4 \in Grades
          BY <3>2 DEF MarkedKnown, Grades
        <4>2. QED
          BY <1>4, <2>1, <4>1
      <3>3. QED
        BY <3>1, <3>2
    <2>2. CASE e.kind = "task_done"
      <3>1. 3 \in Grades
        BY DEF Grades
      <3>2. QED
        BY <1>4, <2>2, <3>1
    <2>3. CASE e.kind = "quiz_result"
      <3>1. e.grade \in Grades
        BY <2>3 DEF IsEvent
      <3>2. QED
        BY <1>4, <2>3, <3>1
    <2>4. CASE e.kind = "selected"
      <3> DEFINE m == [old EXCEPT !.due = Day(e.ts)]
      <3>1. Selected(old, Day(e.ts)) = {m} /\ c \in DOMAIN f
        BY <1>5, <2>4 DEF Selected
      <3>2. m \in ReviewState /\ m.interval = old.interval
        BY <1>2, <1>3 DEF ReviewState
      <3> HIDE DEF m
      <3>3. m \in Reviewed /\ m.interval \in Int
        BY <1>3, <3>1, <3>2 DEF Reviewed, MaxIntervalDays
      <3>4. Choice({m}) = m
        <4>1. m.interval <= m.interval
          BY <3>3
        <4>2. QED
          BY <4>1 DEF Choice
      <3>5. QED
        BY <2>4, <3>1, <3>3, <3>4
    <2>5. QED
      BY <1>5, <2>1, <2>2, <2>3, <2>4 DEF Reviews
  <1> HIDE DEF new
  <1>6. c \in Concepts \union {NoConcept}
    BY DEF IsEvent
  <1>7. CASE skip
    <2>1. e.kind \notin Reviews
      BY <1>7 DEF IsEvent, Reviews
    <2>2. QED
      BY <1>1, <1>7, <2>1
  <1>8. CASE ~skip
    <2>1. Review(f, e) = [d \in DOMAIN f \union {c} |-> IF d = c THEN new ELSE f[d]]
      BY <1>1, <1>8
    <2>2. c \in Concepts /\ (e.kind \in Reviews \/ c \in DOMAIN f)
      BY <1>6, <1>8
    <2>3. \A d \in DOMAIN f : f[d] \in Reviewed
      BY DEF IsSchedule
    <2>4. Review(f, e) \in [DOMAIN f \union {c} -> Reviewed]
      BY <1>5, <1>8, <2>1, <2>3
    <2>5. DOMAIN Review(f, e) = DOMAIN f \union {c}
      BY <2>1
    <2>6. IsSchedule(Review(f, e))
      BY <2>2, <2>4, <2>5 DEF IsSchedule
    <2>7. e.kind \notin Reviews => c \in DOMAIN f
      BY <2>2
    <2>8. QED
      BY <2>5, <2>6, <2>7
  <1>9. QED
    BY <1>7, <1>8

(* review_schedule() takes the events in their order, too. *)
SchedulePass(S, g) ==
  g = [T \in SUBSET S |->
         IF T = {} THEN << >> ELSE Review(g[T \ {Latest(T)}], Latest(T))]

LEMMA SchedulePassIs ==
  ASSUME NEW S, IsLog(S)
  PROVE  \E g \in [SUBSET S -> Schedules] : SchedulePass(S, g)
  <1> DEFINE step == [p \in S \X Schedules |-> Review(p[2], p[1])]
             none == << >>
  <1>1. none \in Schedules
    <2>1. none \in [{} -> Reviewed] /\ {} \in SUBSET Concepts
      OBVIOUS
    <2> HIDE DEF none
    <2>2. QED
      BY <2>1 DEF Schedules
  <1>2. step \in [S \X Schedules -> Schedules]
    BY ReviewIs, SchedulesAre DEF IsLog
  <1>3. \A e \in S, t \in Schedules : step[<<e, t>>] = Review(t, e)
    OBVIOUS
  <1> HIDE DEF step, none
  <1>4. PICK g \in [SUBSET S -> Schedules] : Passes(S, none, step, g)
    BY <1>1, <1>2, PassExists
  <1>5. ASSUME NEW T \in SUBSET S
        PROVE  g[T] = IF T = {} THEN << >> ELSE Review(g[T \ {Latest(T)}], Latest(T))
    <2>1. CASE T = {}
      BY <1>4, <2>1 DEF Passes, none
    <2>2. CASE T # {}
      <3>1. Latest(T) \in S /\ Rest(T) \in SUBSET S
        BY <2>2, PartOfLog, LatestIs DEF Rest
      <3>2. g[T] = step[<<Latest(T), g[Rest(T)]>>]
        BY <1>4, <2>2 DEF Passes
      <3>3. g[T] = Review(g[Rest(T)], Latest(T))
        BY <1>3, <3>1, <3>2
      <3>4. QED
        BY <2>2, <3>3 DEF Rest
    <2>3. QED
      BY <2>1, <2>2
  <1>6. QED
    BY <1>4, <1>5 DEF SchedulePass

LEMMA ScheduleIs ==
  ASSUME NEW S, IsLog(S)
  PROVE  /\ ScheduleFrom(S) \in Schedules
         /\ S = {} => ScheduleFrom(S) = << >>
         /\ S # {} => ScheduleFrom(S) = Review(ScheduleFrom(Rest(S)), Latest(S))
  <1> DEFINE Pass(U) == CHOOSE g : SchedulePass(U, g)
  <1>1. \A U : ScheduleFrom(U) = Pass(U)[U]
    BY DEF ScheduleFrom, SchedulePass
  <1>2. PICK g \in [SUBSET S -> Schedules] : SchedulePass(S, g)
    BY SchedulePassIs
  <1>3. ASSUME NEW U \in SUBSET S PROVE \A T \in SUBSET U : Pass(U)[T] = g[T]
    <2> DEFINE h == Pass(U)
               Good == {T \in SUBSET U : h[T] = g[T]}
    <2>1. IsLog(U)
      BY PartOfLog
    <2>2. SchedulePass(U, h)
      BY <2>1, SchedulePassIs
    <2> HIDE DEF h
    <2>3. ASSUME NEW T \in SUBSET U
          PROVE  /\ h[T] = IF T = {} THEN << >>
                           ELSE Review(h[Rest(T)], Latest(T))
                 /\ g[T] = IF T = {} THEN << >>
                           ELSE Review(g[Rest(T)], Latest(T))
      BY <1>2, <2>2 DEF SchedulePass, Rest
    <2>4. {} \in Good
      BY <2>3
    <2>5. ASSUME NEW T \in SUBSET U, T # {}, Rest(T) \in Good PROVE T \in Good
      BY <2>3, <2>5
    <2>6. \A T \in SUBSET U : T \in Good
      <3> HIDE DEF Good
      <3>1. QED
        BY <2>1, <2>4, <2>5, LogInd
    <2>7. QED
      BY <2>6 DEF h
  <1> HIDE DEF Pass
  <1>4. Rest(S) \in SUBSET S
    BY DEF Rest
  <1>5. ScheduleFrom(S) = g[S] /\ ScheduleFrom(Rest(S)) = g[Rest(S)]
    BY <1>1, <1>3, <1>4
  <1>6. g[S] = IF S = {} THEN << >> ELSE Review(g[Rest(S)], Latest(S))
    BY <1>2 DEF SchedulePass, Rest
  <1>7. QED
    BY <1>5, <1>6

----------------------------------------------------------------------------
(* What a log says of the status of a concept *)

(* StatusOf, of the events about a concept. *)
Meaning(A) ==
  LET decisive == {e \in A : e.kind \in {"quiz_result", "marked_known"}}
      last == Latest(decisive)
      known == last.kind = "marked_known" \/ last.value >= 80
      chosen == \E e \in A : e.kind = "selected" /\ Before(last, e)
      Some(kind) == \E e \in A : e.kind = kind
  IN CASE decisive = {} /\ Some("task_created") -> "learning"
       [] decisive = {} /\ ~Some("task_created") ->
            IF Some("selected") THEN "queued" ELSE "unknown"
       [] decisive # {} /\ ~known -> "learning"
       [] decisive # {} /\ known -> IF chosen THEN "review" ELSE "learned"

LEMMA StatusOfIs == \A c, S : StatusOf(c, S) = Meaning({e \in S : e.concept = c})
  BY DEF StatusOf, Meaning

(* A later event changes the status as its effect does. *)
LEMMA MeaningStep ==
  ASSUME NEW A, NEW e, IsLog(A \union {e}), e \notin A, \A d \in A : Before(d, e),
         NEW v \in Knowledge, v.status = Meaning(A)
  PROVE  Meaning(A \union {e}) = Effect(v, e).status
  <1> DEFINE B == A \union {e}
             Dec(X) == {d \in X : d.kind \in {"quiz_result", "marked_known"}}
             IsKnown(d) == d.kind = "marked_known" \/ d.value >= 80
             Chosen(X, last) == \E d \in X : d.kind = "selected" /\ Before(last, d)
             Some(X, kind) == \E d \in X : d.kind = kind
             Cases(X, D, last, m) ==
               /\ D = {} /\ Some(X, "task_created") => m = "learning"
               /\ D = {} /\ ~Some(X, "task_created") /\ Some(X, "selected") => m = "queued"
               /\ D = {} /\ ~Some(X, "task_created") /\ ~Some(X, "selected") => m = "unknown"
               /\ D # {} /\ ~IsKnown(last) => m = "learning"
               /\ D # {} /\ IsKnown(last) /\ Chosen(X, last) => m = "review"
               /\ D # {} /\ IsKnown(last) /\ ~Chosen(X, last) => m = "learned"
  <1>1. \A X : Cases(X, Dec(X), Latest(Dec(X)), Meaning(X))
    BY DEF Meaning
  <1>2. /\ Cases(A, Dec(A), Latest(Dec(A)), Meaning(A))
        /\ Cases(B, Dec(B), Latest(Dec(B)), Meaning(B))
    BY <1>1
  <1>3. IsEvent(e) /\ e.kind \in Kinds /\ e.value \in 0..100
    BY DEF IsLog, IsEvent
  <1>4. CASE e.kind \in {"quiz_result", "marked_known"}
    <2>1. Dec(B) = Dec(A) \union {e}
      BY <1>4
    <2>2. IsLog(Dec(B)) /\ e \in Dec(B) /\ Dec(B) # {}
      BY <2>1, PartOfLog
    <2>3. \A d \in Dec(B) : d = e \/ Before(d, e)
      BY <2>1
    <2>4. Latest(Dec(B)) = e
      BY <2>2, <2>3, LatestUnique
    <2>5. ~Chosen(B, e)
      <3>1. ASSUME NEW d \in A PROVE ~Before(e, d)
        <4>1. d \in B /\ e \in B /\ Before(d, e)
          OBVIOUS
        <4>2. QED
          BY <4>1, LogOrder
      <3>2. QED
        BY <1>4, <3>1
    <2>6. Meaning(B) = IF IsKnown(e) THEN "learned" ELSE "learning"
      BY <1>2, <2>2, <2>4, <2>5
    <2>7. Percent(e.value) = e.value
      BY <1>3 DEF Percent
    <2>8. Effect(v, e).status = IF IsKnown(e) THEN "learned" ELSE "learning"
      <3>1. CASE e.kind = "marked_known"
        BY <3>1 DEF Effect, Knowledge
      <3>2. CASE e.kind = "quiz_result"
        BY <2>7, <3>2 DEF Effect, Knowledge
      <3>3. QED
        BY <1>4, <3>1, <3>2
    <2>9. QED
      BY <2>6, <2>8
  <1>5. CASE e.kind \notin {"quiz_result", "marked_known"}
    <2>1. Dec(B) = Dec(A)
      BY <1>5
    <2>2. Dec(A) # {} => Before(Latest(Dec(A)), e)
      <3>1. IsLog(Dec(A))
        BY PartOfLog
      <3>2. QED
        BY <3>1, LatestIs
    <2> DEFINE last == Latest(Dec(A))
               D == Dec(A)
    <2>3. Cases(A, D, last, v.status) /\ Cases(B, D, last, Meaning(B))
      BY <1>2, <2>1
    <2>4. /\ Some(B, "task_created") <=> Some(A, "task_created") \/ e.kind = "task_created"
          /\ Some(B, "selected") <=> Some(A, "selected") \/ e.kind = "selected"
          /\ D # {} => (Chosen(B, last) <=> Chosen(A, last) \/ e.kind = "selected")
      BY <2>2
    <2>5. v.status \in Statuses
      BY DEF Knowledge
    <2>6. Effect(v, e).status =
            CASE e.kind = "selected" /\ v.status = "learned" -> "review"
              [] e.kind = "selected" /\ v.status = "unknown" -> "queued"
              [] e.kind = "task_created" /\ v.status \in {"unknown", "queued"} -> "learning"
              [] OTHER -> v.status
      BY <1>3, <1>5 DEF Effect, Knowledge, Kinds
    <2> DEFINE tA == Some(A, "task_created")  sA == Some(A, "selected")
               kn == IsKnown(last)  ch == Chosen(A, last)  nil == D = {}
               tB == Some(B, "task_created")  sB == Some(B, "selected")  cB == Chosen(B, last)
    <2>7. /\ nil /\ tA => v.status = "learning"
          /\ nil /\ ~tA /\ sA => v.status = "queued"
          /\ nil /\ ~tA /\ ~sA => v.status = "unknown"
          /\ ~nil /\ ~kn => v.status = "learning"
          /\ ~nil /\ kn /\ ch => v.status = "review"
          /\ ~nil /\ kn /\ ~ch => v.status = "learned"
      BY <2>3
    <2>8. /\ nil /\ tB => Meaning(B) = "learning"
          /\ nil /\ ~tB /\ sB => Meaning(B) = "queued"
          /\ nil /\ ~tB /\ ~sB => Meaning(B) = "unknown"
          /\ ~nil /\ ~kn => Meaning(B) = "learning"
          /\ ~nil /\ kn /\ cB => Meaning(B) = "review"
          /\ ~nil /\ kn /\ ~cB => Meaning(B) = "learned"
      BY <2>3
    <2>9. /\ tB <=> tA \/ e.kind = "task_created"
          /\ sB <=> sA \/ e.kind = "selected"
          /\ ~nil => (cB <=> ch \/ e.kind = "selected")
      BY <2>4
    <2> HIDE DEF tA, sA, kn, ch, nil, tB, sB, cB
    <2>10. QED
      BY <2>6, <2>7, <2>8, <2>9
  <1>6. QED
    BY <1>4, <1>5

(* The status in the tables is the one the log gives, at every length. *)
LEMMA StatusIs ==
  ASSUME NEW S, IsLog(S), NEW c \in Concepts
  PROVE  Known(DeriveFrom(S), c).status = StatusOf(c, S)
  <1> DEFINE About(T) == {e \in T : e.concept = c}
             Good == {T \in SUBSET S : Known(DeriveFrom(T), c).status = StatusOf(c, T)}
  <1>1. {} \in Good
    <2>1. IsLog({})
      BY PartOfLog
    <2>2. Known(DeriveFrom({}), c).status = "unknown"
      <3>1. DeriveFrom({}) = EmptyTables
        BY <2>1, DeriveIs
      <3>2. QED
        BY <3>1 DEF Known, EmptyTables
    <2>3. About({}) = {}
      OBVIOUS
    <2>4. Meaning({}) = "unknown"
      BY DEF Meaning
    <2>5. QED
      BY <2>2, <2>3, <2>4, StatusOfIs
  <1>2. ASSUME NEW T \in SUBSET S, T # {}, Rest(T) \in Good PROVE T \in Good
    <2> DEFINE e == Latest(T)
               v == Known(DeriveFrom(Rest(T)), c)
    <2>1. IsLog(T) /\ IsLog(Rest(T))
      BY PartOfLog DEF Rest
    <2>2. e \in T /\ IsEvent(e) /\ \A d \in T : d = e \/ Before(d, e)
      BY <1>2, <2>1, LatestIs DEF IsLog
    <2>3. DeriveFrom(T) = ApplyEvent(DeriveFrom(Rest(T)), e) /\ DeriveFrom(Rest(T)) \in Tables
      BY <1>2, <2>1, DeriveIs
    <2>4. Known(DeriveFrom(T), c) = IF e.concept = c THEN Effect(v, e) ELSE v
      <3> HIDE DEF e
      <3>1. QED
        BY <2>2, <2>3, ApplyIs
    <2>5. v.status = Meaning(About(Rest(T))) /\ v \in Knowledge
      BY <1>2, <2>3, KnownIs, StatusOfIs
    <2>6. CASE e.concept = c
      <3>1. About(T) = About(Rest(T)) \union {e} /\ e \notin About(Rest(T))
        BY <2>2, <2>6 DEF Rest
      <3>2. IsLog(About(Rest(T)) \union {e})
        BY <2>1, <3>1, PartOfLog
      <3>3. \A d \in About(Rest(T)) : Before(d, e)
        BY <2>2 DEF Rest
      <3> HIDE DEF e, v, About
      <3>4. Meaning(About(Rest(T)) \union {e}) = Effect(v, e).status
        BY <2>5, <3>1, <3>2, <3>3, MeaningStep
      <3>5. StatusOf(c, T) = Meaning(About(T))
        BY StatusOfIs DEF About
      <3>6. QED
        BY <2>4, <2>6, <3>1, <3>4, <3>5
    <2>7. CASE e.concept # c
      <3>1. About(T) = About(Rest(T))
        BY <2>7 DEF Rest
      <3>2. StatusOf(c, T) = Meaning(About(T))
        BY StatusOfIs
      <3> HIDE DEF e, v, About
      <3>3. QED
        BY <2>4, <2>5, <2>7, <3>1, <3>2
    <2>8. QED
      BY <2>6, <2>7
  <1>3. S \in Good
    <2> HIDE DEF Good
    <2>1. QED
      BY <1>1, <1>2, LogInd
  <1>4. QED
    BY <1>3

----------------------------------------------------------------------------
(* What a log says of concepts, edges and the schedule *)

AllNamed(S) == UNION {Named(e) : e \in S}

LEMMA ConceptsAre ==
  ASSUME NEW S, IsLog(S)
  PROVE  DOMAIN DeriveFrom(S).concepts = AllNamed(S)
  <1> DEFINE Good == {T \in SUBSET S : DOMAIN DeriveFrom(T).concepts = AllNamed(T)}
  <1>1. {} \in Good
    <2>1. DeriveFrom({}) = EmptyTables
      BY PartOfLog, DeriveIs
    <2>2. QED
      BY <2>1 DEF EmptyTables, AllNamed
  <1>2. ASSUME NEW T \in SUBSET S, T # {}, Rest(T) \in Good PROVE T \in Good
    <2> DEFINE e == Latest(T)
    <2>1. IsLog(T)
      BY PartOfLog
    <2>2. e \in T /\ IsEvent(e) /\ IsLog(Rest(T))
      BY <1>2, <2>1, LatestIs, PartOfLog DEF IsLog, Rest
    <2>3. DeriveFrom(T) = ApplyEvent(DeriveFrom(Rest(T)), e) /\ DeriveFrom(Rest(T)) \in Tables
      BY <1>2, <2>1, <2>2, DeriveIs
    <2>4. T = Rest(T) \union {e}
      BY <2>2 DEF Rest
    <2> HIDE DEF e
    <2>5. DOMAIN DeriveFrom(T).concepts = DOMAIN DeriveFrom(Rest(T)).concepts \union Named(e)
      BY <2>2, <2>3, ApplyIs
    <2>6. AllNamed(T) = AllNamed(Rest(T)) \union Named(e)
      <3>1. \A x, U : x \in AllNamed(U) <=> \E d \in U : x \in Named(d)
        BY DEF AllNamed
      <3>2. ASSUME NEW x PROVE x \in AllNamed(T) <=> x \in AllNamed(Rest(T)) \union Named(e)
        BY <2>4, <3>1
      <3>3. QED
        BY <3>2
    <2>7. QED
      BY <1>2, <2>5, <2>6
  <1>3. S \in Good
    <2> HIDE DEF Good
    <2>1. QED
      BY <1>1, <1>2, LogInd
  <1>4. QED
    BY <1>3

(* Whatever makes a concept learned has entered it in the schedule. *)
LEMMA LearnedIs ==
  ASSUME NEW S, IsLog(S), NEW c \in Concepts,
         Known(DeriveFrom(S), c).status \in {"learned", "review"}
  PROVE  c \in DOMAIN ScheduleFrom(S)
  <1> DEFINE Good == {T \in SUBSET S : Known(DeriveFrom(T), c).status \in {"learned", "review"}
                                         => c \in DOMAIN ScheduleFrom(T)}
  <1>1. {} \in Good
    <2>1. DeriveFrom({}) = EmptyTables
      BY PartOfLog, DeriveIs
    <2>2. QED
      BY <2>1 DEF EmptyTables, Known
  <1>2. ASSUME NEW T \in SUBSET S, T # {}, Rest(T) \in Good PROVE T \in Good
    <2> DEFINE e == Latest(T)
               v == Known(DeriveFrom(Rest(T)), c)
    <2>1. IsLog(T)
      BY PartOfLog
    <2>2. e \in T /\ IsEvent(e) /\ IsLog(Rest(T))
      BY <1>2, <2>1, LatestIs, PartOfLog DEF IsLog, Rest
    <2>3. /\ DeriveFrom(T) = ApplyEvent(DeriveFrom(Rest(T)), e)
          /\ ScheduleFrom(T) = Review(ScheduleFrom(Rest(T)), e)
          /\ DeriveFrom(Rest(T)) \in Tables /\ IsSchedule(ScheduleFrom(Rest(T)))
      BY <1>2, <2>1, <2>2, DeriveIs, ScheduleIs, SchedulesAre
    <2> HIDE DEF e
    <2>4. Known(DeriveFrom(T), c) = IF e.concept = c THEN Effect(v, e) ELSE v
      BY <2>2, <2>3, ApplyIs
    <2>5. DOMAIN ScheduleFrom(T) = DOMAIN ScheduleFrom(Rest(T))
                                     \union (IF e.kind \in Reviews THEN {e.concept} ELSE {})
      BY <2>2, <2>3, ReviewIs
    <2>6. v \in Knowledge
      BY <2>3, KnownIs
    <2>7. CASE e.concept = c /\ e.kind \in Reviews
      BY <2>5, <2>7
    <2>8. CASE e.concept = c /\ e.kind \notin Reviews
      <3> HIDE DEF v
      <3>1. Effect(v, e).status \in {"learned", "review"} => v.status \in {"learned", "review"}
        BY <2>6, <2>8 DEF Effect, Knowledge, Reviews
      <3>2. QED
        BY <1>2, <2>4, <2>5, <2>8, <3>1 DEF v
    <2>9. CASE e.concept # c
      BY <1>2, <2>4, <2>5, <2>9
    <2>10. QED
      BY <2>7, <2>8, <2>9
  <1>3. S \in Good
    <2> HIDE DEF Good
    <2>1. QED
      BY <1>1, <1>2, LogInd
  <1>4. QED
    BY <1>3

(* EdgesSpec, of the tables of any log. *)
Having(k, S) == {e \in S : k \in KeysOf(e)}

IsEdge(row, k, S) ==
  /\ \A e \in Having(k, S) : row.weight >= WeightIn(e, k)
  /\ \E e \in Having(k, S) : row.weight = WeightIn(e, k)
  /\ \E d \in Having(k, S) : row.by = d.id /\ \A e \in Having(k, S) : e = d \/ Before(d, e)

LEMMA EdgesAre ==
  ASSUME NEW S, IsLog(S)
  PROVE  /\ DOMAIN DeriveFrom(S).edges = UNION {KeysOf(e) : e \in S}
         /\ \A k \in DOMAIN DeriveFrom(S).edges : IsEdge(DeriveFrom(S).edges[k], k, S)
  <1> DEFINE Fit(f, T) == /\ DOMAIN f = UNION {KeysOf(e) : e \in T}
                          /\ \A k \in DOMAIN f : IsEdge(f[k], k, T)
             Good == {T \in SUBSET S : Fit(DeriveFrom(T).edges, T)}
  <1>1. {} \in Good
    <2>1. DeriveFrom({}) = EmptyTables
      BY PartOfLog, DeriveIs
    <2>2. QED
      BY <2>1 DEF EmptyTables
  <1>2. ASSUME NEW T \in SUBSET S, T # {}, Rest(T) \in Good PROVE T \in Good
    <2> DEFINE e == Latest(T)
               f == DeriveFrom(Rest(T)).edges
               g == MergeEdges(f, e)
    <2>1. IsLog(T)
      BY PartOfLog
    <2>2. e \in T /\ IsEvent(e) /\ IsLog(Rest(T)) /\ \A d \in Rest(T) : Before(d, e)
      BY <1>2, <2>1, LatestIs, PartOfLog DEF IsLog, Rest
    <2>3. DeriveFrom(T) = ApplyEvent(DeriveFrom(Rest(T)), e) /\ DeriveFrom(Rest(T)) \in Tables
      BY <1>2, <2>1, <2>2, DeriveIs
    <2>4. T = Rest(T) \union {e}
      BY <2>2 DEF Rest
    <2> HIDE DEF e
    <2>5. DeriveFrom(T).edges = g /\ IsEdges(f)
      BY <2>2, <2>3, ApplyIs, TablesAre
    <2>6. Fit(f, Rest(T))
      BY <1>2
    <2> HIDE DEF f
    <2>7. /\ DOMAIN g = DOMAIN f \union KeysOf(e)
          /\ \A k \in DOMAIN f \ KeysOf(e) : g[k] = f[k]
          /\ \A k \in KeysOf(e) \ DOMAIN f : g[k] = [weight |-> WeightIn(e, k), by |-> e.id]
          /\ \A k \in KeysOf(e) \intersect DOMAIN f :
               g[k] = [weight |-> IF f[k].weight >= WeightIn(e, k)
                                  THEN f[k].weight ELSE WeightIn(e, k),
                       by |-> f[k].by]
      BY <2>2, <2>5, MergeIs
    <2> HIDE DEF g
    <2>8. DOMAIN g = UNION {KeysOf(d) : d \in T}
      BY <2>4, <2>6, <2>7
    <2>9. \A k : Having(k, T) = Having(k, Rest(T)) \union (IF k \in KeysOf(e) THEN {e} ELSE {})
      BY <2>4 DEF Having
    <2>10. ASSUME NEW k \in DOMAIN f \ KeysOf(e) PROVE IsEdge(g[k], k, T)
      <3>1. Having(k, T) = Having(k, Rest(T)) /\ g[k] = f[k]
        BY <2>7, <2>9, <2>10
      <3>2. QED
        BY <2>6, <3>1 DEF IsEdge
    <2>11. ASSUME NEW k \in KeysOf(e) \ DOMAIN f PROVE IsEdge(g[k], k, T)
      <3>1. Having(k, Rest(T)) = {}
        BY <2>6, <2>11 DEF Having
      <3>2. Having(k, T) = {e}
        BY <2>9, <2>11, <3>1
      <3>3. g[k].weight = WeightIn(e, k) /\ g[k].by = e.id /\ WeightIn(e, k) \in Nat
        BY <2>2, <2>7, <2>11, WeightIs
      <3>4. QED
        BY <3>2, <3>3 DEF IsEdge
    <2>12. ASSUME NEW k \in KeysOf(e) \intersect DOMAIN f PROVE IsEdge(g[k], k, T)
      <3> DEFINE w == WeightIn(e, k)
                 H == Having(k, Rest(T))
      <3>1. IsEdge(f[k], k, Rest(T)) /\ Having(k, T) = H \union {e}
        BY <2>6, <2>9, <2>12
      <3>2. f[k].weight \in Nat /\ w \in Nat /\ \A d \in H : WeightIn(d, k) \in Nat
        <4>1. f[k] \in EdgeRow
          BY <2>5, <2>12 DEF IsEdges
        <4>2. \A d \in H : IsEvent(d) /\ k \in KeysOf(d)
          BY <2>2 DEF Having, IsLog
        <4>3. QED
          BY <2>2, <2>12, <4>1, <4>2, WeightIs DEF EdgeRow
      <3>3. /\ g[k].weight = IF f[k].weight >= w THEN f[k].weight ELSE w
            /\ g[k].by = f[k].by
        BY <2>7, <2>12
      <3>4. PICK d \in H : f[k].by = d.id /\ \A x \in H : x = d \/ Before(d, x)
        BY <3>1 DEF IsEdge
      <3>5. PICK h \in H : f[k].weight = WeightIn(h, k)
        BY <3>1 DEF IsEdge
      <3>6. Before(d, e)
        BY <2>2, <3>4 DEF Having
      <3>7. \A x \in Having(k, T) : g[k].weight >= WeightIn(x, k)
        <4>1. \A x \in H : f[k].weight >= WeightIn(x, k)
          BY <3>1 DEF IsEdge
        <4> HIDE DEF w, H
        <4>2. g[k].weight >= f[k].weight /\ g[k].weight >= w /\ g[k].weight \in Nat
          BY <3>2, <3>3
        <4>3. ASSUME NEW x \in H PROVE g[k].weight >= WeightIn(x, k)
          BY <3>2, <4>1, <4>2
        <4>4. QED
          BY <3>1, <4>2, <4>3 DEF w
      <3>8. \E x \in Having(k, T) : g[k].weight = WeightIn(x, k)
        BY <3>1, <3>3, <3>5
      <3>9. \E x \in Having(k, T) : /\ g[k].by = x.id
                                    /\ \A y \in Having(k, T) : y = x \/ Before(x, y)
        BY <3>1, <3>3, <3>4, <3>6
      <3>10. QED
        BY <3>7, <3>8, <3>9 DEF IsEdge
    <2>13. \A k \in DOMAIN g : IsEdge(g[k], k, T)
      BY <2>7, <2>10, <2>11, <2>12
    <2>14. QED
      BY <2>5, <2>8, <2>13
  <1>3. S \in Good
    <2> HIDE DEF Good
    <2>1. QED
      BY <1>1, <1>2, LogInd
  <1>4. QED
    BY <1>3

----------------------------------------------------------------------------
(* Every state *)

EventsFit ==
  /\ IsLog(events) /\ Cardinality(events) <= MaxEvents
  /\ \A e \in events : e.id \in 1..Cardinality(events) /\ e.ts \in Times

IInv ==
  /\ EventsFit
  /\ tables = DeriveFrom(events)
  /\ schedule = ScheduleFrom(events)

(* A step appends one event, under the next id. *)
Arrives(e) ==
  /\ IsEvent(e) /\ e.id = NextId /\ e.ts \in Times /\ e.id <= MaxEvents
  /\ Insert(e)

LEMMA EventArrives ==
  ASSUME IInv, Next
  PROVE  \E e : Arrives(e) /\ e \notin events
  <1>1. NextId \in Nat /\ \A e \in events : e.id # NextId /\ IsEvent(e)
    <2>1. Cardinality(events) \in Nat
      BY FS_CardinalityType DEF IInv, EventsFit, IsLog
    <2>2. QED
      BY <2>1 DEF IInv, EventsFit, IsLog, NextId
  <1>2. ASSUME NEW r \in Records, NEW t \in Times, Record(r, t)
        PROVE  \E e : Arrives(e) /\ e \notin events
    <2> DEFINE e == WithId(r, NextId, t)
    <2>1. e.id = NextId /\ e.ts = t /\ t \in Nat
      BY TimesAssumption DEF WithId
    <2>2. /\ r.kind \in Kinds /\ r.concept \in Concepts \union {NoConcept}
          /\ r.value \in 0..100 /\ (r.kind = "quiz_result" => r.grade \in Grades)
          /\ r.concept = NoConcept => r.kind \in {"interview", "chat_note"}
          /\ IsFiniteSet(r.edges)
          /\ \A edge \in r.edges :
               /\ edge.src \in Concepts \union {NoConcept}
               /\ edge.dst \in Concepts /\ edge.weight \in Nat
      BY RecordsAssumption
    <2>3. /\ e.kind = r.kind /\ e.concept = r.concept /\ e.value = r.value
          /\ e.grade = r.grade /\ e.edges = r.edges /\ e = WithId(e, e.id, e.ts)
      BY DEF WithId
    <2> HIDE DEF e
    <2>4. IsEvent(e)
      BY <1>1, <2>1, <2>2, <2>3 DEF IsEvent
    <2>5. Insert(e) /\ NextId <= MaxEvents
      BY <1>2 DEF Record, e
    <2>6. QED
      BY <1>1, <2>1, <2>4, <2>5 DEF Arrives
  <1>3. ASSUME NEW d \in events, Repeat(d)
        PROVE  \E e : Arrives(e) /\ e \notin events
    <2> DEFINE e == [d EXCEPT !.id = NextId]
    <2>1. IsEvent(d) /\ d.ts \in Times
      BY <1>1 DEF IInv, EventsFit
    <2>2. d = WithId(d, d.id, d.ts)
      BY <2>1 DEF IsEvent
    <2>3. e = WithId(d, NextId, d.ts)
      BY <2>2 DEF WithId
    <2>4. /\ e.id = NextId /\ e.ts = d.ts /\ e.kind = d.kind /\ e.concept = d.concept
          /\ e.value = d.value /\ e.grade = d.grade /\ e.edges = d.edges
          /\ e = WithId(e, e.id, e.ts)
      BY <2>3 DEF WithId
    <2>5. Insert(e) /\ NextId <= MaxEvents
      BY <1>3 DEF Repeat
    <2> HIDE DEF e
    <2>6. IsEvent(e)
      BY <1>1, <2>1, <2>4 DEF IsEvent
    <2>7. QED
      BY <1>1, <2>1, <2>4, <2>5, <2>6 DEF Arrives
  <1>4. QED
    BY <1>2, <1>3 DEF Next

LEMMA IInvInit == Init => IInv
  <1> SUFFICES ASSUME Init PROVE IInv
    OBVIOUS
  <1>1. IsLog({}) /\ Cardinality({}) = 0
    BY FS_EmptySet DEF IsLog
  <1>2. events = {} /\ tables = EmptyTables /\ schedule = << >>
    BY DEF Init
  <1>3. DeriveFrom({}) = EmptyTables /\ ScheduleFrom({}) = << >>
    BY <1>1, DeriveIs, ScheduleIs
  <1>4. QED
    BY <1>1, <1>2, <1>3, MaxEventsAssumption DEF IInv, EventsFit

LEMMA LogGrows ==
  ASSUME EventsFit, NEW e, Arrives(e), e \notin events
  PROVE  EventsFit' /\ IsLog(events \union {e})
  <1> DEFINE S == events \union {e}
             n == Cardinality(events)
  <1>1. events' = S /\ IsEvent(e) /\ e.id = n + 1 /\ e.ts \in Times /\ n + 1 <= MaxEvents
    BY DEF Arrives, Insert, NextId
  <1>2. IsFiniteSet(events) /\ n \in Nat
    BY FS_CardinalityType DEF EventsFit, IsLog
  <1>3. IsFiniteSet(S) /\ Cardinality(S) = n + 1
    BY <1>2, FS_AddElement
  <1>4. \A d \in events : d.id \in 1..n /\ d.id # e.id /\ d.ts \in Times /\ IsEvent(d)
    BY <1>1, <1>2 DEF EventsFit, IsLog
  <1>5. \A c, d \in events : c.id = d.id => c = d
    BY DEF EventsFit, IsLog
  <1> HIDE DEF n
  <1>6. IsLog(S)
    BY <1>1, <1>3, <1>4, <1>5 DEF IsLog
  <1>7. \A d \in S : d.id \in 1..(n + 1) /\ d.ts \in Times
    BY <1>1, <1>2, <1>4
  <1>8. QED
    BY <1>1, <1>3, <1>6, <1>7 DEF EventsFit

LEMMA IInvStep == IInv /\ [Next]_vars => IInv'
  <1> SUFFICES ASSUME IInv, [Next]_vars PROVE IInv'
    OBVIOUS
  <1>1. CASE Next
    <2>1. PICK e : Arrives(e) /\ e \notin events
      BY <1>1, EventArrives
    <2>2. EventsFit'
      BY <2>1, LogGrows DEF IInv
    <2>3. QED
      BY <2>1, <2>2 DEF IInv, Arrives, Insert
  <1>2. CASE UNCHANGED vars
    BY <1>2 DEF vars, IInv, EventsFit
  <1>3. QED
    BY <1>1, <1>2

LEMMA IInvAlways == Spec => []IInv
  BY IInvInit, IInvStep, PTL DEF Spec

LEMMA TablesKnow ==
  ASSUME IInv, NEW c \in DOMAIN tables.concepts
  PROVE  /\ c \in Concepts /\ tables.concepts[c] \in ConceptRow
         /\ Known(DeriveFrom(events), c).status = tables.concepts[c].status
         /\ Known(DeriveFrom(events), c).confidence = tables.concepts[c].confidence
  <1>1. tables \in Tables
    BY DeriveIs DEF IInv, EventsFit
  <1>2. c \in Concepts /\ tables.concepts[c] \in ConceptRow
    BY <1>1, TablesAre DEF IsConcepts
  <1>3. QED
    BY <1>2 DEF IInv, Known

(* Type correctness: ids, statuses, confidences and intervals keep to      *)
(* their ranges, for any concepts and records and in any order of arrival. *)
THEOREM LearningTypes == Spec => []TypeOK
  <1>1. ASSUME IInv PROVE TypeOK
    <2>1. Cardinality(events) \in Nat
      BY <1>1, FS_CardinalityType DEF IInv, EventsFit, IsLog
    <2>2. \A e \in events : e.id \in 1..MaxEvents /\ e.ts \in Times
      BY <1>1, <2>1, MaxEventsAssumption DEF IInv, EventsFit
    <2>3. \A c \in DOMAIN tables.concepts :
            /\ c \in Concepts /\ tables.concepts[c].status \in Statuses
            /\ tables.concepts[c].confidence \in 0..100
      BY <1>1, TablesKnow DEF ConceptRow
    <2>4. IsSchedule(schedule)
      BY <1>1, ScheduleIs, SchedulesAre DEF IInv, EventsFit
    <2>5. \A c \in DOMAIN schedule : c \in Concepts /\ schedule[c].interval \in 1..MaxIntervalDays
      BY <2>4 DEF IsSchedule, Reviewed
    <2>6. QED
      BY <2>2, <2>3, <2>5 DEF TypeOK
  <1>2. QED
    BY <1>1, IInvAlways, PTL

(* The status of every concept is the one that the log gives it: the last  *)
(* quiz or mark as known in the order of timestamps decides, whatever      *)
(* arrived when (derive.py, the rules of the module's docstring).          *)
THEOREM StatusIsMeant == Spec => []StatusSpec
  <1>1. ASSUME IInv PROVE StatusSpec
    BY <1>1, TablesKnow, StatusIs DEF StatusSpec, IInv, EventsFit
  <1>2. QED
    BY <1>1, IInvAlways, PTL

(* derive and review_schedule agree: what the one calls learned is in the  *)
(* result of the other.                                                    *)
THEOREM LearnedIsAlwaysScheduled == Spec => []LearnedIsScheduled
  <1>1. ASSUME IInv PROVE LearnedIsScheduled
    BY <1>1, TablesKnow, LearnedIs DEF LearnedIsScheduled, IInv, EventsFit
  <1>2. QED
    BY <1>1, IInvAlways, PTL

(* The edges are those the events declare, with the greatest weight and    *)
(* the first event, in the order of timestamps, of each; the concepts are  *)
(* those that events and edges name.                                       *)
THEOREM EdgesAreDeclared == Spec => []EdgesSpec
  <1>1. ASSUME IInv PROVE EdgesSpec
    <2>1. IsLog(events) /\ tables = DeriveFrom(events)
      BY <1>1 DEF IInv, EventsFit
    <2>2. /\ DOMAIN tables.edges = UNION {KeysOf(e) : e \in events}
          /\ \A k \in DOMAIN tables.edges : IsEdge(tables.edges[k], k, events)
      BY <2>1, EdgesAre
    <2>3. DOMAIN tables.concepts = AllNamed(events)
      BY <2>1, ConceptsAre
    <2>4. AllNamed(events) =
            ({e.concept : e \in events} \ {NoConcept}) \union UNION {Endpoints(e) : e \in events}
      BY DEF AllNamed, Named, Subject
    <2>5. QED
      BY <2>2, <2>3, <2>4 DEF EdgesSpec, IsEdge, Having
  <1>2. QED
    BY <1>1, IInvAlways, PTL

----------------------------------------------------------------------------
(* Events that say nothing of knowledge *)

(* An event that changes nothing when it is the latest changes nothing     *)
(* when others follow: what they do depends on what is known before them.  *)
LEMMA NeutralIs ==
  ASSUME NEW S, IsLog(S), NEW e \in S, NEW c \in Concepts,
         e.kind \in {"proposed", "later", "dismissed", "interview", "chat_note"}
  PROVE  Known(DeriveFrom(S), c) = Known(DeriveFrom(S \ {e}), c)
  <1> DEFINE K(T) == Known(DeriveFrom(T), c)
             Good == {T \in SUBSET S : e \in T => K(T) = K(T \ {e})}
  <1>0. IsEvent(e)
    BY DEF IsLog
  <1>1. \A T \in SUBSET S : T # {} =>
          /\ Latest(T) \in T /\ IsLog(T) /\ IsEvent(Latest(T))
          /\ K(T) = IF Latest(T).concept = c THEN Effect(K(Rest(T)), Latest(T)) ELSE K(Rest(T))
    <2>1. SUFFICES ASSUME NEW T \in SUBSET S, T # {}
                   PROVE  /\ Latest(T) \in T /\ IsLog(T) /\ IsEvent(Latest(T))
                          /\ K(T) = IF Latest(T).concept = c
                                    THEN Effect(K(Rest(T)), Latest(T)) ELSE K(Rest(T))
      OBVIOUS
    <2>2. IsLog(T) /\ Latest(T) \in T
      BY <2>1, PartOfLog, LatestIs
    <2>3. IsEvent(Latest(T)) /\ IsLog(Rest(T))
      BY <2>2, PartOfLog DEF IsLog, Rest
    <2>4. /\ DeriveFrom(T) = ApplyEvent(DeriveFrom(Rest(T)), Latest(T))
          /\ DeriveFrom(Rest(T)) \in Tables
      BY <2>1, <2>2, <2>3, DeriveIs
    <2>5. QED
      BY <2>2, <2>3, <2>4, ApplyIs
  <1>2. {} \in Good
    OBVIOUS
  <1>3. ASSUME NEW T \in SUBSET S, T # {}, Rest(T) \in Good PROVE T \in Good
    <2>1. SUFFICES ASSUME e \in T PROVE K(T) = K(T \ {e})
      OBVIOUS
    <2> DEFINE last == Latest(T)
               U == T \ {e}
    <2>2. /\ last \in T /\ IsLog(T) /\ IsEvent(last)
          /\ K(T) = IF last.concept = c THEN Effect(K(Rest(T)), last) ELSE K(Rest(T))
      BY <1>1, <1>3
    <2>3. CASE last = e
      <3>1. K(Rest(T)) \in Knowledge
        BY <2>2, PartOfLog, DeriveIs, KnownIs DEF Rest
      <3>2. Effect(K(Rest(T)), e) = K(Rest(T))
        <4> HIDE DEF K
        <4>1. QED
          BY <3>1 DEF Effect
      <3>3. Rest(T) = U
        BY <2>3 DEF Rest
      <3>4. QED
        BY <2>2, <2>3, <3>2, <3>3
    <2>4. CASE last # e
      <3>1. last \in U /\ U \in SUBSET S /\ U # {} /\ IsLog(U)
        BY <2>2, <2>4, PartOfLog
      <3>2. \A d \in U : d = last \/ Before(d, last)
        BY <2>2, LatestIs
      <3>3. Latest(U) = last
        <4> HIDE DEF last, U
        <4>1. QED
          BY <3>1, <3>2, LatestUnique
      <3>4. Rest(U) = Rest(T) \ {e} /\ e \in Rest(T)
        BY <2>1, <2>4, <3>3 DEF Rest
      <3>5. K(Rest(T)) = K(Rest(U))
        BY <1>3, <3>4
      <3>6. K(U) = IF last.concept = c THEN Effect(K(Rest(U)), last) ELSE K(Rest(U))
        BY <1>1, <3>1, <3>3
      <3>7. QED
        BY <2>2, <3>5, <3>6
    <2>5. QED
      BY <2>3, <2>4
  <1>4. S \in Good
    <2> HIDE DEF Good
    <2>1. QED
      BY <1>2, <1>3, LogInd
  <1>5. QED
    BY <1>4

(* The event of a step, as the properties name it. *)
LEMMA AddedIs ==
  ASSUME NEW e, Arrives(e), e \notin events
  PROVE  Added = e
  <1>1. events' = events \union {e}
    BY DEF Arrives, Insert
  <1>2. QED
    BY <1>1 DEF Added

(* Proposing, dismissing, putting off or talking about a concept changes   *)
(* neither status nor confidence of any, wherever between older events its *)
(* timestamp puts it.                                                      *)
THEOREM NeutralEventsStayNeutral == Spec => NeutralEvents
  <1> DEFINE Neutral == Added.kind \in {"proposed", "later", "dismissed", "interview",
                                        "chat_note"} =>
               \A c \in DOMAIN tables.concepts :
                 /\ tables'.concepts[c].status = tables.concepts[c].status
                 /\ tables'.concepts[c].confidence = tables.concepts[c].confidence
  <1>1. IInv /\ [Next]_vars => [Neutral]_vars
    <2>1. SUFFICES ASSUME IInv, Next,
                          Added.kind \in {"proposed", "later", "dismissed", "interview",
                                          "chat_note"},
                          NEW c \in DOMAIN tables.concepts
                   PROVE  /\ tables'.concepts[c].status = tables.concepts[c].status
                          /\ tables'.concepts[c].confidence = tables.concepts[c].confidence
      BY DEF vars
    <2>2. PICK e : Arrives(e) /\ e \notin events
      BY <2>1, EventArrives
    <2> DEFINE S == events \union {e}
    <2>3. IsLog(S) /\ Added = e /\ IsLog(events)
      BY <2>1, <2>2, LogGrows, AddedIs DEF IInv, EventsFit
    <2>4. tables' = DeriveFrom(S) /\ tables = DeriveFrom(events)
      BY <2>1, <2>2 DEF IInv, Arrives, Insert
    <2>5. c \in Concepts
      BY <2>1, TablesKnow
    <2>6. S \ {e} = events /\ e \in S
      BY <2>2
    <2>7. c \in DOMAIN tables'.concepts
      <3>1. AllNamed(events) \subseteq AllNamed(S)
        BY DEF AllNamed
      <3>2. QED
        BY <2>1, <2>3, <2>4, <3>1, ConceptsAre
    <2> HIDE DEF S
    <2>8. Known(DeriveFrom(S), c) = Known(DeriveFrom(events), c)
      BY <2>1, <2>3, <2>5, <2>6, NeutralIs
    <2>9. QED
      BY <2>1, <2>4, <2>7, <2>8 DEF Known
  <1>2. QED
    BY IInvAlways, <1>1, PTL DEF Spec, NeutralEvents

----------------------------------------------------------------------------
(* Appends sent twice *)

LEMMA EffectTwice ==
  ASSUME NEW e, IsEvent(e), e.kind # "task_done", NEW r \in ConceptRow
  PROVE  Effect(Effect(r, e), e) = Effect(r, e) /\ Effect(r, e).touched = r.touched
  <1>1. PICK s \in Statuses, n \in 0..100, f \in Nat, t \in Nat :
          r = [status |-> s, confidence |-> n, first |-> f, touched |-> t]
    BY DEF ConceptRow
  <1>2. Percent(e.value) = e.value /\ e.value \in 0..100 /\ e.kind \in Kinds
    BY DEF Percent, IsEvent
  <1>3. CASE e.kind = "quiz_result"
    BY <1>1, <1>2, <1>3 DEF Effect
  <1>4. CASE e.kind = "marked_known"
    BY <1>1, <1>2, <1>4 DEF Effect
  <1>5. CASE e.kind = "selected"
    BY <1>1, <1>5 DEF Effect
  <1>6. CASE e.kind = "task_created"
    BY <1>1, <1>6 DEF Effect
  <1>7. CASE e.kind \notin {"quiz_result", "marked_known", "selected", "task_created"}
    BY <1>1, <1>7 DEF Effect
  <1>8. QED
    BY <1>3, <1>4, <1>5, <1>6, <1>7

LEMMA EnsureFits ==
  ASSUME NEW f, IsConcepts(f), NEW M \in SUBSET Concepts, NEW t \in Nat
  PROVE  IsConcepts(Ensure(f, M, t)) /\ DOMAIN Ensure(f, M, t) = DOMAIN f \union M
  BY EnsureIs

LEMMA EnsureTouches ==
  ASSUME NEW f, IsConcepts(f), NEW M \in SUBSET Concepts, NEW t \in Nat, NEW c \in M
  PROVE  Ensure(f, M, t)[c].touched = t
  <1>1. CASE c \notin DOMAIN f
    BY <1>1 DEF Ensure, NewConcept
  <1>2. CASE c \in DOMAIN f
    <2>1. PICK s \in Statuses, n \in 0..100, d \in Nat, u \in Nat :
            f[c] = [status |-> s, confidence |-> n, first |-> d, touched |-> u]
      BY <1>2 DEF IsConcepts, ConceptRow
    <2>2. Ensure(f, M, t)[c] = [f[c] EXCEPT !.touched = t]
      BY <1>2 DEF Ensure
    <2>3. QED
      BY <2>1, <2>2
  <1>3. QED
    BY <1>1, <1>2

LEMMA EnsureKeeps ==
  ASSUME NEW f, IsConcepts(f), NEW M \in SUBSET Concepts, NEW t \in Nat, NEW c \in DOMAIN f,
         c \in M => f[c].touched = t
  PROVE  Ensure(f, M, t)[c] = f[c]
  <1>1. PICK s \in Statuses, n \in 0..100, d \in Nat, u \in Nat :
          f[c] = [status |-> s, confidence |-> n, first |-> d, touched |-> u]
    BY DEF IsConcepts, ConceptRow
  <1>2. Ensure(f, M, t)[c] = IF c \in M THEN [f[c] EXCEPT !.touched = t] ELSE f[c]
    BY DEF Ensure
  <1>3. CASE c \in M
    <2>1. u = t
      BY <1>1, <1>3
    <2>2. [f[c] EXCEPT !.touched = t] = f[c]
      BY <1>1, <2>1
    <2>3. QED
      BY <1>2, <1>3, <2>2
  <1>4. CASE c \notin M
    BY <1>2, <1>4
  <1>5. QED
    BY <1>3, <1>4

LEMMA MergeWeighs ==
  ASSUME NEW f, IsEdges(f), NEW e, IsEvent(e), NEW k \in KeysOf(e)
  PROVE  MergeEdges(f, e)[k].weight >= WeightIn(e, k)
  <1>1. WeightIn(e, k) \in Nat
    BY WeightIs
  <1>2. CASE k \in DOMAIN f
    <2>1. f[k] \in EdgeRow
      BY <1>2 DEF IsEdges
    <2>2. PICK w \in Nat, n \in Nat : f[k] = [weight |-> w, by |-> n]
      BY <2>1 DEF EdgeRow
    <2>3. MergeEdges(f, e)[k] = [f[k] EXCEPT !.weight = Max({f[k].weight, WeightIn(e, k)})]
      BY <1>2 DEF MergeEdges
    <2>4. Max({w, WeightIn(e, k)}) = IF w >= WeightIn(e, k) THEN w ELSE WeightIn(e, k)
      BY <1>1, MaxOfTwo
    <2>5. MergeEdges(f, e)[k].weight = IF w >= WeightIn(e, k) THEN w ELSE WeightIn(e, k)
      BY <2>2, <2>3, <2>4
    <2>6. QED
      BY <1>1, <2>5
  <1>3. CASE k \notin DOMAIN f
    <2>1. MergeEdges(f, e)[k] = [weight |-> WeightIn(e, k), by |-> e.id]
      BY <1>3 DEF MergeEdges
    <2>2. QED
      BY <1>1, <2>1
  <1>4. QED
    BY <1>2, <1>3

LEMMA MergeKeeps ==
  ASSUME NEW f, IsEdges(f), NEW e, IsEvent(e), NEW k \in DOMAIN f,
         k \in KeysOf(e) => f[k].weight >= WeightIn(e, k)
  PROVE  MergeEdges(f, e)[k] = f[k]
  <1>1. CASE k \in KeysOf(e)
    <2>1. f[k] \in EdgeRow /\ WeightIn(e, k) \in Nat
      BY <1>1, WeightIs DEF IsEdges
    <2>2. PICK w \in Nat, n \in Nat : f[k] = [weight |-> w, by |-> n]
      BY <2>1 DEF EdgeRow
    <2>3. MergeEdges(f, e)[k] = [f[k] EXCEPT !.weight = Max({f[k].weight, WeightIn(e, k)})]
      BY <1>1 DEF MergeEdges
    <2>4. w >= WeightIn(e, k)
      BY <1>1, <2>2
    <2>5. Max({w, WeightIn(e, k)}) = w
      BY <2>1, <2>4, MaxOfTwo
    <2>6. QED
      BY <2>2, <2>3, <2>5
  <1>2. CASE k \notin KeysOf(e)
    BY <1>2 DEF MergeEdges
  <1>3. QED
    BY <1>1, <1>2

LEMMA MergeIsEdges ==
  ASSUME NEW f, IsEdges(f), NEW e, IsEvent(e)
  PROVE  IsEdges(MergeEdges(f, e)) /\ DOMAIN MergeEdges(f, e) = DOMAIN f \union KeysOf(e)
  BY MergeIs

LEMMA MergeTwice ==
  ASSUME NEW f, IsEdges(f), NEW d, IsEvent(d), NEW e, IsEvent(e),
         KeysOf(e) = KeysOf(d), \A k : WeightIn(e, k) = WeightIn(d, k)
  PROVE  MergeEdges(MergeEdges(f, d), e) = MergeEdges(f, d)
  <1> DEFINE g == MergeEdges(f, d)
             h == MergeEdges(g, e)
  <1>1. IsEdges(g) /\ DOMAIN g = DOMAIN f \union KeysOf(d)
    BY MergeIsEdges
  <1>2. ASSUME NEW k \in KeysOf(d) PROVE g[k].weight >= WeightIn(d, k)
    BY <1>2, MergeWeighs
  <1> HIDE DEF g
  <1>3. IsEdges(h) /\ DOMAIN h = DOMAIN g \union KeysOf(e)
    BY <1>1, MergeIsEdges
  <1>4. ASSUME NEW k \in DOMAIN g PROVE h[k] = g[k]
    <2>1. k \in KeysOf(e) => g[k].weight >= WeightIn(e, k)
      BY <1>2
    <2>2. QED
      BY <1>1, <2>1, MergeKeeps
  <1> HIDE DEF h
  <1>5. h = g
    BY <1>1, <1>2, <1>3, <1>4 DEF IsEdges
  <1>6. QED
    BY <1>5 DEF g, h

(* What an event does to the concepts. *)
Change(f, M, e) == [c \in DOMAIN f |-> IF c \in M THEN Effect(f[c], e) ELSE f[c]]
Turn(f, M, N, e) == Ensure(Change(Ensure(f, M, e.ts), M, e), N, e.ts)

LEMMA ChangeIs ==
  ASSUME NEW f, IsConcepts(f), NEW M \in SUBSET DOMAIN f, NEW e, IsEvent(e),
         e.kind # "task_done"
  PROVE  /\ IsConcepts(Change(f, M, e)) /\ DOMAIN Change(f, M, e) = DOMAIN f
         /\ \A c \in M : /\ Change(f, M, e)[c].touched = f[c].touched
                         /\ Effect(Change(f, M, e)[c], e) = Change(f, M, e)[c]
  <1> DEFINE g == Change(f, M, e)
  <1>1. ASSUME NEW c \in M
        PROVE  /\ g[c] \in ConceptRow /\ g[c].touched = f[c].touched
               /\ Effect(g[c], e) = g[c]
    <2>1. f[c] \in ConceptRow /\ g[c] = Effect(f[c], e)
      BY DEF IsConcepts, Change
    <2>2. Effect(f[c], e) \in ConceptRow
      <3>1. [status |-> f[c].status, confidence |-> f[c].confidence] \in Knowledge
        BY <2>1 DEF ConceptRow, Knowledge
      <3>2. QED
        BY <2>1, <3>1, EffectIs
    <2> HIDE DEF g
    <2>3. QED
      BY <2>1, <2>2, EffectTwice
  <1>2. DOMAIN g = DOMAIN f /\ g = [c \in DOMAIN f |-> g[c]]
    BY DEF Change
  <1>3. \A c \in DOMAIN f : g[c] \in ConceptRow
    BY <1>1 DEF Change, IsConcepts
  <1> HIDE DEF g
  <1>4. IsConcepts(g)
    BY <1>2, <1>3 DEF IsConcepts
  <1>5. QED
    BY <1>1, <1>2, <1>4 DEF g

LEMMA EnsureSame ==
  ASSUME NEW f, IsConcepts(f), NEW L \in SUBSET Concepts, NEW z \in Nat,
         \A c \in L : c \in DOMAIN f /\ f[c].touched = z
  PROVE  Ensure(f, L, z) = f
  <1>1. IsConcepts(Ensure(f, L, z)) /\ DOMAIN Ensure(f, L, z) = DOMAIN f
    <2>1. IsConcepts(Ensure(f, L, z)) /\ DOMAIN Ensure(f, L, z) = DOMAIN f \union L
      BY EnsureFits
    <2>2. DOMAIN f \union L = DOMAIN f
      OBVIOUS
    <2>3. QED
      BY <2>1, <2>2
  <1>2. ASSUME NEW c \in DOMAIN f PROVE Ensure(f, L, z)[c] = f[c]
    BY EnsureKeeps
  <1>3. QED
    BY <1>1, <1>2 DEF IsConcepts

LEMMA TurnTwice ==
  ASSUME NEW f, IsConcepts(f), NEW M \in SUBSET Concepts, NEW N \in SUBSET Concepts,
         NEW d, IsEvent(d), d.kind # "task_done"
  PROVE  Turn(Turn(f, M, N, d), M, N, d) = Turn(f, M, N, d)
  <1> DEFINE z == d.ts
             touched == Ensure(f, M, z)
             changed == Change(touched, M, d)
             f1 == Ensure(changed, N, z)
  <1>1. z \in Nat
    BY DEF IsEvent
  <1>2. Turn(f, M, N, d) = f1
    BY DEF Turn
  <1> HIDE DEF z
  <1>3. IsConcepts(touched) /\ M \subseteq DOMAIN touched
    <2>1. IsConcepts(touched) /\ DOMAIN touched = DOMAIN f \union M
      BY <1>1, EnsureFits
    <2>2. QED
      BY <2>1
  <1>4. ASSUME NEW c \in M PROVE touched[c].touched = z
    BY <1>1, EnsureTouches
  <1> HIDE DEF touched
  <1>5. /\ IsConcepts(changed) /\ DOMAIN changed = DOMAIN touched
        /\ \A c \in M : changed[c].touched = z /\ Effect(changed[c], d) = changed[c]
    BY <1>3, <1>4, ChangeIs
  <1> HIDE DEF changed
  <1>6. IsConcepts(f1) /\ DOMAIN f1 = DOMAIN changed \union N
    BY <1>1, <1>5, EnsureFits
  <1>7. ASSUME NEW c \in N PROVE f1[c].touched = z
    BY <1>1, <1>5, EnsureTouches
  <1>8. ASSUME NEW c \in M PROVE f1[c] = changed[c]
    <2>1. c \in DOMAIN changed /\ (c \in N => changed[c].touched = z)
      BY <1>3, <1>5
    <2>2. QED
      BY <1>1, <1>5, <2>1, EnsureKeeps
  <1> HIDE DEF f1
  <1>9. \A c \in M : c \in DOMAIN f1 /\ f1[c].touched = z /\ Effect(f1[c], d) = f1[c]
    BY <1>3, <1>5, <1>6, <1>8
  <1>10. Ensure(f1, M, z) = f1
    BY <1>1, <1>6, <1>9, EnsureSame
  <1>11. Ensure(f1, N, z) = f1
    BY <1>1, <1>6, <1>7, EnsureSame
  <1>12. Change(f1, M, d) = f1
    BY <1>6, <1>9 DEF IsConcepts, Change
  <1>13. Turn(f1, M, N, d) = f1
    BY <1>10, <1>11, <1>12 DEF Turn, z
  <1>14. QED
    BY <1>2, <1>13

(* An event that is applied twice in a row leaves the tables as once. *)
LEMMA ApplyTwice ==
  ASSUME NEW t \in Tables, NEW d, IsEvent(d), NEW e, IsEvent(e), e = WithId(d, e.id, d.ts),
         d.kind # "task_done"
  PROVE  ApplyEvent(ApplyEvent(t, d), e) = ApplyEvent(t, d)
  <1>1. /\ e.ts = d.ts /\ e.kind = d.kind /\ e.concept = d.concept /\ e.value = d.value
        /\ e.edges = d.edges
    BY DEF WithId
  <1>2. /\ Subject(e) = Subject(d) /\ KeysOf(e) = KeysOf(d) /\ Endpoints(e) = Endpoints(d)
        /\ \A k : WeightIn(e, k) = WeightIn(d, k)
        /\ \A r : Effect(r, e) = Effect(r, d)
    BY <1>1 DEF Subject, KeysOf, Endpoints, WeightIn, EdgesOf, Counts, Key, Effect
  <1> DEFINE M == Subject(d)
             N == Endpoints(d)
             f1 == Turn(t.concepts, M, N, d)
             g1 == MergeEdges(t.edges, d)
  <1>3. ApplyEvent(t, d) = [concepts |-> f1, edges |-> g1]
    BY DEF ApplyEvent, Turn, Change, Subject
  <1>4. ApplyEvent([concepts |-> f1, edges |-> g1], e) =
          [concepts |-> Turn(f1, M, N, d), edges |-> MergeEdges(g1, e)]
    <2> HIDE DEF f1, g1
    <2>1. QED
      BY <1>1, <1>2 DEF ApplyEvent, Turn, Change, Subject
  <1>5. /\ IsConcepts(t.concepts) /\ M \in SUBSET Concepts /\ N \in SUBSET Concepts
        /\ IsEdges(t.edges)
    BY TablesAre, KeysFit
  <1>6. MergeEdges(g1, e) = g1
    BY <1>2, <1>5, MergeTwice
  <1> HIDE DEF M, N
  <1>7. Turn(f1, M, N, d) = f1
    BY <1>5, TurnTwice
  <1>8. QED
    BY <1>3, <1>4, <1>6, <1>7

(* Two copies of an event with nothing in between count once, whatever     *)
(* comes before and after them.                                            *)
LEMMA CopyIs ==
  ASSUME NEW S, IsLog(S), NEW d \in S, NEW e \in S, e = WithId(d, e.id, d.ts), d.id < e.id,
         d.kind # "task_done", \A x \in S : x.ts = d.ts => x = d \/ x = e
  PROVE  DeriveFrom(S) = DeriveFrom(S \ {e})
  <1> DEFINE Good == {T \in SUBSET S :
                        d \in T /\ e \in T => DeriveFrom(T) = DeriveFrom(T \ {e})}
  <1>1. IsEvent(d) /\ IsEvent(e) /\ e.ts = d.ts /\ d # e /\ Before(d, e)
    <2>1. IsEvent(d) /\ IsEvent(e) /\ e.ts = d.ts
      BY DEF IsLog, WithId
    <2>2. d # e
      BY <2>1 DEF IsEvent
    <2>3. QED
      BY <2>1, <2>2 DEF Before
  <1>2. {} \in Good
    OBVIOUS
  <1>3. ASSUME NEW T \in SUBSET S, T # {}, Rest(T) \in Good PROVE T \in Good
    <2>1. SUFFICES ASSUME d \in T, e \in T PROVE DeriveFrom(T) = DeriveFrom(T \ {e})
      OBVIOUS
    <2> DEFINE last == Latest(T)
               U == T \ {e}
    <2>2. /\ IsLog(T) /\ IsLog(U) /\ last \in T /\ d \in U
          /\ \A x \in T : x = last \/ Before(x, last)
      BY <1>1, <1>3, <2>1, PartOfLog, LatestIs
    <2>3. IsLog(Rest(T)) /\ IsLog(Rest(U)) /\ U # {}
      BY <2>2, PartOfLog DEF Rest
    <2>4. DeriveFrom(T) = ApplyEvent(DeriveFrom(Rest(T)), last)
      BY <1>3, <2>2, DeriveIs
    <2>5. /\ DeriveFrom(U) = ApplyEvent(DeriveFrom(Rest(U)), Latest(U))
          /\ DeriveFrom(Rest(U)) \in Tables
      <3> HIDE DEF U
      <3>1. QED
        BY <2>2, <2>3, DeriveIs
    <2>6. CASE last = e
      <3>1. Rest(T) = U
        BY <2>6 DEF Rest
      <3>2. ASSUME NEW x \in U, x # d PROVE Before(x, d)
        <4>1. Before(x, e) /\ x.ts # d.ts
          BY <2>2, <2>6, <3>2
        <4>2. x.ts \in Nat /\ d.ts \in Nat
          BY <1>1, <2>2 DEF IsLog, IsEvent
        <4>3. QED
          BY <1>1, <4>1, <4>2 DEF Before
      <3>3. Latest(U) = d
        <4> HIDE DEF U
        <4>1. QED
          BY <2>2, <3>2, LatestUnique
      <3> HIDE DEF U, last
      <3>4. ApplyEvent(DeriveFrom(U), e) = DeriveFrom(U)
        BY <1>1, <2>5, <3>3, ApplyTwice
      <3>5. QED
        BY <2>4, <2>6, <3>1, <3>4 DEF U
    <2>7. CASE last # e
      <3>1. last # d
        <4>1. last = d => Before(e, d)
          BY <1>1, <2>1, <2>2
        <4>2. ~Before(e, d)
          BY <1>1, LogOrder
        <4>3. QED
          BY <4>1, <4>2
      <3>2. last \in U /\ \A x \in U : x = last \/ Before(x, last)
        BY <2>2, <2>7
      <3>3. Latest(U) = last
        <4> HIDE DEF U, last
        <4>1. QED
          BY <2>2, <3>2, LatestUnique
      <3>4. Rest(U) = Rest(T) \ {e} /\ e \in Rest(T) /\ d \in Rest(T)
        BY <2>1, <2>7, <3>1, <3>3 DEF Rest
      <3>5. DeriveFrom(Rest(T)) = DeriveFrom(Rest(U))
        BY <1>3, <3>4
      <3>6. QED
        BY <2>4, <2>5, <3>3, <3>5
    <2>8. QED
      BY <2>6, <2>7
  <1>4. S \in Good
    <2> HIDE DEF Good
    <2>1. QED
      BY <1>2, <1>3, LogInd
  <1>5. QED
    BY <1>4

(* An append whose answer was lost and which is sent again changes nothing *)
(* but for a task_done, if no other event has the same timestamp.          *)
THEOREM RetriesAreHarmless == Spec => RetryHarmless
  <1> DEFINE Harmless == \A e \in events :
               (/\ Added = [e EXCEPT !.id = NextId] /\ e.kind # "task_done"
                /\ \A d \in events : d.ts = e.ts => d = e)
                 => tables' = tables
  <1>1. IInv /\ [Next]_vars => [Harmless]_vars
    <2>1. SUFFICES ASSUME IInv, Next, NEW d \in events, Added = [d EXCEPT !.id = NextId],
                          d.kind # "task_done", \A x \in events : x.ts = d.ts => x = d
                   PROVE  tables' = tables
      BY DEF vars
    <2>2. PICK e : Arrives(e) /\ e \notin events
      BY <2>1, EventArrives
    <2> DEFINE S == events \union {e}
    <2>3. IsLog(S) /\ Added = e /\ IsEvent(d) /\ d.id \in 1..Cardinality(events)
      BY <2>1, <2>2, LogGrows, AddedIs DEF IInv, EventsFit, IsLog
    <2>4. tables' = DeriveFrom(S) /\ tables = DeriveFrom(events)
      BY <2>1, <2>2 DEF IInv, Arrives, Insert
    <2>5. d.id < e.id
      <3>1. Cardinality(events) \in Nat /\ e.id = Cardinality(events) + 1
        BY <2>1, <2>2, FS_CardinalityType DEF IInv, EventsFit, IsLog, Arrives, NextId
      <3>2. QED
        BY <2>3, <3>1
    <2>6. e = WithId(d, e.id, d.ts)
      <3>1. d = WithId(d, d.id, d.ts) /\ e = [d EXCEPT !.id = e.id]
        BY <2>1, <2>2, <2>3 DEF IsEvent, Arrives
      <3>2. [WithId(d, d.id, d.ts) EXCEPT !.id = e.id] = WithId(d, e.id, d.ts)
        BY DEF WithId
      <3>3. QED
        BY <3>1, <3>2
    <2>7. S \ {e} = events /\ e \in S /\ d \in S /\ \A x \in S : x.ts = d.ts => x = d \/ x = e
      BY <2>1, <2>2
    <2> HIDE DEF S
    <2>8. DeriveFrom(S) = DeriveFrom(S \ {e})
      <3>1. d.kind # "task_done"
        BY <2>1
      <3>2. IsLog(S) /\ d \in S /\ e \in S /\ \A x \in S : x.ts = d.ts => x = d \/ x = e
        BY <2>3, <2>7
      <3>3. QED
        BY <2>5, <2>6, <3>1, <3>2, CopyIs
    <2>9. QED
      BY <2>4, <2>7, <2>8
  <1>2. QED
    BY IInvAlways, <1>1, PTL DEF Spec, RetryHarmless

=============================================================================
