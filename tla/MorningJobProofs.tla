-------------------------- MODULE MorningJobProofs --------------------------
(***************************************************************************)
(* The daily job, for any sets of items, keys and concepts and any number  *)
(* of days, jobs and faults: no item is reported twice, the public data is *)
(* whole wherever a job fails, a job that succeeds leaves its three stores *)
(* in agreement, and stars stay where they are.                            *)
(***************************************************************************)
EXTENDS MorningJob, FiniteSetTheorems, WellFoundedInduction, TLAPS

LogFits == today \in Nat /\ \E Entries : log \in Seq(Entries)

(* What jobs have recorded is not of a day to come, so a later selection   *)
(* sees it.                                                                *)
NotAhead == \A i \in DOMAIN log : ~log[i].late => log[i].date \in 0..today

(* What is about to be recorded shares no key with what jobs have recorded.*)
CitedIsNew ==
  pc = "append" =>
     \A i \in DOMAIN log : ~log[i].late => KeysOfAll(cited) \intersect CitedKeys(log[i]) = {}

IInv == LogFits /\ NotAhead /\ CitedIsNew /\ ProposedOnce

----------------------------------------------------------------------------
(* The steps *)

(* One INSERT: the earlier batches stay and the new one is the request's.  *)
LEMMA AppendedBatch ==
  ASSUME LogFits, NEW what, NEW flag, Execute("append", what, flag)
  PROVE  /\ \E Entries : log' \in Seq(Entries)
         /\ Len(log) \in Nat
         /\ DOMAIN log = 1..Len(log) /\ DOMAIN log' = 1..(Len(log) + 1)
         /\ \A i \in DOMAIN log : log'[i] = log[i]
         /\ log'[Len(log) + 1].cited = what.cited
         /\ log'[Len(log) + 1].date = what.date
         /\ log'[Len(log) + 1].late = flag
  <1> DEFINE b == [topics |-> what.topics, cited |-> what.cited,
                   date |-> what.date, late |-> flag]
  <1>1. b.cited = what.cited /\ b.date = what.date /\ b.late = flag
    OBVIOUS
  <1>2. log' = Append(log, b)
    BY DEF Execute
  <1> HIDE DEF b
  <1>3. PICK Entries : log \in Seq(Entries)
    BY DEF LogFits
  <1>4. log \in Seq(Entries \union {b}) /\ b \in Entries \union {b}
    BY <1>3
  <1>5. QED
    BY <1>1, <1>2, <1>4

(* The items of a selection share no key with those of earlier reports.    *)
LEMMA SelectionIsNew ==
  ASSUME NotAhead, NEW fresh, NEW top \in Selections(Unseen(fresh, SeenKeys(today))),
         NEW s \in Syntheses(top), today \in Nat
  PROVE  \A i \in DOMAIN log :
            ~log[i].late => KeysOfAll(s.cited) \intersect CitedKeys(log[i]) = {}
  <1>1. s.cited \subseteq top
    BY DEF Syntheses
  <1>2. \A x \in s.cited : KeysOf[x] \intersect SeenKeys(today) = {}
    BY <1>1 DEF Selections, Unseen
  <1>3. \A i \in DOMAIN log : ~log[i].late => CitedKeys(log[i]) \subseteq SeenKeys(today)
    BY DEF NotAhead, SeenKeys
  <1>4. QED
    BY <1>2, <1>3 DEF KeysOfAll

(* Steps that leave the log alone. *)
LEMMA LogSame ==
  ASSUME IInv, log' = log, today' \in Nat, today' >= today, CitedIsNew'
  PROVE  IInv'
  <1>1. LogFits'
    BY DEF IInv, LogFits
  <1>2. NotAhead'
    BY DEF IInv, LogFits, NotAhead
  <1>3. ProposedOnce'
    BY DEF IInv, ProposedOnce, CitedKeys
  <1>4. QED
    BY <1>1, <1>2, <1>3 DEF IInv

LEMMA AppendEventsKeeps ==
  ASSUME IInv, AppendEvents
  PROVE  IInv'
  <1> DEFINE rows == [topics |-> topics, cited |-> cited, date |-> today]
             n == Len(log) + 1
  <1>1. /\ pc = "append" /\ What = rows /\ Execute("append", rows, FALSE)
        /\ pc' = "rebuild" /\ today' = today
    BY DEF AppendEvents, Call, Goto, What
  <1>2. rows.cited = cited /\ rows.date = today
    OBVIOUS
  <1> HIDE DEF rows
  <1>3. /\ \E Entries : log' \in Seq(Entries)
        /\ Len(log) \in Nat
        /\ DOMAIN log = 1..Len(log) /\ DOMAIN log' = 1..n
        /\ \A i \in DOMAIN log : log'[i] = log[i]
        /\ log'[n].cited = cited /\ log'[n].date = today /\ log'[n].late = FALSE
    BY <1>1, <1>2, AppendedBatch DEF IInv
  <1> HIDE DEF n
  <1>4. n = Len(log) + 1
    BY DEF n
  <1>5. LogFits'
    BY <1>1, <1>3 DEF IInv, LogFits
  <1>6. NotAhead'
    BY <1>1, <1>3, <1>4 DEF IInv, LogFits, NotAhead
  <1>7. CitedIsNew'
    BY <1>1 DEF CitedIsNew
  <1>8. ProposedOnce'
    <2>1. ASSUME NEW i \in DOMAIN log', NEW j \in DOMAIN log',
                 i < j, ~log'[i].late, ~log'[j].late
          PROVE  CitedKeys(log'[i]) \intersect CitedKeys(log'[j]) = {}
      <3>1. i \in DOMAIN log
        BY <1>3, <1>4, <2>1
      <3>2. CASE j \in DOMAIN log
        BY <1>3, <2>1, <3>1, <3>2 DEF IInv, ProposedOnce
      <3>3. CASE j = n
        BY <1>1, <1>3, <2>1, <3>1, <3>3 DEF IInv, CitedIsNew, CitedKeys
      <3>4. QED
        BY <1>3, <1>4, <3>2, <3>3
    <2>2. QED
      BY <2>1 DEF ProposedOnce, CitedKeys
  <1>9. QED
    BY <1>5, <1>6, <1>7, <1>8 DEF IInv

LEMMA ServeLateKeeps ==
  ASSUME IInv, NEW m \in late, ServeLate(m)
  PROVE  IInv'
  <1>1. /\ UNCHANGED <<pc, today, cited>>
        /\ Execute(m.kind, m.what, TRUE)
    BY DEF ServeLate, jobVars
  <1>2. CASE m.kind # "append"
    <2>1. log' = log
      BY <1>1, <1>2 DEF Execute
    <2>2. CitedIsNew'
      BY <1>1, <2>1 DEF IInv, CitedIsNew, CitedKeys
    <2>3. QED
      BY <1>1, <2>1, <2>2, LogSame DEF IInv, LogFits
  <1>3. CASE m.kind = "append"
    <2> DEFINE n == Len(log) + 1
    <2>1. /\ \E Entries : log' \in Seq(Entries)
          /\ Len(log) \in Nat
          /\ DOMAIN log = 1..Len(log) /\ DOMAIN log' = 1..n
          /\ \A i \in DOMAIN log : log'[i] = log[i]
          /\ log'[n].late = TRUE
      BY <1>1, <1>3, AppendedBatch DEF IInv
    <2>2. \A i \in DOMAIN log' : ~log'[i].late => i \in DOMAIN log /\ log'[i] = log[i]
      <3>1. n = Len(log) + 1
        OBVIOUS
      <3> HIDE DEF n
      <3>2. \A i \in DOMAIN log' : i = n \/ i \in DOMAIN log
        BY <2>1, <3>1
      <3>3. QED
        BY <2>1, <3>2
    <2>3. LogFits'
      BY <1>1, <2>1 DEF IInv, LogFits
    <2>4. NotAhead'
      BY <1>1, <2>2 DEF IInv, NotAhead
    <2>5. CitedIsNew'
      BY <1>1, <2>2 DEF IInv, CitedIsNew, CitedKeys
    <2>6. ProposedOnce'
      BY <2>2 DEF IInv, ProposedOnce, CitedKeys
    <2>7. QED
      BY <2>3, <2>4, <2>5, <2>6 DEF IInv
  <1>4. QED
    BY <1>2, <1>3

LEMMA SelectKeeps ==
  ASSUME IInv, Select
  PROVE  IInv'
  <1>1. PICK found \in Collected :
          \E top \in Selections(Unseen(Deduped(found), SeenKeys(today))) :
            \/ top = {} /\ topics' = {} /\ cited' = {} /\ Goto("report")
            \/ /\ top # {}
               /\ \E s \in Syntheses(top) :
                    /\ topics' = s.topics /\ cited' = s.cited
                    /\ \/ s.topics = {} /\ Goto("rebuild")
                       \/ s.topics # {} /\ Batches < MaxBatches /\ Goto("append")
    BY DEF Select
  <1>2. PICK top \in Selections(Unseen(Deduped(found), SeenKeys(today))) :
            \/ top = {} /\ topics' = {} /\ cited' = {} /\ Goto("report")
            \/ /\ top # {}
               /\ \E s \in Syntheses(top) :
                    /\ topics' = s.topics /\ cited' = s.cited
                    /\ \/ s.topics = {} /\ Goto("rebuild")
                       \/ s.topics # {} /\ Batches < MaxBatches /\ Goto("append")
    BY <1>1
  <1>3. log' = log /\ today' = today
    BY DEF Select, serverVars
  <1>4. CASE topics' = {} /\ cited' = {} /\ Goto("report")
    <2>1. CitedIsNew'
      BY <1>4 DEF CitedIsNew, Goto
    <2>2. QED
      BY <1>3, <1>4, <2>1, LogSame DEF IInv, LogFits
  <1>5. ASSUME NEW s \in Syntheses(top), topics' = s.topics, cited' = s.cited
        PROVE  IInv'
    <2>1. \A i \in DOMAIN log :
             ~log[i].late => KeysOfAll(s.cited) \intersect CitedKeys(log[i]) = {}
      BY SelectionIsNew DEF IInv, LogFits
    <2>2. CitedIsNew'
      BY <1>3, <1>5, <2>1 DEF CitedIsNew, CitedKeys
    <2>3. QED
      BY <1>3, <1>5, <2>1, <2>2, LogSame DEF IInv, LogFits
  <1>6. QED
    BY <1>2, <1>4, <1>5

(* Every other step leaves the log alone. *)
LEMMA OtherStepsKeep ==
  ASSUME IInv,
         \/ Start \/ Rebuild \/ ReplaceDerived \/ SaveReport \/ Snapshot \/ ReadStars
         \/ Export \/ Publish \/ Persist \/ Resend \/ Abort \/ RebuildElsewhere
         \/ UNCHANGED vars
  PROVE  IInv'
  <1> USE DEF serverVars, jobVars, Goto
  <1>1. CASE Start
    <2>1. log' = log /\ today' \in Nat /\ today' >= today /\ pc' # "append"
      BY <1>1 DEF Start, IInv, LogFits
    <2>2. QED
      BY <2>1, LogSame DEF CitedIsNew
  <1>2. CASE \/ Rebuild \/ ReplaceDerived \/ SaveReport \/ Snapshot \/ ReadStars
             \/ Export \/ Publish \/ Persist \/ Abort
    <2>1. log' = log /\ today' = today /\ pc' # "append"
      BY <1>2 DEF Rebuild, ReplaceDerived, SaveReport, Snapshot, ReadStars, Export,
         Publish, Persist, Abort, Call, Execute, Ends
    <2>2. QED
      BY <2>1, LogSame DEF IInv, LogFits, CitedIsNew
  <1>3. CASE Resend \/ RebuildElsewhere \/ UNCHANGED vars
    <2>1. UNCHANGED <<log, today, pc, cited>>
      BY <1>3 DEF Resend, RebuildElsewhere, vars
    <2>2. CitedIsNew'
      BY <2>1 DEF IInv, CitedIsNew, CitedKeys
    <2>3. QED
      BY <2>1, <2>2, LogSame DEF IInv, LogFits
  <1>4. QED
    BY <1>1, <1>2, <1>3

----------------------------------------------------------------------------

(* A failed job is run again from the start, on the same day or a later    *)
(* one; what it selects shares no key with what any earlier job recorded,  *)
(* whatever step that one failed at.                                       *)
THEOREM NoItemTwice == Spec => []ProposedOnce
  <1>1. Init => IInv
    BY DEF Init, IInv, LogFits, NotAhead, CitedIsNew, ProposedOnce
  <1>2. IInv /\ [Next]_vars => IInv'
    BY SelectKeeps, AppendEventsKeeps, ServeLateKeeps, OtherStepsKeep DEF Next, Job
  <1>3. IInv => ProposedOnce
    BY DEF IInv
  <1>4. QED
    BY <1>1, <1>2, <1>3, PTL DEF Spec

----------------------------------------------------------------------------
(* Finite sets of numbers, and induction by the smallest counterexample *)

(* Every set of numbers has a least one. *)
LEMMA MinIs ==
  ASSUME NEW S \in SUBSET Nat, S # {}
  PROVE  Min(S) \in S /\ \A y \in S : Min(S) <= y
  <1>1. IsWellFoundedOn(OpToRel(<, Nat), Nat)
    BY NatLessThanWellFounded
  <1>2. \E x \in S : \A y \in S : <<y, x>> \notin OpToRel(<, Nat)
    BY <1>1, WFMin
  <1>3. \A x, y \in Nat : y < x => <<y, x>> \in OpToRel(<, Nat)
    BY DEF OpToRel
  <1>4. PICK x \in S : \A y \in S : ~(y < x)
    BY <1>2, <1>3
  <1>5. \A y \in S : x <= y
    BY <1>4
  <1>6. QED
    BY <1>5 DEF Min

(* What holds of 0, and of n + 1 with n, holds of every number. *)
LEMMA NatInd ==
  ASSUME NEW T, 0 \in T, \A n \in Nat : n \in T => n + 1 \in T
  PROVE  Nat \subseteq T
  <1>1. SUFFICES ASSUME Nat \ T # {} PROVE FALSE
    OBVIOUS
  <1>2. PICK x \in Nat \ T : \A y \in Nat \ T : x <= y
    BY <1>1, MinIs
  <1>3. x # 0 /\ x - 1 \in Nat /\ x - 1 \in T /\ x = (x - 1) + 1
    BY <1>2
  <1>4. QED
    BY <1>2, <1>3

(* What holds of a finite set when it holds of all its proper subsets      *)
(* holds of all.                                                           *)
LEMMA SubsetInd ==
  ASSUME NEW S, IsFiniteSet(S), NEW Good,
         \A T \in SUBSET S : (\A U \in SUBSET T : U # T => U \in Good) => T \in Good
  PROVE  SUBSET S \subseteq Good
  <1> DEFINE Bad == {T \in SUBSET S : T \notin Good}
  <1>1. SUFFICES ASSUME Bad # {} PROVE FALSE
    OBVIOUS
  <1>2. Bad \subseteq FiniteSubsetsOf(S)
    BY FS_FiniteSubsetsOfFinite
  <1>3. PICK T \in Bad : \A U \in Bad : <<U, T>> \notin StrictSubsetOrdering(S)
    <2> HIDE DEF Bad
    <2>1. QED
      BY <1>1, <1>2, WFMin, FS_StrictSubsetOrderingWellFounded
  <1>4. ASSUME NEW U \in SUBSET T, U # T PROVE U \in Good
    BY <1>3, <1>4 DEF StrictSubsetOrdering
  <1>5. QED
    BY <1>3, <1>4

(* Every finite set of numbers has a greatest one. *)
LEMMA MaxIs ==
  ASSUME NEW S \in SUBSET Nat, IsFiniteSet(S), S # {}
  PROVE  Max(S) \in S /\ \A y \in S : y <= Max(S)
  <1> DEFINE Good == {T \in SUBSET S : T # {} => \E x \in T : \A y \in T : x >= y}
  <1>1. ASSUME NEW T \in SUBSET S, \A U \in SUBSET T : U # T => U \in Good
        PROVE  T \in Good
    <2>1. SUFFICES ASSUME T # {} PROVE \E x \in T : \A y \in T : x >= y
      OBVIOUS
    <2>2. PICK z \in T : TRUE
      BY <2>1
    <2>3. T \ {z} \in Good
      BY <1>1, <2>2
    <2>4. CASE T \ {z} = {}
      BY <2>2, <2>4
    <2>5. CASE T \ {z} # {}
      <3>1. PICK x \in T \ {z} : \A y \in T \ {z} : x >= y
        BY <2>3, <2>5
      <3>2. x \in Nat /\ z \in Nat
        BY <2>2, <3>1
      <3>3. CASE x >= z
        BY <3>1, <3>3
      <3>4. CASE z >= x
        <4>1. \A y \in T : z >= y
          BY <3>1, <3>2, <3>4
        <4>2. QED
          BY <4>1
      <3>5. QED
        BY <3>2, <3>3, <3>4
    <2>6. QED
      BY <2>4, <2>5
  <1>2. S \in Good
    <2> HIDE DEF Good
    <2>1. QED
      BY <1>1, SubsetInd
  <1>3. \E x \in S : \A y \in S : x >= y
    BY <1>2
  <1>4. Max(S) \in S /\ \A y \in S : Max(S) >= y
    BY <1>3 DEF Max
  <1>5. QED
    BY <1>4

(* Going through a finite set of numbers from the least one on: some       *)
(* function gives what is reached at each of its subsets.                  *)
Passes(S, base, step, g) ==
  \A T \in SUBSET S : g[T] = IF T = {} THEN base ELSE step[<<Max(T), g[T \ {Max(T)}]>>]

LEMMA PassExists ==
  ASSUME NEW S \in SUBSET Nat, IsFiniteSet(S), NEW V, NEW base \in V,
         NEW step \in [S \X V -> V]
  PROVE  \E g \in [SUBSET S -> V] : Passes(S, base, step, g)
  <1> DEFINE Next1(g) == [T \in SUBSET S |->
                            IF T = {} THEN base ELSE step[<<Max(T), g[T \ {Max(T)}]>>]]
             Right(g, n) == \A T \in SUBSET S : Cardinality(T) <= n => g[T] = Next1(g)[T]
             Depths == {n \in Nat : \E g \in [SUBSET S -> V] : Right(g, n)}
  <1>1. ASSUME NEW T \in SUBSET S
        PROVE  /\ Cardinality(T) \in Nat /\ (Cardinality(T) = 0 <=> T = {})
               /\ T # {} => /\ Max(T) \in S /\ T \ {Max(T)} \in SUBSET S
                            /\ Cardinality(T \ {Max(T)}) = Cardinality(T) - 1
    <2>1. IsFiniteSet(T) /\ T \in SUBSET Nat
      BY FS_Subset
    <2>2. T # {} => Max(T) \in T
      BY <2>1, MaxIs
    <2>3. QED
      BY <2>1, <2>2, FS_EmptySet, FS_CardinalityType, FS_RemoveElement
  <1>2. ASSUME NEW g \in [SUBSET S -> V]
        PROVE  Next1(g) \in [SUBSET S -> V]
    BY <1>1
  <1>3. ASSUME NEW g \in [SUBSET S -> V], NEW n \in Nat, Right(g, n)
        PROVE  Right(Next1(g), n + 1)
    <2>1. SUFFICES ASSUME NEW T \in SUBSET S, Cardinality(T) <= n + 1
                   PROVE  Next1(g)[T] = Next1(Next1(g))[T]
      OBVIOUS
    <2>2. CASE T = {}
      BY <2>2
    <2>3. CASE T # {}
      <3> DEFINE U == T \ {Max(T)}
      <3>1. U \in SUBSET S /\ Cardinality(U) <= n
        BY <1>1, <2>1, <2>3
      <3>2. g[U] = Next1(g)[U]
        BY <1>3, <3>1
      <3>3. QED
        BY <2>3, <3>1, <3>2
    <2>4. QED
      BY <2>2, <2>3
  <1>4. 0 \in Depths
    <2> DEFINE g == [T \in SUBSET S |-> base]
    <2>1. ASSUME NEW T \in SUBSET S, Cardinality(T) <= 0 PROVE T = {}
      <3>1. Cardinality(T) \in Nat /\ (Cardinality(T) = 0 <=> T = {})
        BY <1>1
      <3>2. QED
        BY <2>1, <3>1
    <2>2. Right(g, 0) /\ g \in [SUBSET S -> V]
      BY <2>1
    <2>3. QED
      BY <2>2
  <1>5. Nat \subseteq Depths
    <2>1. ASSUME NEW n \in Nat, n \in Depths PROVE n + 1 \in Depths
      <3>1. PICK g \in [SUBSET S -> V] : Right(g, n)
        BY <2>1
      <3> HIDE DEF Right, Next1
      <3>2. Right(Next1(g), n + 1)
        BY <1>3, <3>1
      <3>3. Next1(g) \in [SUBSET S -> V]
        BY <1>2
      <3>4. QED
        BY <3>2, <3>3
    <2> HIDE DEF Depths
    <2>2. QED
      BY <1>4, <2>1, NatInd
  <1>6. Cardinality(S) \in Depths
    BY <1>5, FS_CardinalityType
  <1>7. PICK g \in [SUBSET S -> V] : Right(g, Cardinality(S))
    BY <1>6
  <1>8. \A T \in SUBSET S : Cardinality(T) <= Cardinality(S)
    BY FS_Subset
  <1>9. \A T \in SUBSET S : g[T] = Next1(g)[T]
    BY <1>7, <1>8
  <1>10. QED
    BY <1>9 DEF Passes

----------------------------------------------------------------------------
(* Dedupe: which of the items found are kept *)

Kept(found, g) ==
  g = [S \in SUBSET found |-> IF S = {} THEN {} ELSE Keep(g[S \ {Max(S)}], Max(S))]

LEMMA DedupedIsKept ==
  ASSUME NEW found \in SUBSET Items
  PROVE  \E g : Kept(found, g) /\ Deduped(found) = g[found]
  <1> DEFINE V == SUBSET Items
             none == {}
             step == [p \in found \X V |-> Keep(p[2], p[1])]
  <1>1. found \in SUBSET Nat /\ IsFiniteSet(found)
    BY ItemsAssumption, FS_Subset
  <1>2. step \in [found \X V -> V] /\ none \in V
    BY DEF Keep
  <1>3. \A m \in found, v \in V : step[<<m, v>>] = Keep(v, m)
    OBVIOUS
  <1> HIDE DEF step, V, none
  <1>4. PICK g \in [SUBSET found -> V] : Passes(found, none, step, g)
    BY <1>1, <1>2, PassExists
  <1>5. ASSUME NEW T \in SUBSET found, T # {}
        PROVE  Max(T) \in found /\ T \ {Max(T)} \in SUBSET found
    BY <1>1, <1>5, FS_Subset, MaxIs
  <1>6. Kept(found, g)
    <2>1. ASSUME NEW T \in SUBSET found
          PROVE  g[T] = IF T = {} THEN {} ELSE Keep(g[T \ {Max(T)}], Max(T))
      BY <1>3, <1>4, <1>5 DEF none, Passes
    <2>2. QED
      BY <2>1, <1>4 DEF Kept
  <1>7. Deduped(found) = (CHOOSE h : Kept(found, h))[found]
    BY DEF Deduped, Kept
  <1>8. QED
    BY <1>6, <1>7

(* Items that are kept have no key in common, and every item that is       *)
(* dropped shares a key with an earlier one that is kept.                  *)
LEMMA DedupedFacts ==
  ASSUME NEW found \in SUBSET Items
  PROVE  /\ Deduped(found) \subseteq found
         /\ \A i, j \in Deduped(found) : i # j => KeysOf[i] \intersect KeysOf[j] = {}
         /\ \A i \in found \ Deduped(found) :
               \E j \in Deduped(found) : j < i /\ KeysOf[i] \intersect KeysOf[j] # {}
  <1>1. PICK g : Kept(found, g) /\ Deduped(found) = g[found]
    BY DedupedIsKept
  <1> DEFINE Fine(T, k) ==
               /\ k \subseteq T
               /\ \A i, j \in k : i # j => KeysOf[i] \intersect KeysOf[j] = {}
               /\ \A i \in T \ k : \E j \in k : j < i /\ KeysOf[i] \intersect KeysOf[j] # {}
             Good == {T \in SUBSET found : Fine(T, g[T])}
  <1>2. found \in SUBSET Nat /\ IsFiniteSet(found)
    BY ItemsAssumption, FS_Subset
  <1>3. ASSUME NEW T \in SUBSET found, \A U \in SUBSET T : U # T => U \in Good
        PROVE  T \in Good
    <2>1. CASE T = {}
      <3>1. g[T] = {}
        BY <1>1, <2>1 DEF Kept
      <3>2. QED
        BY <2>1, <3>1
    <2>2. CASE T # {}
      <3> DEFINE last == Max(T)
                 before == g[T \ {last}]
      <3>1. last \in T /\ (\A y \in T : y <= last)
        BY <1>2, <2>2, FS_Subset, MaxIs
      <3>2. g[T] = Keep(before, last)
        BY <1>1, <2>2 DEF Kept
      <3>3. Fine(T \ {last}, before)
        <4>1. T \ {last} \in SUBSET T /\ T \ {last} # T
          BY <3>1
        <4>2. T \ {last} \in Good
          BY <1>3, <4>1
        <4>3. QED
          BY <4>2
      <3>4. \A i \in T : i \in Nat
        BY <1>2
      <3> HIDE DEF last, before
      <3>5. CASE KeysOf[last] \intersect KeysOfAll(before) = {}
        <4>1. g[T] = before \union {last}
          BY <3>2, <3>5 DEF Keep
        <4>2. \A j \in before : KeysOf[last] \intersect KeysOf[j] = {}
          BY <3>5 DEF KeysOfAll
        <4>3. Fine(T, before \union {last})
          BY <3>1, <3>3, <4>2
        <4>4. QED
          BY <4>1, <4>3
      <3>6. CASE KeysOf[last] \intersect KeysOfAll(before) # {}
        <4>1. g[T] = before
          BY <3>2, <3>6 DEF Keep
        <4>2. PICK j \in before : KeysOf[last] \intersect KeysOf[j] # {}
          BY <3>6 DEF KeysOfAll
        <4>3. j < last
          BY <3>1, <3>3, <3>4
        <4>4. Fine(T, before)
          BY <3>1, <3>3, <4>2, <4>3
        <4>5. QED
          BY <4>1, <4>4
      <3>7. QED
        BY <3>5, <3>6
    <2>3. QED
      BY <2>1, <2>2
  <1>4. found \in Good
    <2> HIDE DEF Good
    <2>1. QED
      BY <1>2, <1>3, SubsetInd
  <1>5. QED
    BY <1>1, <1>4

----------------------------------------------------------------------------
(* Layout: where the stars are *)

Places == PartialFunctions(Concepts, Nat)

LEMMA PartialFunctionIs ==
  ASSUME NEW S, NEW T, NEW f
  PROVE  f \in PartialFunctions(S, T)
            <=> f \in [DOMAIN f -> T] /\ DOMAIN f \subseteq S
  BY DEF PartialFunctions

(* One of the angles that are tried is free: there are more of them than   *)
(* stars in the sky.                                                       *)
LEMMA FreePlaceIsFree ==
  ASSUME NEW c \in Concepts, NEW places \in Places
  PROVE  FreePlace(c, places) \in Nat \ Range(places)
  <1> DEFINE n == Cardinality(DOMAIN places)
             tried == Home[c]..(Home[c] + n)
  <1>1. DOMAIN places \subseteq Concepts /\ places \in [DOMAIN places -> Nat]
    BY PartialFunctionIs DEF Places
  <1>2. IsFiniteSet(DOMAIN places) /\ n \in Nat
    BY <1>1, LayoutAssumption, FS_Subset, FS_CardinalityType
  <1>3. places \in Surjection(DOMAIN places, Range(places))
    BY <1>1 DEF Surjection, Range
  <1>4. IsFiniteSet(Range(places)) /\ Cardinality(Range(places)) <= n
    BY <1>2, <1>3, FS_Surjection
  <1>5. Home[c] \in Nat
    BY LayoutAssumption
  <1>6. Cardinality(tried) = n + 1 /\ tried \in SUBSET Nat
    <2> DEFINE h == Home[c]
    <2> HIDE DEF n, h
    <2>1. h \in Nat /\ n \in Nat
      BY <1>2, <1>5 DEF n, h
    <2>2. h \in Int /\ h + n \in Int /\ ~(h > h + n) /\ (h + n) - h + 1 = n + 1
      BY <2>1
    <2>3. Cardinality(h..(h + n)) = n + 1
      BY <2>2, FS_Interval
    <2>4. h..(h + n) \in SUBSET Nat
      BY <2>1
    <2>5. QED
      BY <2>3, <2>4 DEF n, h
  <1>7. tried \ Range(places) # {}
    <2>1. SUFFICES ASSUME tried \subseteq Range(places) PROVE FALSE
      OBVIOUS
    <2>2. Cardinality(tried) <= Cardinality(Range(places))
      BY <1>4, <2>1, FS_Subset
    <2>3. Cardinality(Range(places)) \in Nat
      BY <1>4, FS_CardinalityType
    <2> HIDE DEF tried, n
    <2>4. QED
      BY <1>2, <1>4, <1>6, <2>2, <2>3
  <1>8. CASE places = << >>
    <2>1. Range(places) = {}
      BY <1>8 DEF Range
    <2>2. QED
      BY <1>8, <2>1 DEF FreePlace
  <1>9. CASE places # << >>
    <2>1. FreePlace(c, places) = Min(tried \ Range(places))
      BY <1>9 DEF FreePlace
    <2> HIDE DEF tried
    <2>2. QED
      BY <1>6, <1>7, <2>1, MinIs
  <1>10. QED
    BY <1>8, <1>9

(* A star that is added at a free place. *)
LEMMA StarAdded ==
  ASSUME NEW c \in Concepts, NEW places \in Places, c \notin DOMAIN places
  PROVE  LET added == Put(places, c, FreePlace(c, places)) IN
         /\ added \in Places
         /\ DOMAIN added = DOMAIN places \union {c}
         /\ \A d \in DOMAIN places : added[d] = places[d]
         /\ IsInjective(places) => IsInjective(added)
  <1> DEFINE x == FreePlace(c, places)
             added == Put(places, c, x)
  <1>1. x \in Nat \ Range(places)
    BY FreePlaceIsFree
  <1> HIDE DEF x
  <1>2. DOMAIN places \subseteq Concepts /\ places \in [DOMAIN places -> Nat]
    BY PartialFunctionIs DEF Places
  <1>3. added = [d \in DOMAIN places \union {c} |-> IF d = c THEN x ELSE places[d]]
    BY DEF Put
  <1> HIDE DEF added
  <1>4. /\ DOMAIN added = DOMAIN places \union {c}
        /\ \A d \in DOMAIN places : added[d] = places[d]
        /\ added[c] = x
    BY <1>3
  <1>5. added \in [DOMAIN places \union {c} -> Nat]
    BY <1>1, <1>2, <1>3
  <1>6. added \in Places
    BY <1>2, <1>4, <1>5, PartialFunctionIs DEF Places
  <1>7. ASSUME IsInjective(places) PROVE IsInjective(added)
    <2>1. \A d \in DOMAIN places : places[d] # x
      BY <1>1 DEF Range
    <2>2. QED
      BY <1>4, <1>7, <2>1 DEF IsInjective
  <1>8. QED
    BY <1>4, <1>6, <1>7 DEF added, x

Filled(new, kept, g) ==
  g = [S \in SUBSET new |->
         IF S = {} THEN kept
         ELSE LET last == Max(S)
                  before == g[S \ {last}]
              IN  Put(before, last, FreePlace(last, before))]

LEMMA PlacedIsFilled ==
  ASSUME NEW kept \in Places, NEW new \in SUBSET (Concepts \ DOMAIN kept)
  PROVE  \E g : Filled(new, kept, g) /\ Placed(new, kept) = g[new]
  <1> DEFINE Add(m, v) == Put(v, m, FreePlace(m, v))
             step == [p \in new \X Places |->
                        IF p[1] \in DOMAIN p[2] THEN p[2] ELSE Add(p[1], p[2])]
  <1>0. new \in SUBSET Nat /\ IsFiniteSet(new)
    BY LayoutAssumption, FS_Subset
  <1>1. \A m \in new, v \in Places :
           step[<<m, v>>] = IF m \in DOMAIN v THEN v ELSE Add(m, v)
    OBVIOUS
  <1>2. \A m \in new, v \in Places :
           m \notin DOMAIN v => /\ Add(m, v) \in Places
                                /\ DOMAIN Add(m, v) = DOMAIN v \union {m}
    BY StarAdded
  <1>3. step \in [new \X Places -> Places]
    <2> HIDE DEF Add
    <2>1. \A p \in new \X Places : p[1] \in new /\ p[2] \in Places
      OBVIOUS
    <2>2. \A p \in new \X Places :
             (IF p[1] \in DOMAIN p[2] THEN p[2] ELSE Add(p[1], p[2])) \in Places
      BY <1>2, <2>1
    <2>3. QED
      BY <2>2
  <1> HIDE DEF step
  <1>4. PICK g \in [SUBSET new -> Places] : Passes(new, kept, step, g)
    BY <1>0, <1>3, PassExists
  <1>5. ASSUME NEW T \in SUBSET new, T # {}
        PROVE  Max(T) \in T /\ T \ {Max(T)} \in SUBSET new
    BY <1>0, <1>5, FS_Subset, MaxIs
  <1> DEFINE Good == {T \in SUBSET new : DOMAIN g[T] = DOMAIN kept \union T}
  <1>6. ASSUME NEW T \in SUBSET new, \A U \in SUBSET T : U # T => U \in Good
        PROVE  T \in Good
    <2>1. CASE T = {}
      BY <1>4, <2>1 DEF Passes
    <2>2. CASE T # {}
      <3> DEFINE last == Max(T)
                 before == g[T \ {last}]
      <3>1. last \in T /\ T \ {last} \in SUBSET new
        BY <1>5, <2>2
      <3>2. DOMAIN before = DOMAIN kept \union (T \ {last}) /\ before \in Places
        BY <1>4, <1>6, <3>1
      <3>3. g[T] = step[<<last, before>>]
        BY <1>4, <2>2 DEF Passes
      <3> HIDE DEF last, before, Add
      <3>4. last \in new /\ last \notin DOMAIN before
        BY <3>1, <3>2
      <3>5. g[T] = Add(last, before)
        BY <1>1, <3>2, <3>3, <3>4
      <3>6. DOMAIN g[T] = DOMAIN kept \union T
        BY <1>2, <3>1, <3>2, <3>4, <3>5
      <3>7. QED
        BY <3>6
    <2>3. QED
      BY <2>1, <2>2
  <1>7. SUBSET new \subseteq Good
    <2> DEFINE all == new
    <2> HIDE DEF Good
    <2>1. IsFiniteSet(all)
      BY <1>0
    <2>2. \A T \in SUBSET all : (\A U \in SUBSET T : U # T => U \in Good) => T \in Good
      BY <1>6
    <2> HIDE DEF all
    <2>3. SUBSET all \subseteq Good
      BY <2>1, <2>2, SubsetInd
    <2>4. QED
      BY <2>3 DEF all
  <1>8. Filled(new, kept, g)
    <2>1. ASSUME NEW T \in SUBSET new, T # {}
          PROVE  g[T] = Add(Max(T), g[T \ {Max(T)}])
      <3>1. Max(T) \notin DOMAIN g[T \ {Max(T)}] /\ Max(T) \in new
        BY <1>5, <1>7, <2>1
      <3>2. T \ {Max(T)} \in SUBSET new /\ g[T \ {Max(T)}] \in Places
        BY <1>4, <1>5, <2>1
      <3>3. g[T] = step[<<Max(T), g[T \ {Max(T)}]>>]
        BY <1>4, <2>1 DEF Passes
      <3> HIDE DEF Add
      <3>4. QED
        BY <1>1, <3>1, <3>2, <3>3
    <2>2. g = [T \in SUBSET new |-> IF T = {} THEN kept ELSE Add(Max(T), g[T \ {Max(T)}])]
      <3> HIDE DEF Add
      <3>1. QED
        BY <1>4, <2>1 DEF Passes
    <2>3. QED
      BY <2>2 DEF Filled
  <1>9. Placed(new, kept) = (CHOOSE h : Filled(new, kept, h))[new]
    BY DEF Placed, Filled
  <1>10. QED
    BY <1>8, <1>9

(* Kept stars stay where they are, and no two stars share a place unless   *)
(* two kept ones did.                                                      *)
LEMMA PlacedFacts ==
  ASSUME NEW kept \in Places, NEW new \in SUBSET (Concepts \ DOMAIN kept)
  PROVE  /\ Placed(new, kept) \in Places
         /\ DOMAIN Placed(new, kept) = DOMAIN kept \union new
         /\ \A c \in DOMAIN kept : Placed(new, kept)[c] = kept[c]
         /\ IsInjective(kept) => IsInjective(Placed(new, kept))
  <1>1. PICK g : Filled(new, kept, g) /\ Placed(new, kept) = g[new]
    BY PlacedIsFilled
  <1> DEFINE Fine(T, p) == /\ p \in Places
                           /\ DOMAIN p = DOMAIN kept \union T
                           /\ \A c \in DOMAIN kept : p[c] = kept[c]
                           /\ IsInjective(kept) => IsInjective(p)
             Good == {T \in SUBSET new : Fine(T, g[T])}
  <1>2. new \in SUBSET Nat /\ IsFiniteSet(new)
    BY LayoutAssumption, FS_Subset
  <1>3. ASSUME NEW T \in SUBSET new, \A U \in SUBSET T : U # T => U \in Good
        PROVE  T \in Good
    <2>1. CASE T = {}
      <3>1. g[T] = kept
        BY <1>1, <2>1 DEF Filled
      <3>2. QED
        BY <2>1, <3>1
    <2>2. CASE T # {}
      <3> DEFINE last == Max(T)
                 before == g[T \ {last}]
      <3>1. last \in T
        BY <1>2, <2>2, FS_Subset, MaxIs
      <3>2. g[T] = Put(before, last, FreePlace(last, before))
        BY <1>1, <2>2 DEF Filled
      <3>3. Fine(T \ {last}, before)
        <4>1. T \ {last} \in SUBSET T /\ T \ {last} # T
          BY <3>1
        <4>2. T \ {last} \in Good
          BY <1>3, <4>1
        <4>3. QED
          BY <4>2
      <3> HIDE DEF last, before
      <3>4. last \in Concepts /\ last \notin DOMAIN before
        BY <3>1, <3>3
      <3>5. /\ g[T] \in Places
            /\ DOMAIN g[T] = DOMAIN before \union {last}
            /\ \A d \in DOMAIN before : g[T][d] = before[d]
            /\ IsInjective(before) => IsInjective(g[T])
        <4> HIDE DEF Good
        <4>1. before \in Places
          BY <3>3
        <4>2. QED
          BY <3>2, <3>4, <4>1, StarAdded
      <3>6. Fine(T, g[T])
        BY <3>1, <3>3, <3>5
      <3>7. QED
        BY <3>6
    <2>3. QED
      BY <2>1, <2>2
  <1>4. new \in Good
    <2> HIDE DEF Good
    <2>1. QED
      BY <1>2, <1>3, SubsetInd
  <1>5. QED
    BY <1>1, <1>4

LEMMA BuildLayoutFacts ==
  ASSUME NEW existing \in Places, NEW S \in SUBSET Concepts
  PROVE  /\ BuildLayout(S, existing) \in Places
         /\ DOMAIN BuildLayout(S, existing) = S
         /\ \A c \in S \intersect DOMAIN existing : BuildLayout(S, existing)[c] = existing[c]
         /\ IsInjective(existing) => IsInjective(BuildLayout(S, existing))
  <1> DEFINE D == S \intersect DOMAIN existing
             kept == Restrict(existing, D)
  <1>1. kept = [c \in D |-> existing[c]]
    BY DEF Restrict
  <1>2. DOMAIN existing \subseteq Concepts /\ existing \in [DOMAIN existing -> Nat]
    BY PartialFunctionIs DEF Places
  <1> HIDE DEF kept
  <1>3. DOMAIN kept = D /\ kept \in [D -> Nat] /\ \A c \in D : kept[c] = existing[c]
    BY <1>1, <1>2
  <1>4. kept \in Places
    BY <1>3, PartialFunctionIs DEF Places
  <1>5. IsInjective(existing) => IsInjective(kept)
    BY <1>3 DEF IsInjective
  <1>6. BuildLayout(S, existing) = Placed(S \ D, kept)
    BY <1>3 DEF BuildLayout, kept
  <1>7. S \ D \in SUBSET (Concepts \ DOMAIN kept)
    BY <1>3
  <1>8. /\ Placed(S \ D, kept) \in Places
        /\ DOMAIN Placed(S \ D, kept) = DOMAIN kept \union (S \ D)
        /\ \A c \in DOMAIN kept : Placed(S \ D, kept)[c] = kept[c]
        /\ IsInjective(kept) => IsInjective(Placed(S \ D, kept))
    BY <1>4, <1>7, PlacedFacts
  <1>9. QED
    BY <1>3, <1>5, <1>6, <1>8

LEMMA PlacesAre == \A p : p \in Places <=> IsPlaces(p)
  BY PartialFunctionIs DEF Places, IsPlaces

----------------------------------------------------------------------------
(* Types *)

(* A report is saved before anything is exported, and none is taken back.  *)
HasReport ==
  /\ pc \in {"snapshot", "stars", "export", "publish", "persist"} => DOMAIN reports # {}
  /\ pc \in {"publish", "persist"} => DOMAIN tree.index # {}

TInv == TypeOK /\ HasReport

ServerTypes ==
  /\ log \in Seq(Batch)
  /\ tables \subseteq Concepts
  /\ reports \in Reports
  /\ published \in [stars : SUBSET Concepts, new : SUBSET Concepts,
                    places : {published.places}, index : Reports, pages : Reports]
  /\ IsPlaces(published.places)

FileTypes == IsFiles(repo) /\ repo.events <= Len(log) /\ IsFiles(tree) /\ tree.events <= Len(log)

JobTypes ==
  /\ pc \in {"idle", "collect", "rebuild", "snapshot", "stars", "export", "persist"}
            \union Requests
  /\ today \in Days
  /\ topics \subseteq Concepts /\ cited \subseteq Items
  /\ stars \subseteq Concepts
  /\ attempt \in 0..1

NetTypes ==
  /\ \A m \in late : m.kind \in Requests /\ m.id \in 1..lost /\ Fits(m.kind, m.what)
  /\ lost \in 0..MaxLost /\ faults \in 0..MaxFaults
  /\ clean \in BOOLEAN

LEMMA TypeParts ==
  /\ TypeOK <=> ServerTypes /\ FileTypes /\ JobTypes /\ NetTypes
  /\ TypeOK' <=> ServerTypes' /\ FileTypes' /\ JobTypes' /\ NetTypes'
  BY DEF TypeOK, ServerTypes, FileTypes, JobTypes, NetTypes

LEMMA ReportsAre ==
  ASSUME NEW f
  PROVE  f \in Reports <=> f \in [DOMAIN f -> SUBSET Concepts] /\ DOMAIN f \subseteq Days
  BY PartialFunctionIs DEF Reports

LEMMA PutReport ==
  ASSUME NEW f \in Reports, NEW d \in Days, NEW ts \in SUBSET Concepts
  PROVE  /\ Put(f, d, ts) \in Reports
         /\ DOMAIN Put(f, d, ts) = DOMAIN f \union {d}
         /\ Put(f, d, ts)[d] = ts
         /\ \A e \in DOMAIN f : e # d => Put(f, d, ts)[e] = f[e]
  <1> DEFINE g == Put(f, d, ts)
  <1>1. f \in [DOMAIN f -> SUBSET Concepts] /\ DOMAIN f \subseteq Days
    BY ReportsAre
  <1>2. g = [x \in DOMAIN f \union {d} |-> IF x = d THEN ts ELSE f[x]]
    BY DEF Put
  <1> HIDE DEF g
  <1>3. DOMAIN g = DOMAIN f \union {d} /\ g[d] = ts /\ \A e \in DOMAIN f : e # d => g[e] = f[e]
    BY <1>2
  <1>4. g \in [DOMAIN g -> SUBSET Concepts]
    BY <1>1, <1>2, <1>3
  <1>5. g \in Reports
    BY <1>1, <1>3, <1>4, ReportsAre
  <1>6. QED
    BY <1>3, <1>5 DEF g

LEMMA NewestDay ==
  ASSUME NEW f \in Reports, DOMAIN f # {}
  PROVE  /\ Max(DOMAIN f) \in DOMAIN f /\ Max(DOMAIN f) \in Days
         /\ \A d \in DOMAIN f : d <= Max(DOMAIN f)
         /\ f[Max(DOMAIN f)] \subseteq Concepts
  <1>1. f \in [DOMAIN f -> SUBSET Concepts] /\ DOMAIN f \subseteq Days
    BY ReportsAre
  <1>2. IsFiniteSet(Days) /\ Days \in SUBSET Nat
    BY MorningAssumption, FS_Interval DEF Days
  <1>3. IsFiniteSet(DOMAIN f) /\ DOMAIN f \in SUBSET Nat
    BY <1>1, <1>2, FS_Subset
  <1>4. QED
    BY <1>1, <1>3, MaxIs

(* What a request of the job brings fits. *)
LEMMA WhatFits ==
  ASSUME TInv, pc \in Requests
  PROVE  Fits(pc, What)
  <1>0. JobTypes /\ FileTypes
    BY TypeParts DEF TInv
  <1>1. CASE pc = "append"
    BY <1>0, <1>1 DEF What, Fits, JobTypes
  <1>2. CASE pc = "replace"
    BY <1>0, <1>2 DEF What, Fits, JobTypes
  <1>3. CASE pc = "report"
    BY <1>0, <1>3 DEF What, Fits, JobTypes
  <1>4. CASE pc = "publish"
    <2> DEFINE newest == Max(DOMAIN tree.index)
    <2>1. tree.index \in Reports /\ DOMAIN tree.index # {}
      BY <1>0, <1>4 DEF FileTypes, IsFiles, TInv, HasReport
    <2>2. newest \in Days /\ tree.index[newest] \subseteq Concepts
      BY <2>1, NewestDay
    <2>3. What = [stars |-> tree.stars, new |-> tree.new, places |-> tree.places,
                  index |-> tree.index,
                  page |-> [date |-> newest, topics |-> tree.index[newest]]]
      BY <1>4 DEF What, Artifacts
    <2> HIDE DEF newest
    <2>4. /\ tree.stars \subseteq Concepts /\ tree.new \subseteq Concepts
          /\ IsPlaces(tree.places)
      BY <1>0 DEF FileTypes, IsFiles
    <2>5. Fits("publish", What)
      BY <2>1, <2>2, <2>3, <2>4 DEF Fits
    <2>6. QED
      BY <1>4, <2>5
  <1>5. QED
    BY <1>1, <1>2, <1>3, <1>4 DEF Requests

(* A request that fits keeps the server's types, and takes nothing back.   *)
LEMMA ExecuteTypes ==
  ASSUME ServerTypes, NEW kind \in Requests, NEW what, Fits(kind, what),
         NEW flag \in BOOLEAN, Execute(kind, what, flag)
  PROVE  /\ ServerTypes'
         /\ Len(log) \in Nat /\ Len(log') \in Nat /\ Len(log') >= Len(log)
         /\ DOMAIN reports \subseteq DOMAIN reports'
         /\ kind = "report" => DOMAIN reports' # {}
  <1>0. Len(log) \in Nat
    BY DEF ServerTypes
  <1>1. CASE kind = "append"
    <2> DEFINE b == [topics |-> what.topics, cited |-> what.cited,
                     date |-> what.date, late |-> flag]
    <2>1. what \in [topics : SUBSET Concepts, cited : SUBSET Items, date : Days]
      BY <1>1 DEF Fits
    <2>2. b \in Batch
      BY <2>1 DEF Batch
    <2>3. log' = Append(log, b) /\ UNCHANGED <<tables, reports, published>>
      BY <1>1 DEF Execute
    <2> HIDE DEF b
    <2>4. log' \in Seq(Batch) /\ Len(log') = Len(log) + 1
      BY <2>2, <2>3 DEF ServerTypes
    <2>5. QED
      BY <1>0, <1>1, <2>3, <2>4 DEF ServerTypes
  <1>2. CASE kind = "replace"
    BY <1>0, <1>2 DEF Execute, Fits, ServerTypes
  <1>3. CASE kind = "report"
    <2>1. what.topics \in SUBSET Concepts /\ what.date \in Days
      BY <1>3 DEF Fits
    <2>2. reports' = Put(reports, what.date, what.topics) /\ UNCHANGED <<log, tables, published>>
      BY <1>3 DEF Execute
    <2>3. reports' \in Reports /\ DOMAIN reports' = DOMAIN reports \union {what.date}
      BY <2>1, <2>2, PutReport DEF ServerTypes
    <2>4. QED
      BY <1>0, <2>2, <2>3 DEF ServerTypes
  <1>4. CASE kind = "publish"
    <2>1. /\ what.stars \subseteq Concepts /\ what.new \subseteq Concepts
          /\ IsPlaces(what.places) /\ what.index \in Reports
          /\ what.page.date \in Days /\ what.page.topics \in SUBSET Concepts
      BY <1>4 DEF Fits
    <2>2. published.pages \in Reports
      BY DEF ServerTypes
    <2>3. Put(published.pages, what.page.date, what.page.topics) \in Reports
      BY <2>1, <2>2, PutReport
    <2> DEFINE pages == Put(published.pages, what.page.date, what.page.topics)
    <2>4. /\ published' = [stars |-> what.stars, new |-> what.new, places |-> what.places,
                           index |-> what.index, pages |-> pages]
          /\ UNCHANGED <<log, tables, reports>>
      BY <1>4 DEF Execute
    <2> HIDE DEF pages
    <2>5. pages \in Reports
      BY <2>3 DEF pages
    <2>6. published'.places = what.places
      BY <2>4
    <2>7. /\ published' \in [stars : SUBSET Concepts, new : SUBSET Concepts,
                             places : {published'.places}, index : Reports, pages : Reports]
          /\ IsPlaces(published'.places)
      BY <2>1, <2>4, <2>5, <2>6
    <2>8. QED
      BY <1>0, <1>4, <2>4, <2>7 DEF ServerTypes
  <1>5. QED
    BY <1>1, <1>2, <1>3, <1>4 DEF Requests

(* Files stay the files they are while the log grows. *)
LEMMA FilesStay ==
  ASSUME FileTypes, Len(log) \in Nat, Len(log') \in Nat, Len(log') >= Len(log),
         UNCHANGED <<repo, tree>>
  PROVE  FileTypes'
  <1>1. repo.events \in Nat /\ tree.events \in Nat
    BY DEF FileTypes, IsFiles
  <1>2. repo.events <= Len(log') /\ tree.events <= Len(log')
    BY <1>1 DEF FileTypes
  <1>3. QED
    BY <1>2 DEF FileTypes

LEMMA CallTypes ==
  ASSUME TInv, NEW kind \in Requests, NEW next, Call(kind, next),
         <<kind, next>> \in {<<"append", "rebuild">>, <<"replace", "report">>,
                             <<"report", "snapshot">>, <<"publish", "persist">>}
  PROVE  TInv'
  <1>1. pc = kind /\ Execute(kind, What, FALSE) /\ pc' = next /\ attempt' = 0
        /\ cited' = {} /\ stars' = {}
        /\ UNCHANGED <<repo, today, topics, tree, late, lost, faults, clean>>
    BY DEF Call, Goto, netVars
  <1>2. Fits(kind, What)
    BY <1>1, WhatFits
  <1>3. ServerTypes /\ FileTypes /\ JobTypes /\ NetTypes
    BY TypeParts DEF TInv
  <1>4. /\ ServerTypes'
        /\ Len(log) \in Nat /\ Len(log') \in Nat /\ Len(log') >= Len(log)
        /\ DOMAIN reports \subseteq DOMAIN reports'
        /\ kind = "report" => DOMAIN reports' # {}
    BY <1>1, <1>2, <1>3, ExecuteTypes
  <1>5. FileTypes'
    BY <1>1, <1>3, <1>4, FilesStay
  <1>6. JobTypes'
    BY <1>1, <1>3 DEF JobTypes, Requests
  <1>7. NetTypes'
    BY <1>1, <1>3 DEF NetTypes
  <1>8. HasReport'
    BY <1>1, <1>4 DEF TInv, HasReport
  <1>9. QED
    BY <1>4, <1>5, <1>6, <1>7, <1>8, TypeParts DEF TInv

LEMMA NothingFits ==
  /\ << >> \in Reports /\ IsPlaces(<< >>)
  /\ IsFiles(NoFiles) /\ NoFiles.events = 0
  <1>1. DOMAIN << >> = {} /\ \A T : << >> \in [DOMAIN << >> -> T]
    OBVIOUS
  <1>2. << >> \in Reports /\ IsPlaces(<< >>)
    BY <1>1, ReportsAre DEF IsPlaces
  <1>3. QED
    BY <1>2 DEF NoFiles, IsFiles

LEMMA SelectTypes ==
  ASSUME TInv, Select
  PROVE  TInv'
  <1>1. PICK found \in Collected :
          \E top \in Selections(Unseen(Deduped(found), SeenKeys(today))) :
            \/ top = {} /\ topics' = {} /\ cited' = {} /\ Goto("report")
            \/ /\ top # {}
               /\ \E s \in Syntheses(top) :
                    /\ topics' = s.topics /\ cited' = s.cited
                    /\ \/ s.topics = {} /\ Goto("rebuild")
                       \/ s.topics # {} /\ Batches < MaxBatches /\ Goto("append")
    BY DEF Select
  <1>2. PICK top \in Selections(Unseen(Deduped(found), SeenKeys(today))) :
            \/ top = {} /\ topics' = {} /\ cited' = {} /\ Goto("report")
            \/ /\ top # {}
               /\ \E s \in Syntheses(top) :
                    /\ topics' = s.topics /\ cited' = s.cited
                    /\ \/ s.topics = {} /\ Goto("rebuild")
                       \/ s.topics # {} /\ Batches < MaxBatches /\ Goto("append")
    BY <1>1
  <1>3. UNCHANGED <<log, tables, reports, published, repo, today, stars, tree,
                    late, lost, faults, clean>>
    BY DEF Select, serverVars, netVars
  <1>4. top \subseteq Items
    <2>1. found \in SUBSET Items
      BY DEF Collected
    <2>2. Deduped(found) \subseteq found
      BY <2>1, DedupedFacts
    <2>3. top \subseteq Deduped(found)
      BY DEF Selections, Unseen
    <2>4. QED
      BY <2>1, <2>2, <2>3
  <1>5. topics' \subseteq Concepts /\ cited' \subseteq Items
        /\ pc' \in {"report", "rebuild", "append"} /\ attempt' = 0
    BY <1>2, <1>4 DEF Syntheses, Goto
  <1>6. ServerTypes /\ FileTypes /\ JobTypes /\ NetTypes
    BY TypeParts DEF TInv
  <1>7. ServerTypes'
    BY <1>3, <1>6 DEF ServerTypes
  <1>8. FileTypes'
    BY <1>3, <1>6 DEF FileTypes
  <1>9. JobTypes'
    BY <1>3, <1>5, <1>6 DEF JobTypes, Requests
  <1>10. NetTypes'
    BY <1>3, <1>6 DEF NetTypes
  <1>11. HasReport'
    BY <1>5 DEF HasReport
  <1>12. QED
    BY <1>7, <1>8, <1>9, <1>10, <1>11, TypeParts DEF TInv

LEMMA ExportTypes ==
  ASSUME TInv, Export
  PROVE  TInv'
  <1>1. ServerTypes /\ FileTypes /\ JobTypes /\ NetTypes
    BY TypeParts DEF TInv
  <1>2. /\ pc = "export" /\ pc' = "publish" /\ attempt' = 0
        /\ UNCHANGED <<log, tables, reports, published, repo, today, topics, cited, stars,
                       late, lost, faults, clean>>
    BY DEF Export, Goto, serverVars, netVars
  <1> DEFINE new == {c \in stars : FirstDate(c) = Max(DOMAIN reports)}
             places == BuildLayout(stars, tree.places)
  <1>3. tree' = [events |-> tree.events, stars |-> stars, new |-> new, places |-> places,
                 index |-> reports]
    BY DEF Export
  <1>4. places \in Places
    <2>1. tree.places \in Places /\ stars \in SUBSET Concepts
      BY <1>1, PlacesAre DEF FileTypes, IsFiles, JobTypes
    <2>2. QED
      BY <2>1, BuildLayoutFacts
  <1>5. new \subseteq Concepts
    BY <1>1 DEF JobTypes
  <1> HIDE DEF new, places
  <1>6. tree.events \in Nat
    BY <1>1 DEF FileTypes, IsFiles
  <1>7. IsFiles(tree')
    <2>1. tree'.places = places
      BY <1>3
    <2>2. stars \subseteq Concepts /\ reports \in Reports
      BY <1>1 DEF JobTypes, ServerTypes
    <2>3. tree' \in [events : Nat, stars : SUBSET Concepts, new : SUBSET Concepts,
                     places : {tree'.places}, index : Reports]
      BY <1>3, <1>5, <1>6, <2>1, <2>2
    <2>4. IsPlaces(tree'.places)
      BY <1>4, <2>1, PlacesAre
    <2>5. QED
      BY <2>3, <2>4 DEF IsFiles
  <1>8. FileTypes'
    BY <1>1, <1>2, <1>3, <1>7 DEF FileTypes
  <1>9. ServerTypes' /\ JobTypes' /\ NetTypes'
    BY <1>1, <1>2 DEF ServerTypes, JobTypes, NetTypes, Requests
  <1>10. HasReport'
    BY <1>2, <1>3 DEF TInv, HasReport
  <1>11. QED
    BY <1>8, <1>9, <1>10, TypeParts DEF TInv

LEMMA LocalTypes ==
  ASSUME TInv, Start \/ Rebuild \/ Snapshot \/ ReadStars \/ Persist
  PROVE  TInv'
  <1> USE DEF Goto, serverVars, netVars
  <1>1. ServerTypes /\ FileTypes /\ JobTypes /\ NetTypes
    BY TypeParts DEF TInv
  <1>2. CASE Start
    <2>1. /\ pc' = "collect" /\ attempt' = 0 /\ tree' = repo /\ today' \in Days /\ clean' = TRUE
          /\ UNCHANGED <<log, tables, reports, published, repo, topics, cited, stars,
                         late, lost, faults>>
      BY <1>2 DEF Start
    <2>2. QED
      BY <1>1, <2>1, TypeParts DEF TInv, HasReport, ServerTypes, FileTypes, JobTypes, NetTypes
  <1>3. CASE Rebuild
    <2>1. /\ pc' = "replace" /\ attempt' = 0 /\ stars' = Proposed(log)
          /\ UNCHANGED <<log, tables, reports, published, repo, today, topics, cited, tree,
                         late, lost, faults, clean>>
      BY <1>3 DEF Rebuild
    <2>2. Proposed(log) \subseteq Concepts
      <3>1. \A i \in DOMAIN log : log[i] \in Batch
        BY <1>1 DEF ServerTypes
      <3>2. QED
        BY <3>1 DEF Proposed, Batch
    <2>3. ServerTypes' /\ FileTypes' /\ NetTypes' /\ HasReport'
      BY <1>1, <2>1 DEF HasReport, ServerTypes, FileTypes, NetTypes
    <2>4. JobTypes'
      BY <1>1, <2>1, <2>2 DEF JobTypes, Requests
    <2>5. QED
      BY <2>3, <2>4, TypeParts DEF TInv
  <1>4. CASE Snapshot
    <2>1. /\ pc = "snapshot" /\ pc' = "stars" /\ attempt' = 0
          /\ tree' = [tree EXCEPT !.events = Len(log)]
          /\ UNCHANGED <<log, tables, reports, published, repo, today, topics, cited, stars,
                         late, lost, faults, clean>>
      BY <1>4 DEF Snapshot
    <2>2. Len(log) \in Nat
      BY <1>1 DEF ServerTypes
    <2>3. tree \in [events : Nat, stars : SUBSET Concepts, new : SUBSET Concepts,
                    places : {tree.places}, index : Reports]
          /\ IsPlaces(tree.places)
      BY <1>1 DEF FileTypes, IsFiles
    <2>4. tree'.places = tree.places /\ tree'.events = Len(log)
      BY <2>1, <2>3
    <2>5. tree' \in [events : Nat, stars : SUBSET Concepts, new : SUBSET Concepts,
                     places : {tree.places}, index : Reports]
      BY <2>1, <2>2, <2>3
    <2>6. FileTypes'
      BY <1>1, <2>1, <2>2, <2>3, <2>4, <2>5 DEF FileTypes, IsFiles
    <2>7. ServerTypes' /\ JobTypes' /\ NetTypes' /\ HasReport'
      BY <1>1, <2>1 DEF TInv, HasReport, ServerTypes, JobTypes, NetTypes, Requests
    <2>8. QED
      BY <2>6, <2>7, TypeParts DEF TInv
  <1>5. CASE ReadStars
    <2>1. /\ pc = "stars" /\ pc' = "export" /\ attempt' = 0 /\ stars' = tables
          /\ UNCHANGED <<log, tables, reports, published, repo, today, topics, cited, tree,
                         late, lost, faults, clean>>
      BY <1>5 DEF ReadStars
    <2>2. QED
      BY <1>1, <2>1, TypeParts
         DEF TInv, HasReport, ServerTypes, FileTypes, JobTypes, NetTypes, Requests
  <1>6. CASE Persist
    <2>1. /\ pc' = "idle" /\ attempt' = 0 /\ repo' = tree /\ tree' = NoFiles
          /\ topics' = {} /\ cited' = {} /\ stars' = {}
          /\ UNCHANGED <<log, tables, reports, published, today, late, lost, faults, clean>>
      BY <1>6 DEF Persist, Ends
    <2>2. FileTypes'
      BY <1>1, <2>1, NothingFits DEF FileTypes, ServerTypes
    <2>3. QED
      BY <1>1, <2>1, <2>2, TypeParts DEF TInv, HasReport, ServerTypes, JobTypes, NetTypes
  <1>7. QED
    BY <1>2, <1>3, <1>4, <1>5, <1>6

(* A request given up on fits as well. *)
LEMMA LoseTypes ==
  ASSUME NetTypes, NEW kind \in Requests, NEW what, Fits(kind, what), Lose(kind, what),
         faults' \in 0..MaxFaults, clean' \in BOOLEAN
  PROVE  NetTypes'
  <1> DEFINE r == [id |-> lost + 1, kind |-> kind, what |-> what]
  <1>1. lost \in Nat /\ lost < MaxLost /\ lost' = lost + 1 /\ late' = late \union {r}
    BY MorningAssumption DEF Lose, NetTypes
  <1>2. r.kind = kind /\ r.what = what /\ r.id = lost + 1
    OBVIOUS
  <1> HIDE DEF r
  <1>3. \A m \in late : m.id \in 1..(lost + 1)
    BY <1>1 DEF NetTypes
  <1>4. \A m \in late' : m.kind \in Requests /\ m.id \in 1..lost' /\ Fits(m.kind, m.what)
    BY <1>1, <1>2, <1>3 DEF NetTypes
  <1>5. lost' \in 0..MaxLost
    BY <1>1, MorningAssumption
  <1>6. QED
    BY <1>4, <1>5 DEF NetTypes

LEMMA FaultTypes ==
  ASSUME TInv, Resend \/ Abort \/ RebuildElsewhere
  PROVE  TInv'
  <1> USE DEF Goto, serverVars, netVars, jobVars
  <1>1. ServerTypes /\ FileTypes /\ JobTypes /\ NetTypes
    BY TypeParts DEF TInv
  <1>2. faults' \in 0..MaxFaults
    <2>1. Fault
      BY DEF Resend, Abort, RebuildElsewhere
    <2>2. QED
      BY <1>1, <2>1, MorningAssumption DEF Fault, NetTypes
  <1>3. CASE Resend
    <2>1. /\ pc \in Requests /\ Lose(pc, What) /\ attempt' = 1
          /\ UNCHANGED <<log, tables, reports, published, repo, pc, today, topics, cited,
                         stars, tree, clean>>
      BY <1>3 DEF Resend
    <2>2. NetTypes'
      BY <1>1, <1>2, <2>1, WhatFits, LoseTypes DEF NetTypes
    <2>3. QED
      BY <1>1, <2>1, <2>2, TypeParts DEF TInv, HasReport, ServerTypes, FileTypes, JobTypes
  <1>4. CASE Abort
    <2>1. /\ UNCHANGED <<late, lost>> \/ (pc \in Requests /\ Lose(pc, What))
          /\ pc' = "idle" /\ attempt' = 0 /\ clean' = FALSE /\ tree' = NoFiles
          /\ topics' = {} /\ cited' = {} /\ stars' = {}
          /\ UNCHANGED <<log, tables, reports, published, repo, today>>
      BY <1>4 DEF Abort, Ends
    <2>2. CASE UNCHANGED <<late, lost>>
      <3>1. ServerTypes' /\ JobTypes' /\ HasReport'
        BY <1>1, <2>1 DEF HasReport, ServerTypes, JobTypes
      <3>2. FileTypes'
        BY <1>1, <2>1, NothingFits DEF FileTypes, ServerTypes
      <3>3. NetTypes'
        BY <1>1, <1>2, <2>1, <2>2 DEF NetTypes
      <3>4. QED
        BY <3>1, <3>2, <3>3, TypeParts DEF TInv
    <2>3. CASE pc \in Requests /\ Lose(pc, What)
      <3>1. NetTypes'
        BY <1>1, <1>2, <2>1, <2>3, WhatFits, LoseTypes
      <3>2. QED
        BY <1>1, <2>1, <3>1, NothingFits, TypeParts
           DEF TInv, HasReport, ServerTypes, FileTypes, JobTypes
    <2>4. QED
      BY <2>1, <2>2, <2>3
  <1>5. CASE RebuildElsewhere
    <2>1. /\ Lose("replace", Proposed(log))
          /\ UNCHANGED <<log, tables, reports, published, repo, pc, today, topics, cited,
                         stars, tree, attempt, clean>>
      BY <1>5 DEF RebuildElsewhere
    <2>2. Fits("replace", Proposed(log))
      <3>1. \A i \in DOMAIN log : log[i] \in Batch
        BY <1>1 DEF ServerTypes
      <3>2. Proposed(log) \subseteq Concepts
        BY <3>1 DEF Proposed, Batch
      <3>3. QED
        BY <3>2 DEF Fits
    <2>3. NetTypes'
      BY <1>1, <1>2, <2>1, <2>2, LoseTypes DEF NetTypes, Requests
    <2>4. QED
      BY <1>1, <2>1, <2>3, TypeParts DEF TInv, HasReport, ServerTypes, FileTypes, JobTypes
  <1>6. QED
    BY <1>3, <1>4, <1>5

LEMMA ServeLateTypes ==
  ASSUME TInv, NEW m \in late, ServeLate(m)
  PROVE  TInv'
  <1>1. ServerTypes /\ FileTypes /\ JobTypes /\ NetTypes
    BY TypeParts DEF TInv
  <1>2. /\ late' = late \ {m} /\ Execute(m.kind, m.what, TRUE) /\ clean' = FALSE
        /\ UNCHANGED <<repo, pc, today, topics, cited, stars, tree, attempt, lost, faults>>
    BY DEF ServeLate, jobVars
  <1>3. m.kind \in Requests /\ Fits(m.kind, m.what)
    BY <1>1 DEF NetTypes
  <1>4. /\ ServerTypes'
        /\ Len(log) \in Nat /\ Len(log') \in Nat /\ Len(log') >= Len(log)
        /\ DOMAIN reports \subseteq DOMAIN reports'
    BY <1>1, <1>2, <1>3, ExecuteTypes
  <1>5. FileTypes'
    BY <1>1, <1>2, <1>4, FilesStay
  <1>6. JobTypes' /\ NetTypes'
    BY <1>1, <1>2 DEF JobTypes, NetTypes
  <1>7. HasReport'
    BY <1>2, <1>4 DEF TInv, HasReport
  <1>8. QED
    BY <1>4, <1>5, <1>6, <1>7, TypeParts DEF TInv

LEMMA TInvInit == Init => TInv
  <1> SUFFICES ASSUME Init PROVE TInv
    OBVIOUS
  <1>1. << >> \in Reports /\ IsPlaces(<< >>)
    BY NothingFits
  <1>2. Len(log) = 0 /\ log \in Seq(Batch)
    BY DEF Init
  <1>3. FileTypes
    <2>1. repo = NoFiles /\ tree = NoFiles
      BY DEF Init
    <2>2. QED
      BY <1>2, <2>1, NothingFits DEF FileTypes
  <1>4. ServerTypes
    BY <1>1, <1>2 DEF Init, ServerTypes, NothingPublished
  <1>5. JobTypes
    BY MorningAssumption DEF Init, JobTypes, Days
  <1>6. NetTypes /\ HasReport
    <2>1. 0 \in 0..MaxLost /\ 0 \in 0..MaxFaults
      BY MorningAssumption
    <2>2. NetTypes
      BY <2>1 DEF Init, NetTypes
    <2>3. HasReport
      BY DEF Init, HasReport
    <2>4. QED
      BY <2>2, <2>3
  <1>7. QED
    BY <1>3, <1>4, <1>5, <1>6, TypeParts DEF TInv

LEMMA TInvStep ==
  ASSUME TInv, [Next]_vars
  PROVE  TInv'
  <1>1. CASE AppendEvents \/ ReplaceDerived \/ SaveReport \/ Publish
    BY <1>1, CallTypes DEF AppendEvents, ReplaceDerived, SaveReport, Publish, Requests
  <1>2. CASE UNCHANGED vars
    BY <1>2, TypeParts DEF vars, serverVars, jobVars, netVars, TInv, HasReport,
       ServerTypes, FileTypes, JobTypes, NetTypes
  <1>3. QED
    BY <1>1, <1>2, SelectTypes, ExportTypes, LocalTypes, FaultTypes, ServeLateTypes
       DEF Next, Job

LEMMA TInvAlways == Spec => []TInv
  BY TInvInit, TInvStep, PTL DEF Spec

(* Nothing the job reads or writes is of another type, whatever requests   *)
(* are late and wherever jobs fail.                                        *)
THEOREM MorningTypes == Spec => []TypeOK
  <1>1. TInv => TypeOK
    BY DEF TInv
  <1>2. QED
    BY <1>1, TInvAlways, PTL

----------------------------------------------------------------------------
(* Places *)

(* Until the export the job has the places of git; its layout keeps those  *)
(* of the stars there are.                                                 *)
PInv ==
  /\ pc \in {"collect", "append", "rebuild", "replace", "report", "snapshot", "stars", "export"}
       => tree.places = repo.places
  /\ pc \in {"publish", "persist"} =>
       \A c \in DOMAIN repo.places \intersect DOMAIN tree.places :
          tree.places[c] = repo.places[c]

LEMMA PInvStep ==
  ASSUME TInv, PInv, [Next]_vars
  PROVE  PInv'
  <1> USE DEF PInv, Goto, serverVars, jobVars, netVars
  <1>1. CASE Start
    <2>1. pc' = "collect" /\ tree' = repo /\ repo' = repo
      BY <1>1 DEF Start
    <2>2. QED
      BY <2>1
  <1>2. CASE Select
    BY <1>2 DEF Select
  <1>3. CASE AppendEvents \/ ReplaceDerived \/ SaveReport \/ Publish
    BY <1>3 DEF AppendEvents, ReplaceDerived, SaveReport, Publish, Call
  <1>4. CASE Rebuild \/ ReadStars
    BY <1>4 DEF Rebuild, ReadStars
  <1>5. CASE Snapshot
    <2>1. pc = "snapshot" /\ pc' = "stars" /\ tree' = [tree EXCEPT !.events = Len(log)]
          /\ repo' = repo
      BY <1>5 DEF Snapshot
    <2>2. tree \in [events : Nat, stars : SUBSET Concepts, new : SUBSET Concepts,
                    places : {tree.places}, index : Reports]
      BY DEF TInv, TypeOK, IsFiles
    <2>3. tree'.places = tree.places
      BY <2>1, <2>2
    <2>4. QED
      BY <2>1, <2>3
  <1>6. CASE Export
    <2>1. pc = "export" /\ pc' = "publish" /\ repo' = repo
          /\ tree'.places = BuildLayout(stars, tree.places)
      BY <1>6 DEF Export
    <2>2. tree.places \in Places /\ stars \in SUBSET Concepts
      BY PlacesAre DEF TInv, TypeOK, IsFiles
    <2>3. /\ DOMAIN tree'.places = stars
          /\ \A c \in stars \intersect DOMAIN tree.places : tree'.places[c] = tree.places[c]
      BY <2>1, <2>2, BuildLayoutFacts
    <2>4. tree.places = repo.places
      BY <2>1
    <2>5. QED
      BY <2>1, <2>3, <2>4
  <1>7. CASE Persist \/ Abort
    BY <1>7 DEF Persist, Abort, Ends
  <1>8. CASE Resend \/ RebuildElsewhere \/ UNCHANGED vars
    BY <1>8 DEF Resend, RebuildElsewhere, vars
  <1>9. ASSUME NEW m \in late, ServeLate(m)
        PROVE  PInv'
    BY <1>9 DEF ServeLate
  <1>10. QED
    BY <1>1, <1>2, <1>3, <1>4, <1>5, <1>6, <1>7, <1>8, <1>9 DEF Next, Job

(* What PlacesKept says of a step. *)
StepKeepsPlaces ==
  late' = late =>
    \A c \in DOMAIN published.places \intersect DOMAIN published'.places :
       (c \in DOMAIN repo.places /\ repo.places[c] = published.places[c]) =>
          published'.places[c] = published.places[c]

LEMMA StepKeeps ==
  ASSUME TInv, PInv, [Next]_vars
  PROVE  StepKeepsPlaces
  <1> USE DEF serverVars, jobVars, netVars
  <1>1. CASE published' = published
    BY <1>1 DEF StepKeepsPlaces
  <1>2. CASE Publish
    <2>1. /\ pc = "publish" /\ Execute("publish", Artifacts(tree), FALSE)
      BY <1>2 DEF Publish, Call, What
    <2>2. published'.places = Artifacts(tree).places
      BY <2>1 DEF Execute
    <2>3. Artifacts(tree).places = tree.places
      BY DEF Artifacts
    <2>4. QED
      BY <2>1, <2>2, <2>3 DEF PInv, StepKeepsPlaces
  <1>3. CASE AppendEvents \/ ReplaceDerived \/ SaveReport
    BY <1>1, <1>3 DEF AppendEvents, ReplaceDerived, SaveReport, Call, Execute
  <1>4. ASSUME NEW m \in late, ServeLate(m)
        PROVE  StepKeepsPlaces
    <2>1. late' # late
      BY <1>4 DEF ServeLate
    <2>2. QED
      BY <2>1 DEF StepKeepsPlaces
  <1>5. CASE \/ Start \/ Select \/ Rebuild \/ Snapshot \/ ReadStars \/ Export \/ Persist
             \/ Resend \/ Abort \/ RebuildElsewhere \/ UNCHANGED vars
    BY <1>1, <1>5 DEF Start, Select, Rebuild, Snapshot, ReadStars, Export, Persist, Resend,
       Abort, RebuildElsewhere, vars
  <1>6. QED
    BY <1>2, <1>3, <1>4, <1>5 DEF Next, Job

(* A star that is drawn where git has it stays there when a job publishes: *)
(* the layout a job computes keeps every place of the layout it read.      *)
THEOREM StarsStay == Spec => PlacesKept
  <1>1. Init => PInv
    BY DEF Init, PInv
  <1>2. TInv /\ PInv /\ [Next]_vars => PInv'
    BY PInvStep
  <1>3. TInv /\ PInv /\ [Next]_vars => [StepKeepsPlaces]_vars
    BY StepKeeps
  <1>4. Spec => [][StepKeepsPlaces]_vars
    BY <1>1, <1>2, <1>3, TInvAlways, PTL DEF Spec
  <1>5. QED
    BY <1>4 DEF PlacesKept, StepKeepsPlaces

----------------------------------------------------------------------------
(* Public data *)

(* The topics of the first n batches. *)
Recorded(batches, n) == UNION {batches[i].topics : i \in 1..n}

AllRecorded == Recorded(log, Len(log))

TopicsIn(index, ts) == \A d \in DOMAIN index : index[d] \subseteq ts

IsWhole(files) ==
  /\ DOMAIN files.places = files.stars /\ IsInjective(files.places)
  /\ files.new \subseteq files.stars

(* A request to publish brings the page of the newest report it knows. *)
BringsPage(what) ==
  /\ DOMAIN what.index # {}
  /\ what.page.date = Max(DOMAIN what.index)
  /\ what.page.topics = what.index[Max(DOMAIN what.index)]

RequestIsWhole(kind, what, ts) ==
  /\ kind = "report" => what.topics \subseteq ts
  /\ kind = "publish" => IsWhole(what) /\ TopicsIn(what.index, ts) /\ BringsPage(what)

PublishedIsWhole ==
  /\ IsWhole(published)
  /\ DOMAIN published.index # {} =>
       LET newest == Max(DOMAIN published.index) IN
       newest \in DOMAIN published.pages /\ published.pages[newest] = published.index[newest]
  /\ TopicsIn(published.index, AllRecorded)

(* No report is of topics that no event has, saved or on its way. *)
ReportsAreRecorded ==
  /\ TopicsIn(reports, AllRecorded)
  /\ \A m \in late : RequestIsWhole(m.kind, m.what, AllRecorded)

(* The job has recorded its topics before it saves them as a report. *)
TopicsAreRecorded == pc \in {"rebuild", "replace", "report"} => topics \subseteq AllRecorded

(* A snapshot holds the events of all reports there are when it is taken,  *)
(* and of those that are still on their way.                               *)
SnapshotHolds ==
  /\ pc \in {"stars", "export"} =>
       /\ TopicsIn(reports, Recorded(log, tree.events))
       /\ \A m \in late : m.kind = "report" => m.what.topics \subseteq Recorded(log, tree.events)
  /\ pc \in {"publish", "persist"} =>
       IsWhole(tree) /\ TopicsIn(tree.index, Recorded(log, tree.events))

FilesAreWhole ==
  /\ IsInjective(tree.places) /\ IsInjective(repo.places)
  /\ TopicsIn(repo.index, Recorded(log, repo.events))

WInv ==
  PublishedIsWhole /\ ReportsAreRecorded /\ TopicsAreRecorded /\ SnapshotHolds /\ FilesAreWhole

LEMMA RecordedGrows ==
  ASSUME NEW l, NEW n \in Nat, NEW k \in 0..n
  PROVE  Recorded(l, k) \subseteq Recorded(l, n)
  <1>1. 1..k \subseteq 1..n
    OBVIOUS
  <1>2. QED
    BY <1>1 DEF Recorded

LEMMA TopicsInMore ==
  ASSUME NEW f, NEW ts, NEW us, ts \subseteq us, TopicsIn(f, ts)
  PROVE  TopicsIn(f, us)
  BY DEF TopicsIn

LEMMA RequestIsWholeMore ==
  ASSUME NEW kind, NEW what, NEW ts, NEW us, ts \subseteq us, RequestIsWhole(kind, what, ts)
  PROVE  RequestIsWhole(kind, what, us)
  BY TopicsInMore DEF RequestIsWhole

(* What the job sends is whole. *)
LEMMA WhatIsWhole ==
  ASSUME TInv, WInv, pc \in Requests
  PROVE  RequestIsWhole(pc, What, AllRecorded)
  <1>1. CASE pc = "append" \/ pc = "replace"
    BY <1>1 DEF RequestIsWhole
  <1>2. CASE pc = "report"
    <2>1. What.topics = topics
      BY <1>2 DEF What
    <2>2. QED
      BY <1>2, <2>1 DEF RequestIsWhole, WInv, TopicsAreRecorded
  <1>3. CASE pc = "publish"
    <2> DEFINE newest == Max(DOMAIN tree.index)
    <2>1. What = [stars |-> tree.stars, new |-> tree.new, places |-> tree.places,
                  index |-> tree.index,
                  page |-> [date |-> newest, topics |-> tree.index[newest]]]
      BY <1>3 DEF What, Artifacts
    <2>2. IsWhole(tree) /\ TopicsIn(tree.index, Recorded(log, tree.events))
          /\ DOMAIN tree.index # {}
      BY <1>3 DEF WInv, SnapshotHolds, TInv, HasReport
    <2>3. Len(log) \in Nat /\ tree.events \in 0..Len(log)
      BY DEF TInv, TypeOK, IsFiles
    <2>4. TopicsIn(tree.index, AllRecorded)
      BY <2>2, <2>3, RecordedGrows, TopicsInMore DEF AllRecorded
    <2>5. IsWhole(What) /\ TopicsIn(What.index, AllRecorded) /\ BringsPage(What)
      BY <2>1, <2>2, <2>4 DEF IsWhole, BringsPage
    <2>6. QED
      BY <1>3, <2>5 DEF RequestIsWhole
  <1>4. QED
    BY <1>1, <1>2, <1>3 DEF Requests

(* The log only grows, at its end. *)
LEMMA ExecuteLog ==
  ASSUME TInv, NEW kind, NEW what, NEW flag, Execute(kind, what, flag)
  PROVE  /\ Len(log) \in Nat /\ Len(log') \in Nat /\ Len(log') >= Len(log)
         /\ \A n \in 0..Len(log) : Recorded(log', n) = Recorded(log, n)
         /\ AllRecorded \subseteq AllRecorded'
         /\ kind = "append" => what.topics \subseteq AllRecorded'
         /\ kind # "append" => log' = log
  <1>0. log \in Seq(Batch) /\ Len(log) \in Nat
    BY DEF TInv, TypeOK
  <1>1. CASE kind # "append"
    <2>1. log' = log
      BY <1>1 DEF Execute
    <2>2. QED
      BY <1>0, <1>1, <2>1 DEF AllRecorded
  <1>2. CASE kind = "append"
    <2> DEFINE b == [topics |-> what.topics, cited |-> what.cited,
                     date |-> what.date, late |-> flag]
               n == Len(log) + 1
    <2>1. log' = Append(log, b)
      BY <1>2 DEF Execute
    <2>2. b.topics = what.topics
      OBVIOUS
    <2> HIDE DEF b
    <2>3. log \in Seq(Batch \union {b})
      BY <1>0
    <2>4. Len(log') = n /\ log'[n] = b /\ \A i \in 1..Len(log) : log'[i] = log[i]
      BY <2>1, <2>3
    <2>5. ASSUME NEW k \in 0..Len(log) PROVE Recorded(log', k) = Recorded(log, k)
      <3>1. \A i \in 1..k : log'[i] = log[i]
        BY <1>0, <2>4
      <3>2. QED
        BY <3>1 DEF Recorded
    <2>6. AllRecorded \subseteq Recorded(log', n)
      BY <1>0, <2>5, RecordedGrows DEF AllRecorded
    <2>7. what.topics \subseteq Recorded(log', n)
      <3>1. n \in 1..n
        BY <1>0
      <3>2. QED
        BY <2>2, <2>4, <3>1 DEF Recorded
    <2>8. AllRecorded' = Recorded(log', n)
      BY <2>4 DEF AllRecorded
    <2>9. QED
      BY <1>0, <1>2, <2>4, <2>5, <2>6, <2>7, <2>8
  <1>3. QED
    BY <1>1, <1>2

(* A whole request leaves the server whole. *)
LEMMA ExecuteWhole ==
  ASSUME TInv, WInv, NEW kind \in Requests, NEW what, NEW flag,
         Fits(kind, what), RequestIsWhole(kind, what, AllRecorded), Execute(kind, what, flag)
  PROVE  /\ PublishedIsWhole'
         /\ TopicsIn(reports', AllRecorded')
         /\ \A ts : TopicsIn(reports, ts) /\ (kind = "report" => what.topics \subseteq ts)
                      => TopicsIn(reports', ts)
         /\ AllRecorded \subseteq AllRecorded'
  <1>1. AllRecorded \subseteq AllRecorded'
    BY ExecuteLog
  <1>2. ASSUME NEW ts, TopicsIn(reports, ts), kind = "report" => what.topics \subseteq ts
        PROVE  TopicsIn(reports', ts)
    <2>1. CASE kind # "report"
      <3>1. reports' = reports
        BY <2>1 DEF Execute
      <3>2. QED
        BY <1>2, <3>1
    <2>2. CASE kind = "report"
      <3>1. reports' = Put(reports, what.date, what.topics)
        BY <2>2 DEF Execute
      <3>2. what.date \in Days /\ what.topics \in SUBSET Concepts /\ reports \in Reports
        <4>1. what.date \in Days /\ what.topics \in SUBSET Concepts
          BY <2>2 DEF Fits
        <4>2. QED
          BY <4>1 DEF TInv, TypeOK
      <3>3. /\ DOMAIN reports' = DOMAIN reports \union {what.date}
            /\ reports'[what.date] = what.topics
            /\ \A e \in DOMAIN reports : e # what.date => reports'[e] = reports[e]
        <4> DEFINE d == what.date
                   t == what.topics
        <4>1. reports' = Put(reports, d, t) /\ d \in Days /\ t \in SUBSET Concepts
              /\ reports \in Reports
          BY <3>1, <3>2
        <4> HIDE DEF d, t
        <4>2. /\ DOMAIN Put(reports, d, t) = DOMAIN reports \union {d}
              /\ Put(reports, d, t)[d] = t
              /\ \A e \in DOMAIN reports : e # d => Put(reports, d, t)[e] = reports[e]
          BY <4>1, PutReport
        <4>3. QED
          BY <4>1, <4>2 DEF d, t
      <3>4. QED
        BY <1>2, <2>2, <3>3 DEF TopicsIn
    <2>3. QED
      BY <2>1, <2>2
  <1>3. TopicsIn(reports', AllRecorded')
    <2>1. TopicsIn(reports', AllRecorded)
      BY <1>2 DEF WInv, ReportsAreRecorded, RequestIsWhole
    <2>2. QED
      BY <1>1, <2>1, TopicsInMore
  <1>4. PublishedIsWhole'
    <2>1. CASE kind # "publish"
      <3>1. published' = published
        BY <2>1 DEF Execute
      <3>2. TopicsIn(published'.index, AllRecorded')
        BY <1>1, <3>1, TopicsInMore DEF WInv, PublishedIsWhole
      <3>3. QED
        BY <3>1, <3>2 DEF WInv, PublishedIsWhole
    <2>2. CASE kind = "publish"
      <3> DEFINE newest == Max(DOMAIN what.index)
                 pages == Put(published.pages, what.page.date, what.page.topics)
      <3>1. published' = [stars |-> what.stars, new |-> what.new, places |-> what.places,
                          index |-> what.index, pages |-> pages]
        BY <2>2 DEF Execute
      <3>2. /\ published.pages \in Reports
            /\ what.page.date \in Days /\ what.page.topics \in SUBSET Concepts
        <4>1. what.page.date \in Days /\ what.page.topics \in SUBSET Concepts
          BY <2>2 DEF Fits
        <4>2. published.pages \in Reports
          BY DEF TInv, TypeOK
        <4>3. QED
          BY <4>1, <4>2
      <3>3. what.page.date \in DOMAIN pages /\ pages[what.page.date] = what.page.topics
        <4> DEFINE d == what.page.date
                   t == what.page.topics
        <4>1. published.pages \in Reports /\ d \in Days /\ t \in SUBSET Concepts
          BY <3>2
        <4> HIDE DEF d, t
        <4>2. /\ DOMAIN Put(published.pages, d, t) = DOMAIN published.pages \union {d}
              /\ Put(published.pages, d, t)[d] = t
          BY <4>1, PutReport
        <4>3. QED
          BY <4>2 DEF d, t
      <3>4. IsWhole(what) /\ TopicsIn(what.index, AllRecorded) /\ BringsPage(what)
        BY <2>2 DEF RequestIsWhole
      <3>5. newest \in DOMAIN pages /\ pages[newest] = what.index[newest]
        BY <3>3, <3>4 DEF BringsPage
      <3> HIDE DEF newest, pages
      <3>6. /\ published'.index = what.index /\ published'.pages = pages
            /\ published'.stars = what.stars /\ published'.new = what.new
            /\ published'.places = what.places
        BY <3>1
      <3>7. IsWhole(published')
        BY <3>4, <3>6 DEF IsWhole
      <3>8. TopicsIn(published'.index, AllRecorded')
        BY <1>1, <3>4, <3>6, TopicsInMore
      <3>9. LET new == Max(DOMAIN published'.index) IN
            new \in DOMAIN published'.pages /\ published'.pages[new] = published'.index[new]
        BY <3>5, <3>6 DEF newest
      <3>10. QED
        BY <3>7, <3>8, <3>9 DEF PublishedIsWhole
    <2>3. QED
      BY <2>1, <2>2
  <1>5. QED
    BY <1>1, <1>2, <1>3, <1>4

(* The files of git and of the job stay whole while the log grows. *)
LEMMA FilesStayWhole ==
  ASSUME TInv, WInv, NEW kind, NEW what, NEW flag, Execute(kind, what, flag),
         UNCHANGED <<repo, tree>>
  PROVE  /\ FilesAreWhole'
         /\ Recorded(log', tree'.events) = Recorded(log, tree.events)
  <1>1. repo.events \in 0..Len(log) /\ tree.events \in 0..Len(log)
    BY DEF TInv, TypeOK, IsFiles
  <1>2. /\ Recorded(log', repo.events) = Recorded(log, repo.events)
        /\ Recorded(log', tree.events) = Recorded(log, tree.events)
    BY <1>1, ExecuteLog
  <1>3. QED
    BY <1>2 DEF WInv, FilesAreWhole

LEMMA CallWhole ==
  ASSUME TInv, WInv, NEW kind \in Requests, NEW next, Call(kind, next),
         <<kind, next>> \in {<<"append", "rebuild">>, <<"replace", "report">>,
                             <<"report", "snapshot">>, <<"publish", "persist">>}
  PROVE  WInv'
  <1>1. pc = kind /\ Execute(kind, What, FALSE) /\ pc' = next
        /\ UNCHANGED <<repo, today, topics, tree, late>>
    BY DEF Call, Goto, netVars
  <1>2. Fits(kind, What) /\ RequestIsWhole(kind, What, AllRecorded)
    BY <1>1, WhatFits, WhatIsWhole
  <1>3. /\ PublishedIsWhole' /\ TopicsIn(reports', AllRecorded')
        /\ AllRecorded \subseteq AllRecorded'
    BY <1>1, <1>2, ExecuteWhole
  <1>4. FilesAreWhole' /\ Recorded(log', tree'.events) = Recorded(log, tree.events)
    BY <1>1, FilesStayWhole
  <1>5. ReportsAreRecorded'
    <2>1. \A m \in late : RequestIsWhole(m.kind, m.what, AllRecorded')
      BY <1>3, RequestIsWholeMore DEF WInv, ReportsAreRecorded
    <2>2. QED
      BY <1>1, <1>3, <2>1 DEF ReportsAreRecorded
  <1>6. TopicsAreRecorded'
    <2>1. CASE kind = "append"
      <3>1. What.topics = topics
        BY <1>1, <2>1 DEF What
      <3>2. topics \subseteq AllRecorded'
        BY <1>1, <2>1, <3>1, ExecuteLog
      <3>3. QED
        BY <1>1, <3>2 DEF TopicsAreRecorded
    <2>2. CASE kind = "replace"
      BY <1>1, <1>3, <2>2 DEF WInv, TopicsAreRecorded
    <2>3. CASE kind \notin {"append", "replace"}
      BY <1>1, <2>3 DEF TopicsAreRecorded
    <2>4. QED
      BY <2>1, <2>2, <2>3
  <1>7. SnapshotHolds'
    <2>1. CASE kind = "publish"
      BY <1>1, <1>4, <2>1 DEF WInv, SnapshotHolds
    <2>2. CASE kind # "publish"
      BY <1>1, <2>2 DEF SnapshotHolds
    <2>3. QED
      BY <2>1, <2>2
  <1>8. QED
    BY <1>3, <1>4, <1>5, <1>6, <1>7 DEF WInv

LEMMA ServeLateWhole ==
  ASSUME TInv, WInv, NEW m \in late, ServeLate(m)
  PROVE  WInv'
  <1>1. late' = late \ {m} /\ Execute(m.kind, m.what, TRUE)
        /\ UNCHANGED <<repo, pc, topics, tree>>
    BY DEF ServeLate, jobVars
  <1>2. m.kind \in Requests /\ Fits(m.kind, m.what)
        /\ RequestIsWhole(m.kind, m.what, AllRecorded)
    BY DEF TInv, TypeOK, WInv, ReportsAreRecorded
  <1>3. /\ PublishedIsWhole' /\ TopicsIn(reports', AllRecorded')
        /\ \A ts : TopicsIn(reports, ts) /\ (m.kind = "report" => m.what.topics \subseteq ts)
                     => TopicsIn(reports', ts)
        /\ AllRecorded \subseteq AllRecorded'
    BY <1>1, <1>2, ExecuteWhole
  <1>4. FilesAreWhole' /\ Recorded(log', tree'.events) = Recorded(log, tree.events)
    BY <1>1, FilesStayWhole
  <1>5. ReportsAreRecorded'
    <2>1. \A r \in late' : RequestIsWhole(r.kind, r.what, AllRecorded')
      BY <1>1, <1>3, RequestIsWholeMore DEF WInv, ReportsAreRecorded
    <2>2. QED
      BY <1>3, <2>1 DEF ReportsAreRecorded
  <1>6. TopicsAreRecorded'
    BY <1>1, <1>3 DEF WInv, TopicsAreRecorded
  <1>7. SnapshotHolds'
    <2>1. CASE pc \in {"stars", "export"}
      <3> DEFINE ts == Recorded(log, tree.events)
      <3>1. /\ TopicsIn(reports, ts)
            /\ \A r \in late : r.kind = "report" => r.what.topics \subseteq ts
        BY <2>1 DEF WInv, SnapshotHolds
      <3>2. TopicsIn(reports', ts)
        BY <1>3, <3>1
      <3>3. QED
        BY <1>1, <1>4, <2>1, <3>1, <3>2 DEF SnapshotHolds
    <2>2. CASE pc \in {"publish", "persist"}
      BY <1>1, <1>4, <2>2 DEF WInv, SnapshotHolds
    <2>3. CASE pc \notin {"stars", "export", "publish", "persist"}
      BY <1>1, <2>3 DEF SnapshotHolds
    <2>4. QED
      BY <2>1, <2>2, <2>3
  <1>8. QED
    BY <1>3, <1>4, <1>5, <1>6, <1>7 DEF WInv

(* Steps that leave the server alone. *)
LEMMA ServerSame ==
  ASSUME WInv, UNCHANGED serverVars,
         \A m \in late' \ late : RequestIsWhole(m.kind, m.what, AllRecorded)
  PROVE  PublishedIsWhole' /\ ReportsAreRecorded' /\ AllRecorded' = AllRecorded
  <1>1. UNCHANGED <<log, tables, reports, published>> /\ AllRecorded' = AllRecorded
    BY DEF serverVars, AllRecorded
  <1>2. QED
    BY <1>1 DEF WInv, PublishedIsWhole, ReportsAreRecorded

LEMMA LocalWhole ==
  ASSUME TInv, WInv, Start \/ Select \/ Rebuild \/ Snapshot \/ ReadStars \/ Export \/ Persist
  PROVE  WInv'
  <1> USE DEF Goto
  <1>1. UNCHANGED serverVars /\ late' = late
    BY DEF Start, Select, Rebuild, Snapshot, ReadStars, Export, Persist, netVars
  <1>2. PublishedIsWhole' /\ ReportsAreRecorded' /\ AllRecorded' = AllRecorded
    BY <1>1, ServerSame
  <1>3. log' = log /\ reports' = reports
    BY <1>1 DEF serverVars
  <1>4. CASE Start
    <2>1. pc' = "collect" /\ tree' = repo /\ repo' = repo
      BY <1>4 DEF Start
    <2>2. FilesAreWhole' /\ TopicsAreRecorded' /\ SnapshotHolds'
      BY <1>3, <2>1 DEF WInv, FilesAreWhole, TopicsAreRecorded, SnapshotHolds
    <2>3. QED
      BY <1>2, <2>2 DEF WInv
  <1>5. CASE Select
    <2>1. UNCHANGED <<repo, tree>>
      BY <1>5 DEF Select
    <2>2. pc' \in {"report", "rebuild", "append"} /\ (pc' # "append" => topics' = {})
      BY <1>5 DEF Select
    <2>3. FilesAreWhole' /\ TopicsAreRecorded' /\ SnapshotHolds'
      BY <1>3, <2>1, <2>2 DEF WInv, FilesAreWhole, TopicsAreRecorded, SnapshotHolds
    <2>4. QED
      BY <1>2, <2>3 DEF WInv
  <1>6. CASE Rebuild \/ ReadStars
    <2>1. /\ UNCHANGED <<repo, tree, topics>>
          /\ \/ pc = "rebuild" /\ pc' = "replace"
             \/ pc = "stars" /\ pc' = "export"
      BY <1>6 DEF Rebuild, ReadStars
    <2>2. FilesAreWhole'
      BY <1>3, <2>1 DEF WInv, FilesAreWhole
    <2>3. TopicsAreRecorded'
      BY <1>2, <2>1 DEF WInv, TopicsAreRecorded
    <2>4. SnapshotHolds'
      BY <1>1, <1>3, <2>1 DEF WInv, SnapshotHolds
    <2>5. QED
      BY <1>2, <2>2, <2>3, <2>4 DEF WInv
  <1>7. CASE Snapshot
    <2>1. pc' = "stars" /\ tree' = [tree EXCEPT !.events = Len(log)] /\ repo' = repo
      BY <1>7 DEF Snapshot
    <2>2. tree \in [events : Nat, stars : SUBSET Concepts, new : SUBSET Concepts,
                    places : {tree.places}, index : Reports]
      BY DEF TInv, TypeOK, IsFiles
    <2>3. tree'.places = tree.places /\ tree'.events = Len(log)
      BY <2>1, <2>2
    <2>4. FilesAreWhole' /\ TopicsAreRecorded'
      BY <1>3, <2>1, <2>3 DEF WInv, FilesAreWhole, TopicsAreRecorded
    <2>5. Recorded(log', tree'.events) = AllRecorded
      BY <1>3, <2>3 DEF AllRecorded
    <2>6. SnapshotHolds'
      BY <1>1, <1>3, <2>1, <2>5 DEF WInv, ReportsAreRecorded, RequestIsWhole, SnapshotHolds
    <2>7. QED
      BY <1>2, <2>4, <2>6 DEF WInv
  <1>8. CASE Export
    <2> DEFINE new == {c \in stars : FirstDate(c) = Max(DOMAIN reports)}
               places == BuildLayout(stars, tree.places)
    <2>1. pc = "export" /\ pc' = "publish" /\ repo' = repo
          /\ tree' = [events |-> tree.events, stars |-> stars, new |-> new, places |-> places,
                      index |-> reports]
      BY <1>8 DEF Export
    <2>2. tree.places \in Places /\ stars \in SUBSET Concepts
      BY PlacesAre DEF TInv, TypeOK, IsFiles
    <2>3. DOMAIN places = stars /\ IsInjective(places)
      BY <2>2, BuildLayoutFacts DEF WInv, FilesAreWhole
    <2>4. new \subseteq stars
      OBVIOUS
    <2> HIDE DEF new, places
    <2>5. /\ tree'.events = tree.events /\ tree'.stars = stars /\ tree'.new = new
          /\ tree'.places = places /\ tree'.index = reports
      BY <2>1
    <2>6. IsWhole(tree')
      BY <2>3, <2>4, <2>5 DEF IsWhole
    <2>7. TopicsIn(tree'.index, Recorded(log', tree'.events))
      BY <1>3, <2>1, <2>5 DEF WInv, SnapshotHolds
    <2>8. FilesAreWhole' /\ TopicsAreRecorded' /\ SnapshotHolds'
      BY <1>3, <2>1, <2>3, <2>5, <2>6, <2>7
         DEF WInv, FilesAreWhole, TopicsAreRecorded, SnapshotHolds
    <2>9. QED
      BY <1>2, <2>8 DEF WInv
  <1>9. CASE Persist
    <2>1. pc = "persist" /\ pc' = "idle" /\ repo' = tree /\ tree' = NoFiles
      BY <1>9 DEF Persist, Ends
    <2>2. IsInjective(NoFiles.places)
      BY DEF NoFiles, IsInjective
    <2>3. FilesAreWhole' /\ TopicsAreRecorded' /\ SnapshotHolds'
      BY <1>3, <2>1, <2>2 DEF WInv, FilesAreWhole, TopicsAreRecorded, SnapshotHolds
    <2>4. QED
      BY <1>2, <2>3 DEF WInv
  <1>10. QED
    BY <1>4, <1>5, <1>6, <1>7, <1>8, <1>9

LEMMA FaultWhole ==
  ASSUME TInv, WInv, Resend \/ Abort \/ RebuildElsewhere \/ UNCHANGED vars
  PROVE  WInv'
  <1> USE DEF Goto, jobVars, netVars
  <1>1. UNCHANGED serverVars
    BY DEF Resend, Abort, RebuildElsewhere, vars
  <1>2. \A m \in late' \ late : RequestIsWhole(m.kind, m.what, AllRecorded)
    <2>1. CASE late' = late
      BY <2>1
    <2>2. CASE pc \in Requests /\ Lose(pc, What)
      <3>1. \A m \in late' \ late : m.kind = pc /\ m.what = What
        BY <2>2 DEF Lose
      <3>2. RequestIsWhole(pc, What, AllRecorded)
        BY <2>2, WhatIsWhole
      <3>3. QED
        BY <3>1, <3>2
    <2>3. CASE Lose("replace", Proposed(log))
      <3>1. \A m \in late' \ late : m.kind = "replace"
        BY <2>3 DEF Lose
      <3>2. QED
        BY <3>1 DEF RequestIsWhole
    <2>4. QED
      BY <2>1, <2>2, <2>3 DEF Resend, Abort, RebuildElsewhere, vars
  <1>3. PublishedIsWhole' /\ ReportsAreRecorded' /\ AllRecorded' = AllRecorded
    BY <1>1, <1>2, ServerSame
  <1>4. log' = log /\ reports' = reports
    BY <1>1 DEF serverVars
  <1>5. CASE Abort
    <2>1. pc' = "idle" /\ tree' = NoFiles /\ repo' = repo
      BY <1>5 DEF Abort, Ends
    <2>2. IsInjective(NoFiles.places)
      BY DEF NoFiles, IsInjective
    <2>3. FilesAreWhole' /\ TopicsAreRecorded' /\ SnapshotHolds'
      BY <1>4, <2>1, <2>2 DEF WInv, FilesAreWhole, TopicsAreRecorded, SnapshotHolds
    <2>4. QED
      BY <1>3, <2>3 DEF WInv
  <1>6. CASE Resend \/ RebuildElsewhere \/ UNCHANGED vars
    <2>1. UNCHANGED <<repo, pc, topics, tree>>
      BY <1>6 DEF Resend, RebuildElsewhere, vars
    <2>2. FilesAreWhole' /\ TopicsAreRecorded'
      BY <1>3, <1>4, <2>1 DEF WInv, FilesAreWhole, TopicsAreRecorded
    <2>3. pc \in {"stars", "export"} => \A m \in late' : m.kind = "report" => m \in late
      <3>1. CASE Resend
        BY <3>1 DEF Resend, Requests
      <3>2. CASE RebuildElsewhere
        <4>1. \A m \in late' : m \in late \/ m.kind = "replace"
          BY <3>2 DEF RebuildElsewhere, Lose
        <4>2. QED
          BY <4>1
      <3>3. CASE UNCHANGED vars
        BY <3>3 DEF vars
      <3>4. QED
        BY <1>6, <3>1, <3>2, <3>3
    <2>4. SnapshotHolds'
      BY <1>4, <2>1, <2>3 DEF WInv, SnapshotHolds
    <2>5. QED
      BY <1>3, <2>2, <2>4 DEF WInv
  <1>7. QED
    BY <1>5, <1>6

LEMMA WInvInit == Init => WInv
  <1> SUFFICES ASSUME Init PROVE WInv
    OBVIOUS
  <1>1. /\ DOMAIN << >> = {} /\ IsInjective(<< >>) /\ \A ts : TopicsIn(<< >>, ts)
    BY DEF IsInjective, TopicsIn
  <1>2. PublishedIsWhole
    BY <1>1 DEF Init, PublishedIsWhole, NothingPublished, IsWhole
  <1>3. ReportsAreRecorded /\ TopicsAreRecorded /\ SnapshotHolds
    BY <1>1 DEF Init, ReportsAreRecorded, TopicsAreRecorded, SnapshotHolds
  <1>4. FilesAreWhole
    BY <1>1 DEF Init, FilesAreWhole, NoFiles
  <1>5. QED
    BY <1>2, <1>3, <1>4 DEF WInv

LEMMA WInvStep ==
  ASSUME TInv, WInv, [Next]_vars
  PROVE  WInv'
  <1>1. CASE AppendEvents \/ ReplaceDerived \/ SaveReport \/ Publish
    BY <1>1, CallWhole DEF AppendEvents, ReplaceDerived, SaveReport, Publish, Requests
  <1>2. QED
    BY <1>1, LocalWhole, FaultWhole, ServeLateWhole DEF Next, Job

LEMMA WInvAlways == Spec => []WInv
  BY WInvInit, WInvStep, TInvAlways, PTL DEF Spec

(* Wherever a job fails and whatever requests come late, the public data   *)
(* is whole, and the snapshot in git holds the events of every report      *)
(* beside it.                                                              *)
THEOREM PublicIsAlwaysWhole == Spec => []PublicIsWhole
  <1>1. ASSUME TInv, WInv PROVE PublicIsWhole
    <2>1. /\ published.index \in Reports
          /\ log \in Seq(Batch) /\ Len(log) \in Nat /\ repo.events \in 0..Len(log)
      <3>1. published.index \in Reports
        BY <1>1 DEF TInv, TypeOK
      <3>2. log \in Seq(Batch) /\ repo.events \in Nat /\ repo.events <= Len(log)
        BY <1>1 DEF TInv, TypeOK, IsFiles
      <3>3. QED
        BY <3>1, <3>2
    <2>2. published.index # << >> => DOMAIN published.index # {}
      <3>1. published.index \in [DOMAIN published.index -> SUBSET Concepts]
        BY <2>1, ReportsAre
      <3>2. \A f : f \in [DOMAIN f -> SUBSET Concepts] /\ DOMAIN f = {} => f = << >>
        OBVIOUS
      <3>3. QED
        BY <3>1, <3>2
    <2>3. \A f, ts : TopicsIn(f, ts) => UNION Range(f) \subseteq ts
      BY DEF TopicsIn, Range
    <2>4. Proposed(log) = AllRecorded
      BY <2>1 DEF Proposed, AllRecorded, Recorded
    <2>5. Proposed(SubSeq(log, 1, repo.events)) = Recorded(log, repo.events)
      <3> DEFINE n == repo.events
                 s == SubSeq(log, 1, n)
      <3>1. n \in 0..Len(log)
        BY <2>1
      <3> HIDE DEF n
      <3>2. DOMAIN s = 1..n /\ \A i \in 1..n : s[i] = log[i]
        BY <2>1, <3>1
      <3> HIDE DEF s
      <3>3. Proposed(s) = Recorded(log, n)
        BY <3>2 DEF Proposed, Recorded
      <3>4. QED
        BY <3>3 DEF s, n
    <2>6. QED
      BY <1>1, <2>2, <2>3, <2>4, <2>5
         DEF PublicIsWhole, WInv, PublishedIsWhole, FilesAreWhole, IsWhole
  <1>2. QED
    BY <1>1, TInvAlways, WInvAlways, PTL

----------------------------------------------------------------------------
(* Success *)

(* No report is of a day to come. *)
ReportsOfThePast ==
  /\ DOMAIN reports \subseteq 1..today
  /\ \A m \in late : m.kind = "report" => m.what.date \in 1..today

TodaysReport == today \in DOMAIN reports /\ reports[today] \subseteq tables

FirstDay(batches, c) == batches[Min({i \in DOMAIN batches : c \in batches[i].topics})].date

NewStars(batches, ts, d) == {c \in ts : FirstDay(batches, c) = d}

(* The export shows what the server holds. *)
Shows(files) ==
  /\ files.events = Len(log) /\ files.stars = tables /\ files.index = reports
  /\ files.new = NewStars(log, tables, today)

SameExport(p, q) ==
  p.stars = q.stars /\ p.new = q.new /\ p.places = q.places /\ p.index = q.index

(* What a job that nothing has disturbed has achieved, step by step. *)
Achieved ==
  /\ pc = "replace" => topics \subseteq stars
  /\ pc = "report" => topics \subseteq tables
  /\ pc \in {"snapshot", "stars", "export", "publish", "persist", "idle"} => TodaysReport
  /\ pc \in {"stars", "export", "publish", "persist"} => tree.events = Len(log)
  /\ pc = "export" => stars = tables
  /\ pc \in {"publish", "persist"} => Shows(tree)
  /\ pc = "persist" => SameExport(published, tree)
  /\ pc = "idle" => SameExport(published, repo) /\ Shows(repo)

EInv == ReportsOfThePast /\ (clean => Achieved)

(* Steps that leave the reports alone. *)
LEMMA ReportsSame ==
  ASSUME TInv, ReportsOfThePast, reports' = reports,
         today' \in Nat, today <= today',
         \A m \in late' \ late : m.kind = "report" => m.what.date \in 1..today'
  PROVE  ReportsOfThePast'
  <1>1. today \in Nat
    BY DEF TInv, TypeOK, Days
  <1>2. 1..today \subseteq 1..today'
    BY <1>1
  <1>3. QED
    BY <1>2 DEF ReportsOfThePast

LEMMA ExecuteReports ==
  ASSUME TInv, ReportsOfThePast, NEW kind \in Requests, NEW what, Fits(kind, what), NEW flag,
         Execute(kind, what, flag), kind = "report" => what.date \in 1..today,
         today' = today, late' \subseteq late
  PROVE  ReportsOfThePast'
  <1>1. CASE kind # "report"
    <2>1. reports' = reports
      BY <1>1 DEF Execute
    <2>2. today \in Nat
      BY DEF TInv, TypeOK, Days
    <2>3. QED
      BY <2>1, <2>2, ReportsSame
  <1>2. CASE kind = "report"
    <2> DEFINE d == what.date
               t == what.topics
    <2>1. reports' = Put(reports, d, t)
      BY <1>2 DEF Execute
    <2>2. d \in Days /\ t \in SUBSET Concepts /\ d \in 1..today
      BY <1>2 DEF Fits
    <2>3. reports \in Reports
      BY DEF TInv, TypeOK
    <2> HIDE DEF d, t
    <2>4. DOMAIN reports' = DOMAIN reports \union {d}
      BY <2>1, <2>2, <2>3, PutReport
    <2>5. QED
      BY <2>2, <2>4 DEF ReportsOfThePast
  <1>3. QED
    BY <1>1, <1>2

LEMMA CallAchieves ==
  ASSUME TInv, WInv, EInv, AppendEvents \/ ReplaceDerived \/ SaveReport \/ Publish
  PROVE  EInv'
  <1> USE DEF Call, Goto, netVars
  <1>1. today' = today /\ late' = late /\ clean' = clean
    BY DEF AppendEvents, ReplaceDerived, SaveReport, Publish
  <1>2. pc \in Requests /\ Execute(pc, What, FALSE)
    BY DEF AppendEvents, ReplaceDerived, SaveReport, Publish, Requests
  <1>3. ReportsOfThePast'
    <2>1. pc = "report" => What.date = today
      BY DEF What
    <2>2. today \in 1..today
      BY DEF TInv, TypeOK, Days
    <2>3. QED
      BY <1>1, <1>2, <2>1, <2>2, WhatFits, ExecuteReports DEF EInv
  <1>4. CASE AppendEvents
    BY <1>3, <1>4 DEF AppendEvents, EInv, Achieved
  <1>5. CASE ReplaceDerived
    <2>1. pc = "replace" /\ pc' = "report" /\ tables' = stars /\ topics' = topics
      BY <1>5 DEF ReplaceDerived, Execute, What
    <2>2. clean' => Achieved'
      BY <1>1, <2>1 DEF EInv, Achieved
    <2>3. QED
      BY <1>3, <2>2 DEF EInv
  <1>6. CASE SaveReport
    <2>1. pc = "report" /\ pc' = "snapshot" /\ tables' = tables
          /\ Execute("report", What, FALSE) /\ What = [topics |-> topics, date |-> today]
      BY <1>6 DEF SaveReport, Execute, What
    <2>2. reports' = Put(reports, today, topics)
      BY <2>1 DEF Execute
    <2>3. reports \in Reports /\ today \in Days /\ topics \in SUBSET Concepts
      BY DEF TInv, TypeOK
    <2>4. today \in DOMAIN reports' /\ reports'[today] = topics
      <3>1. /\ DOMAIN Put(reports, today, topics) = DOMAIN reports \union {today}
            /\ Put(reports, today, topics)[today] = topics
        BY <2>3, PutReport
      <3>2. QED
        BY <2>2, <3>1
    <2>5. clean' => TodaysReport'
      BY <1>1, <2>1, <2>4 DEF EInv, Achieved, TodaysReport
    <2>6. clean' => Achieved'
      BY <2>1, <2>5 DEF Achieved
    <2>7. QED
      BY <1>3, <2>6 DEF EInv
  <1>7. CASE Publish
    <2>1. /\ pc = "publish" /\ pc' = "persist" /\ UNCHANGED <<log, tables, reports, tree>>
          /\ Execute("publish", Artifacts(tree), FALSE)
      BY <1>7 DEF Publish, Execute, What
    <2>2. SameExport(published', tree)
      BY <2>1 DEF Execute, Artifacts, SameExport
    <2>3. clean => TodaysReport /\ tree.events = Len(log) /\ Shows(tree)
      BY <2>1 DEF EInv, Achieved
    <2>4. clean' => TodaysReport' /\ tree'.events = Len(log') /\ Shows(tree)'
      BY <1>1, <2>1, <2>3 DEF TodaysReport, Shows
    <2>5. SameExport(published, tree)'
      BY <2>1, <2>2 DEF SameExport
    <2>6. clean' => Achieved'
      BY <2>1, <2>4, <2>5 DEF Achieved
    <2>7. QED
      BY <1>3, <2>6 DEF EInv
  <1>8. QED
    BY <1>4, <1>5, <1>6, <1>7

LEMMA LocalAchieves ==
  ASSUME TInv, WInv, EInv,
         Start \/ Select \/ Rebuild \/ Snapshot \/ ReadStars \/ Export \/ Persist
  PROVE  EInv'
  <1> USE DEF Goto
  <1>1. /\ UNCHANGED <<log, tables, reports, published, late>>
        /\ \/ today' = today /\ clean' = clean
           \/ Start
    BY DEF Start, Select, Rebuild, Snapshot, ReadStars, Export, Persist, netVars, serverVars
  <1>2. today \in Days /\ today' \in Days /\ today \in Nat /\ today' \in Nat /\ today <= today'
    <2>1. today \in Days /\ today \in Nat
      BY DEF TInv, TypeOK, Days
    <2>2. CASE today' = today
      BY <2>1, <2>2
    <2>3. CASE Start
      BY <2>1, <2>3 DEF Start, Days
    <2>4. QED
      BY <1>1, <2>2, <2>3
  <1>3. ReportsOfThePast'
    BY <1>1, <1>2, ReportsSame DEF EInv
  <1>4. CASE Start
    <2>1. pc' = "collect"
      BY <1>4 DEF Start
    <2>2. QED
      BY <1>3, <2>1 DEF EInv, Achieved
  <1>5. CASE Select
    <2>1. pc' \in {"report", "rebuild", "append"} /\ (pc' = "report" => topics' = {})
      BY <1>5 DEF Select
    <2>2. Achieved'
      BY <2>1 DEF Achieved
    <2>3. QED
      BY <1>3, <2>2 DEF EInv
  <1>6. CASE Rebuild
    <2>1. pc = "rebuild" /\ pc' = "replace" /\ topics' = topics /\ stars' = Proposed(log)
      BY <1>6 DEF Rebuild
    <2>2. log \in Seq(Batch)
      BY DEF TInv, TypeOK
    <2>3. Proposed(log) = AllRecorded
      BY <2>2 DEF Proposed, AllRecorded, Recorded
    <2>4. topics \subseteq AllRecorded
      BY <2>1 DEF WInv, TopicsAreRecorded
    <2>5. Achieved'
      BY <2>1, <2>3, <2>4 DEF Achieved
    <2>6. QED
      BY <1>3, <2>5 DEF EInv
  <1>7. CASE Snapshot
    <2>1. pc = "snapshot" /\ pc' = "stars" /\ tree' = [tree EXCEPT !.events = Len(log)]
          /\ today' = today /\ clean' = clean
      BY <1>7 DEF Snapshot
    <2>2. tree \in [events : Nat, stars : SUBSET Concepts, new : SUBSET Concepts,
                    places : {tree.places}, index : Reports]
      BY DEF TInv, TypeOK, IsFiles
    <2>3. tree'.events = Len(log')
      BY <1>1, <2>1, <2>2
    <2>4. clean' => TodaysReport'
      BY <1>1, <2>1 DEF EInv, Achieved, TodaysReport
    <2>5. clean' => Achieved'
      BY <2>1, <2>3, <2>4 DEF Achieved
    <2>6. QED
      BY <1>3, <2>5 DEF EInv
  <1>8. CASE ReadStars
    <2>1. pc = "stars" /\ pc' = "export" /\ stars' = tables /\ tree' = tree
          /\ today' = today /\ clean' = clean
      BY <1>8 DEF ReadStars, netVars
    <2>2. clean' => TodaysReport' /\ tree'.events = Len(log')
      BY <1>1, <2>1 DEF EInv, Achieved, TodaysReport
    <2>3. clean' => Achieved'
      BY <1>1, <2>1, <2>2 DEF Achieved
    <2>4. QED
      BY <1>3, <2>3 DEF EInv
  <1>9. CASE Export
    <2> DEFINE new == {c \in stars : FirstDate(c) = Max(DOMAIN reports)}
    <2>1. /\ pc = "export" /\ pc' = "publish" /\ today' = today /\ clean' = clean
          /\ tree' = [events |-> tree.events, stars |-> stars, new |-> new,
                      places |-> BuildLayout(stars, tree.places), index |-> reports]
      BY <1>9 DEF Export, netVars
    <2>2. new = NewStars(log, stars, Max(DOMAIN reports))
      BY DEF FirstDate, NewStars, FirstDay
    <2> HIDE DEF new
    <2>3. SUFFICES ASSUME clean' PROVE Achieved'
      BY <1>3 DEF EInv
    <2>4. TodaysReport /\ tree.events = Len(log) /\ stars = tables
      BY <2>1, <2>3 DEF EInv, Achieved
    <2>5. Max(DOMAIN reports) = today
      <3>1. reports \in Reports
        BY DEF TInv, TypeOK
      <3>2. today \in DOMAIN reports /\ DOMAIN reports \subseteq 1..today
        BY <2>4 DEF TodaysReport, EInv, ReportsOfThePast
      <3>3. Max(DOMAIN reports) \in DOMAIN reports /\ today <= Max(DOMAIN reports)
        BY <3>1, <3>2, NewestDay
      <3>4. Max(DOMAIN reports) \in 1..today
        BY <3>2, <3>3
      <3>5. QED
        BY <1>2, <3>3, <3>4
    <2>6. /\ tree'.events = tree.events /\ tree'.stars = stars /\ tree'.new = new
          /\ tree'.index = reports
      BY <2>1
    <2>7. Shows(tree)'
      BY <1>1, <2>1, <2>2, <2>4, <2>5, <2>6 DEF Shows
    <2>8. TodaysReport' /\ tree'.events = Len(log')
      BY <1>1, <2>1, <2>4, <2>6 DEF TodaysReport
    <2>9. QED
      BY <2>1, <2>7, <2>8 DEF Achieved
  <1>10. CASE Persist
    <2>1. pc = "persist" /\ pc' = "idle" /\ repo' = tree /\ today' = today /\ clean' = clean
      BY <1>10 DEF Persist, Ends, netVars
    <2>2. SUFFICES ASSUME clean' PROVE Achieved'
      BY <1>3 DEF EInv
    <2>3. TodaysReport /\ Shows(tree) /\ SameExport(published, tree)
      BY <2>1, <2>2 DEF EInv, Achieved
    <2>4. TodaysReport'
      BY <1>1, <2>1, <2>3 DEF TodaysReport
    <2>5. Shows(repo)' /\ SameExport(published, repo)'
      BY <1>1, <2>1, <2>3 DEF Shows, SameExport
    <2>6. QED
      BY <2>1, <2>4, <2>5 DEF Achieved
  <1>11. QED
    BY <1>4, <1>5, <1>6, <1>7, <1>8, <1>9, <1>10

LEMMA FaultAchieves ==
  ASSUME TInv, EInv, Resend \/ Abort \/ RebuildElsewhere \/ UNCHANGED vars
  PROVE  EInv'
  <1> USE DEF Goto, serverVars, jobVars, netVars
  <1>1. UNCHANGED <<log, tables, reports, published, repo, today>>
    BY DEF Resend, Abort, RebuildElsewhere, vars
  <1>2. today \in Nat /\ today \in 1..today
    BY DEF TInv, TypeOK, Days
  <1>3. \A m \in late' \ late : m.kind = "report" => m.what.date \in 1..today'
    <2>1. CASE late' = late
      BY <2>1
    <2>2. CASE pc \in Requests /\ Lose(pc, What)
      <3>1. \A m \in late' \ late : m.kind = pc /\ m.what = What
        BY <2>2 DEF Lose
      <3>2. pc = "report" => What.date = today
        BY DEF What
      <3>3. QED
        BY <1>1, <1>2, <3>1, <3>2
    <2>3. CASE Lose("replace", Proposed(log))
      <3>1. \A m \in late' \ late : m.kind = "replace"
        BY <2>3 DEF Lose
      <3>2. QED
        BY <3>1
    <2>4. QED
      BY <2>1, <2>2, <2>3 DEF Resend, Abort, RebuildElsewhere, vars
  <1>4. ReportsOfThePast'
    BY <1>1, <1>2, <1>3, ReportsSame DEF EInv
  <1>5. CASE Abort
    <2>1. ~clean'
      BY <1>5 DEF Abort
    <2>2. QED
      BY <1>4, <2>1 DEF EInv
  <1>6. CASE Resend \/ RebuildElsewhere \/ UNCHANGED vars
    <2>1. UNCHANGED <<pc, topics, stars, tree, clean>>
      BY <1>6 DEF Resend, RebuildElsewhere, vars
    <2>2. clean' => Achieved'
      BY <1>1, <2>1 DEF EInv, Achieved, TodaysReport, Shows, SameExport
    <2>3. QED
      BY <1>4, <2>2 DEF EInv
  <1>7. QED
    BY <1>5, <1>6

LEMMA ServeLateAchieves ==
  ASSUME TInv, EInv, NEW m \in late, ServeLate(m)
  PROVE  EInv'
  <1>1. late' = late \ {m} /\ Execute(m.kind, m.what, TRUE) /\ clean' = FALSE /\ today' = today
    BY DEF ServeLate, jobVars
  <1>2. m.kind \in Requests /\ Fits(m.kind, m.what)
    BY DEF TInv, TypeOK
  <1>3. m.kind = "report" => m.what.date \in 1..today
    BY DEF EInv, ReportsOfThePast
  <1>4. ReportsOfThePast'
    BY <1>1, <1>2, <1>3, ExecuteReports DEF EInv
  <1>5. QED
    BY <1>1, <1>4 DEF EInv

LEMMA EInvAlways == Spec => []EInv
  <1>1. Init => EInv
    <2> SUFFICES ASSUME Init PROVE EInv
      OBVIOUS
    <2>1. DOMAIN reports = {} /\ late = {} /\ clean = FALSE
      BY DEF Init
    <2>2. QED
      BY <2>1 DEF EInv, ReportsOfThePast
  <1>2. TInv /\ WInv /\ EInv /\ [Next]_vars => EInv'
    BY CallAchieves, LocalAchieves, FaultAchieves, ServeLateAchieves DEF Next, Job
  <1>3. QED
    BY <1>1, <1>2, TInvAlways, WInvAlways, PTL DEF Spec

(* A job that ends well, with no late request executed since it began, has *)
(* brought the ledger, the public data and git into agreement, and today's *)
(* new topics are marked as new on the map: whatever earlier jobs left     *)
(* half done, and however often a request of its own was sent again.       *)
THEOREM SuccessIsAlwaysPublished == Spec => []SuccessIsPublished
  <1>1. ASSUME EInv PROVE SuccessIsPublished
    <2>1. SUFFICES ASSUME pc = "idle", clean
                   PROVE  /\ published.index = reports /\ repo.index = reports
                          /\ published.stars = tables /\ repo.stars = tables
                          /\ published.places = repo.places
                          /\ repo.events = Len(log)
                          /\ reports[today] \subseteq tables
                          /\ {c \in reports[today] : FirstDate(c) = today} \subseteq published.new
      BY DEF SuccessIsPublished
    <2>2. TodaysReport /\ SameExport(published, repo) /\ Shows(repo)
      BY <1>1, <2>1 DEF EInv, Achieved
    <2>3. published.new = NewStars(log, tables, today)
      BY <2>2 DEF SameExport, Shows
    <2>4. {c \in reports[today] : FirstDate(c) = today} \subseteq NewStars(log, tables, today)
      BY <2>2 DEF TodaysReport, NewStars, FirstDate, FirstDay
    <2>5. QED
      BY <2>2, <2>3, <2>4 DEF TodaysReport, SameExport, Shows
  <1>2. QED
    BY <1>1, EInvAlways, PTL

=============================================================================
