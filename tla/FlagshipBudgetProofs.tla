------------------------ MODULE FlagshipBudgetProofs ------------------------
(***************************************************************************)
(* What the ledger records of the flagship budget, for any processes, run  *)
(* ids, caps and numbers of turns, rounds and faults; and, when each       *)
(* session has one request at a time and nothing fails, how far the caps   *)
(* can be passed.                                                          *)
(***************************************************************************)
EXTENDS FlagshipBudget, FiniteSetTheorems, WellFoundedInduction, TLAPS

(* The parts of the state that matter here, and their types. *)
CountersTypeOK ==
  /\ usage \in [RunIds -> Nat] /\ spent \in [RunIds -> Nat]
  /\ pc \in [Procs -> {"idle", "tutorCap", "totalCap", "memory", "calling", "save"}]
  /\ own \in [Procs -> Nat] /\ mem \in [Procs -> Nat]
  /\ est \in [Procs -> 0..MaxEstimate]
  /\ attempt \in [Procs -> 0..1] /\ round \in [Procs -> 0..MaxRounds]
  /\ outcome \in [Procs -> {"none", "ok", "exhausted", "budgetError", "error"}]
  /\ late \in SUBSET [run : RunIds, tokens : Nat]

BoundsTypeOK == turns \in 0..MaxTurns /\ faults \in 0..MaxFaults

(* What a process or a late save is going to write was spent under the run *)
(* id that it will be written to.                                          *)
OwnIsSpent == \A p \in Procs : own[p] <= spent[RunOf[p]] /\ mem[p] <= spent[RunOf[p]]
LateIsSpent == \A m \in late : m.tokens <= spent[m.run]

IInv == CountersTypeOK /\ BoundsTypeOK /\ OwnIsSpent /\ LateIsSpent /\ RecordedIsSpent

----------------------------------------------------------------------------
(* Types *)

LEMMA FirstCheckIsPlace ==
  ASSUME NEW p \in Procs
  PROVE  FirstCheck(p) \in {"tutorCap", "totalCap", "memory"}
  BY DEF FirstCheck, Procs

(* The helpers that end a turn or go on in it. *)
Local(p) ==
  /\ pc' \in [Procs -> {"idle", "tutorCap", "totalCap", "memory", "calling", "save"}]
  /\ own' \in [Procs -> Nat] /\ mem' \in [Procs -> Nat]
  /\ est' \in [Procs -> 0..MaxEstimate]
  /\ attempt' \in [Procs -> 0..1] /\ round' \in [Procs -> 0..MaxRounds]
  /\ outcome' \in [Procs -> {"none", "ok", "exhausted", "budgetError", "error"}]
  /\ \A q \in Procs : own'[q] \in {own[q], 0} /\ mem'[q] \in {mem[q], 0}

LEMMA EndTurnFits ==
  ASSUME CountersTypeOK, NEW p \in Procs,
         NEW how \in {"ok", "exhausted", "budgetError", "error"}, EndTurn(p, how)
  PROVE  Local(p)
  BY CapsAssumption DEF CountersTypeOK, EndTurn, Local

LEMMA NextRoundFits ==
  ASSUME CountersTypeOK, NEW p \in Procs, round[p] < MaxRounds, NextRound(p),
         UNCHANGED <<own, mem, outcome>>
  PROVE  Local(p)
  <1>1. round[p] + 1 \in 0..MaxRounds
    BY CapsAssumption DEF CountersTypeOK
  <1>2. PICK e \in 1..MaxEstimate : est' = [est EXCEPT ![p] = e]
    BY DEF NextRound
  <1>3. e \in 0..MaxEstimate
    BY CapsAssumption
  <1>4. QED
    BY <1>1, <1>2, <1>3, FirstCheckIsPlace DEF CountersTypeOK, NextRound, Local

LEMMA ProceedFits ==
  ASSUME CountersTypeOK, NEW p \in Procs, Proceed(p)
  PROVE  Local(p)
  <1>1. CASE EndTurn(p, "ok") \/ EndTurn(p, "error")
    BY <1>1, EndTurnFits
  <1>2. CASE round[p] < MaxRounds /\ NextRound(p) /\ UNCHANGED <<own, mem, outcome>>
    BY <1>2, NextRoundFits
  <1>3. CASE /\ attempt' = [attempt EXCEPT ![p] = 1]
             /\ pc' = [pc EXCEPT ![p] = FirstCheck(p)]
             /\ UNCHANGED <<own, mem, est, round, outcome>>
    BY <1>3, FirstCheckIsPlace DEF CountersTypeOK, Local
  <1>4. QED
    BY <1>1, <1>2, <1>3 DEF Proceed

----------------------------------------------------------------------------
(* Steps by what they do to the ledger and to what was spent *)

(* Nothing is spent and nothing is written. *)
LEMMA LocalKeeps ==
  ASSUME IInv, NEW p \in Procs, Local(p), UNCHANGED <<usage, spent>>,
         late' \in SUBSET [run : RunIds, tokens : Nat], LateIsSpent', BoundsTypeOK'
  PROVE  IInv'
  <1>1. CountersTypeOK'
    BY DEF IInv, CountersTypeOK, Local
  <1>2. OwnIsSpent'
    <2>1. \A q \in Procs : own[q] \in Nat /\ mem[q] \in Nat /\ spent[RunOf[q]] \in Nat
      BY ProcsAssumption DEF IInv, CountersTypeOK
    <2>2. QED
      BY <2>1 DEF IInv, OwnIsSpent, Local
  <1>3. RecordedIsSpent'
    BY DEF IInv, RecordedIsSpent
  <1>4. QED
    BY <1>1, <1>2, <1>3 DEF IInv

(* A process writes what it holds. *)
LEMMA WriteKeeps ==
  ASSUME IInv, NEW p \in Procs, Local(p), UNCHANGED <<spent, late, turns, faults>>,
         NEW n \in {own[p], mem[p]},
         usage' = [usage EXCEPT ![RunOf[p]] = n] \/ usage' = usage
  PROVE  IInv'
  <1>1. n \in Nat /\ RunOf[p] \in RunIds /\ n <= spent[RunOf[p]]
    BY ProcsAssumption DEF IInv, CountersTypeOK, OwnIsSpent
  <1>2. usage' \in [RunIds -> Nat] /\ \A r \in RunIds : usage'[r] <= spent[r]
    BY <1>1 DEF IInv, CountersTypeOK, RecordedIsSpent
  <1>3. CountersTypeOK' /\ BoundsTypeOK' /\ LateIsSpent' /\ RecordedIsSpent'
    BY <1>2 DEF IInv, CountersTypeOK, BoundsTypeOK, LateIsSpent, RecordedIsSpent, Local
  <1>4. OwnIsSpent'
    <2>1. \A q \in Procs : own[q] \in Nat /\ mem[q] \in Nat /\ spent[RunOf[q]] \in Nat
      BY ProcsAssumption DEF IInv, CountersTypeOK
    <2>2. QED
      BY <2>1 DEF IInv, OwnIsSpent, Local
  <1>5. QED
    BY <1>3, <1>4 DEF IInv

----------------------------------------------------------------------------
(* The actions *)

LEMMA BeginKeeps ==
  ASSUME IInv, NEW p \in Procs, Begin(p)
  PROVE  IInv'
  <1>1. RunOf[p] \in RunIds /\ usage[RunOf[p]] \in Nat /\ usage[RunOf[p]] <= spent[RunOf[p]]
    BY ProcsAssumption DEF IInv, CountersTypeOK, RecordedIsSpent
  <1>2. own' = [own EXCEPT ![p] = usage[RunOf[p]]] /\ mem' = [mem EXCEPT ![p] = 0]
        /\ UNCHANGED <<usage, spent, outcome, late, faults>> /\ turns' \in 0..MaxTurns
    BY CapsAssumption DEF Begin, IInv, BoundsTypeOK
  <1>3. PICK e \in 1..MaxEstimate : est' = [est EXCEPT ![p] = e]
    <2>1. 1 \in 1..MaxEstimate
      BY CapsAssumption
    <2>2. QED
      BY <2>1 DEF Begin
  <1>4. PICK n \in 0..1 : round' = [round EXCEPT ![p] = n]
    BY DEF Begin
  <1>5. PICK label \in {"tutorCap", "totalCap", "memory"} : pc' = [pc EXCEPT ![p] = label]
    BY FirstCheckIsPlace DEF Begin
  <1>6. n \in 0..MaxRounds /\ e \in 0..MaxEstimate
    BY CapsAssumption
  <1>7. attempt' = [attempt EXCEPT ![p] = 0]
    BY DEF Begin
  <1>8. CountersTypeOK' /\ BoundsTypeOK'
    BY <1>1, <1>2, <1>3, <1>4, <1>5, <1>6, <1>7 DEF IInv, CountersTypeOK, BoundsTypeOK
  <1>9. OwnIsSpent'
    <2>1. spent[RunOf[p]] \in Nat
      BY <1>1 DEF IInv, CountersTypeOK
    <2>2. QED
      BY <1>1, <1>2, <2>1 DEF IInv, CountersTypeOK, OwnIsSpent
  <1>10. LateIsSpent' /\ RecordedIsSpent'
    BY <1>2 DEF IInv, LateIsSpent, RecordedIsSpent
  <1>11. QED
    BY <1>8, <1>9, <1>10 DEF IInv

LEMMA ChecksKeep ==
  ASSUME IInv, NEW p \in Procs, CheckTutorCap(p) \/ CheckTotalCap(p) \/ CheckMemory(p)
  PROVE  IInv'
  <1>1. UNCHANGED <<usage, spent, late, turns, faults>>
    BY DEF CheckTutorCap, CheckTotalCap, CheckMemory
  <1>2. ASSUME EndTurn(p, "exhausted") \/ EndTurn(p, "budgetError")
        PROVE  Local(p)
    BY <1>2, EndTurnFits DEF IInv
  <1>3. ASSUME round[p] = 0, NextRound(p), UNCHANGED <<own, mem, outcome>>
        PROVE  Local(p)
    <2>1. round[p] < MaxRounds
      BY <1>3, CapsAssumption
    <2>2. QED
      BY <1>3, <2>1, NextRoundFits DEF IInv
  <1>4. ASSUME NEW label \in {"totalCap", "memory", "calling"},
               pc' = [pc EXCEPT ![p] = label], UNCHANGED <<turnVars, outcome>>
        PROVE  Local(p)
    BY <1>4 DEF IInv, CountersTypeOK, Local, turnVars
  <1>5. Local(p)
    BY <1>2, <1>3, <1>4, EndTurnFits DEF IInv, CheckTutorCap, CheckTotalCap, CheckMemory
  <1>6. QED
    BY <1>1, <1>5, LocalKeeps DEF IInv, CountersTypeOK, LateIsSpent, BoundsTypeOK

LEMMA RespondKeeps ==
  ASSUME IInv, NEW p \in Procs, Respond(p)
  PROVE  IInv'
  <1>1. PICK n \in 0..MaxUse :
          /\ spent' = [spent EXCEPT ![RunOf[p]] = @ + n]
          /\ mem' = [mem EXCEPT ![p] = @ + n]
          /\ own' = [own EXCEPT ![p] = @ + n]
    BY DEF Respond
  <1>2. n \in Nat /\ RunOf[p] \in RunIds /\ \A q \in Procs : RunOf[q] \in RunIds
    BY ProcsAssumption, CapsAssumption
  <1>3. /\ pc' = [pc EXCEPT ![p] = "save"]
        /\ UNCHANGED <<usage, est, attempt, round, outcome, late, turns, faults>>
    BY DEF Respond
  <1>4. \A r \in RunIds : spent[r] \in Nat /\ spent'[r] \in Nat /\ spent'[r] >= spent[r]
    BY <1>1, <1>2 DEF IInv, CountersTypeOK
  <1>5. CountersTypeOK' /\ BoundsTypeOK'
    BY <1>1, <1>2, <1>3 DEF IInv, CountersTypeOK, BoundsTypeOK
  <1>6. OwnIsSpent'
    <2>1. ASSUME NEW q \in Procs
          PROVE  own'[q] <= spent'[RunOf[q]] /\ mem'[q] <= spent'[RunOf[q]]
      <3>1. /\ own[q] \in Nat /\ mem[q] \in Nat
            /\ own[q] <= spent[RunOf[q]] /\ mem[q] <= spent[RunOf[q]]
            /\ spent[RunOf[q]] \in Nat /\ RunOf[q] \in RunIds
        BY <1>2, <1>4 DEF IInv, CountersTypeOK, OwnIsSpent
      <3>2. CASE q = p
        <4>1. /\ own'[p] = own[p] + n /\ mem'[p] = mem[p] + n
              /\ spent'[RunOf[p]] = spent[RunOf[p]] + n
          BY <1>1, <1>2 DEF IInv, CountersTypeOK
        <4>2. QED
          BY <1>2, <3>1, <3>2, <4>1
      <3>3. CASE q # p
        <4>1. own'[q] = own[q] /\ mem'[q] = mem[q]
          BY <1>1, <3>3 DEF IInv, CountersTypeOK
        <4>2. QED
          BY <1>4, <3>1, <4>1
      <3>4. QED
        BY <3>2, <3>3
    <2>2. QED
      BY <2>1 DEF OwnIsSpent
  <1>7. LateIsSpent'
    <2>1. ASSUME NEW m \in late
          PROVE  m.tokens <= spent'[m.run]
      BY <1>4, <2>1 DEF IInv, CountersTypeOK, LateIsSpent
    <2>2. QED
      BY <1>3, <2>1 DEF LateIsSpent
  <1>8. RecordedIsSpent'
    <2>1. ASSUME NEW r \in RunIds
          PROVE  usage'[r] <= spent'[r]
      BY <1>3, <1>4 DEF IInv, CountersTypeOK, RecordedIsSpent
    <2>2. QED
      BY <2>1 DEF RecordedIsSpent
  <1>9. QED
    BY <1>5, <1>6, <1>7, <1>8 DEF IInv

LEMMA FailuresKeep ==
  ASSUME IInv, NEW p \in Procs, CallFails(p) \/ SaveLost(p) \/ Crash(p)
  PROVE  IInv'
  <1>1. UNCHANGED <<usage, spent, turns>> /\ BoundsTypeOK'
    BY CapsAssumption DEF CallFails, SaveLost, Crash, IInv, BoundsTypeOK
  <1>2. late' \in SUBSET [run : RunIds, tokens : Nat] /\ LateIsSpent'
    <2>1. CASE late' = late
      BY <1>1, <2>1 DEF IInv, CountersTypeOK, LateIsSpent
    <2>2. CASE late' = late \union {[run |-> RunOf[p], tokens |-> own[p]]}
      BY <1>1, <2>2, ProcsAssumption DEF IInv, CountersTypeOK, LateIsSpent, OwnIsSpent
    <2>3. QED
      BY <2>1, <2>2 DEF CallFails, SaveLost, Crash
  <1>3. CASE EndTurn(p, "error")
    BY <1>1, <1>2, <1>3, EndTurnFits, LocalKeeps DEF IInv
  <1>4. CASE UNCHANGED <<pc, turnVars, outcome>>
    <2>1. Local(p)
      BY <1>4 DEF IInv, CountersTypeOK, Local, turnVars
    <2>2. QED
      BY <1>1, <1>2, <2>1, LocalKeeps
  <1>5. CASE /\ attempt' = [attempt EXCEPT ![p] = 1]
             /\ pc' = [pc EXCEPT ![p] = FirstCheck(p)]
             /\ UNCHANGED <<own, mem, est, round, outcome>>
    <2>1. Local(p)
      BY <1>5, FirstCheckIsPlace DEF IInv, CountersTypeOK, Local
    <2>2. QED
      BY <1>1, <1>2, <2>1, LocalKeeps
  <1>6. QED
    BY <1>3, <1>4, <1>5 DEF CallFails, SaveLost, Crash

LEMMA LateSaveKeeps ==
  ASSUME IInv, NEW m \in late, LateSave(m)
  PROVE  IInv'
  <1>1. /\ usage' = [usage EXCEPT ![m.run] = m.tokens] /\ late' = late \ {m}
        /\ UNCHANGED <<spent, pc, turnVars, outcome, turns, faults>>
    BY DEF LateSave
  <1>2. m.run \in RunIds /\ m.tokens \in Nat /\ m.tokens <= spent[m.run]
    BY DEF IInv, CountersTypeOK, LateIsSpent
  <1>3. usage' \in [RunIds -> Nat] /\ \A r \in RunIds : usage'[r] <= spent[r]
    BY <1>1, <1>2 DEF IInv, CountersTypeOK, RecordedIsSpent
  <1>4. QED
    BY <1>1, <1>3 DEF IInv, CountersTypeOK, BoundsTypeOK, OwnIsSpent, LateIsSpent,
       RecordedIsSpent, turnVars

LEMMA Inductive == IInv /\ [Next]_vars => IInv'
  <1> SUFFICES ASSUME IInv, [Next]_vars PROVE IInv'
    OBVIOUS
  <1>1. ASSUME NEW p \in Procs, Save(p) \/ MorningProceed(p)
        PROVE  IInv'
    <2>1. Local(p) /\ UNCHANGED <<spent, late, turns, faults>>
      BY <1>1, ProceedFits DEF IInv, Save, MorningProceed
    <2>2. \E n \in {own[p], mem[p]} :
            usage' = [usage EXCEPT ![RunOf[p]] = n] \/ usage' = usage
      BY <1>1 DEF Save, MorningProceed
    <2>3. QED
      BY <2>1, <2>2, WriteKeeps
  <1>2. CASE UNCHANGED vars
    BY <1>2 DEF vars, IInv, CountersTypeOK, BoundsTypeOK, OwnIsSpent, LateIsSpent, RecordedIsSpent
  <1>3. QED
    BY <1>1, <1>2, BeginKeeps, ChecksKeep, RespondKeeps, FailuresKeep, LateSaveKeeps
    DEF Next, Step

LEMMA InitHolds == Init => IInv
  <1> SUFFICES ASSUME Init PROVE IInv
    OBVIOUS
  <1>1. \A p \in Procs : RunOf[p] \in RunIds
    BY ProcsAssumption
  <1>2. CountersTypeOK /\ BoundsTypeOK
    BY CapsAssumption DEF Init, CountersTypeOK, BoundsTypeOK
  <1>3. OwnIsSpent /\ LateIsSpent /\ RecordedIsSpent
    BY <1>1 DEF Init, OwnIsSpent, LateIsSpent, RecordedIsSpent
  <1>4. QED
    BY <1>2, <1>3 DEF IInv

LEMMA IInvAlways == Spec => []IInv
  BY InitHolds, Inductive, PTL DEF Spec

----------------------------------------------------------------------------

(* Every state has the types of TypeOK. *)
THEOREM BudgetTypes == Spec => []TypeOK
  <1>1. IInv => TypeOK
    BY DEF IInv, CountersTypeOK, BoundsTypeOK, TypeOK
  <1>2. QED
    BY <1>1, IInvAlways, PTL

(* The ledger never records a token that was not used: whatever turns of   *)
(* one session overwrite each other's row, whatever is saved late, retried *)
(* or lost, and wherever a process dies.                                   *)
THEOREM RecordedIsAlwaysSpent == Spec => []RecordedIsSpent
  <1>1. IInv => RecordedIsSpent
    BY DEF IInv
  <1>2. QED
    BY <1>1, IInvAlways, PTL

----------------------------------------------------------------------------
(* Induction, by the smallest counterexample *)

(* Every set of numbers has a least one. *)
LEMMA NatMin ==
  ASSUME NEW T \in SUBSET Nat, T # {}
  PROVE  \E x \in T : \A y \in T : x <= y
  <1>1. IsWellFoundedOn(OpToRel(<, Nat), Nat)
    BY NatLessThanWellFounded
  <1>2. \E x \in T : \A y \in T : <<y, x>> \notin OpToRel(<, Nat)
    BY <1>1, WFMin
  <1>3. \A x, y \in Nat : y < x => <<y, x>> \in OpToRel(<, Nat)
    BY DEF OpToRel
  <1>4. PICK x \in T : \A y \in T : ~(y < x)
    BY <1>2, <1>3
  <1>5. QED
    BY <1>4

(* So what holds of 0, and of n + 1 with n, holds of every number ... *)
LEMMA NatInd ==
  ASSUME NEW T, 0 \in T, \A n \in Nat : n \in T => n + 1 \in T
  PROVE  Nat \subseteq T
  <1>1. SUFFICES ASSUME Nat \ T # {} PROVE FALSE
    OBVIOUS
  <1>2. PICK x \in Nat \ T : \A y \in Nat \ T : x <= y
    BY <1>1, NatMin
  <1>3. x # 0 /\ x - 1 \in Nat /\ x - 1 \in T /\ x = (x - 1) + 1
    BY <1>2
  <1>4. QED
    BY <1>2, <1>3

(* ... and what holds of a finite set when it holds of all its proper      *)
(* subsets holds of all.                                                   *)
LEMMA SubsetInd ==
  ASSUME NEW S, IsFiniteSet(S), NEW Good,
         \A T \in SUBSET S : (\A U \in SUBSET T : U # T => U \in Good) => T \in Good
  PROVE  SUBSET S \subseteq Good
  <1> DEFINE Bad == {T \in SUBSET S : T \notin Good}
  <1>1. SUFFICES ASSUME Bad # {} PROVE FALSE
    OBVIOUS
  <1>2. Bad \subseteq FiniteSubsetsOf(S)
    BY FS_FiniteSubsetsOfFinite
  <1>3. PICK T \in Bad : \A U \in Bad : <<U, T>> \notin StrictSubsetOrdering(S)
    <2> HIDE DEF Bad
    <2>1. QED
      BY <1>1, <1>2, WFMin, FS_StrictSubsetOrderingWellFounded
  <1>4. ASSUME NEW U \in SUBSET T, U # T PROVE U \in Good
    BY <1>3, <1>4 DEF StrictSubsetOrdering
  <1>5. QED
    BY <1>3, <1>4

----------------------------------------------------------------------------
(* Totals: the fold over a set that the guards' sums are *)

(* An element of s, the one a fold takes first. *)
Pick(s) == CHOOSE x \in s : TRUE

Sums(g, f, S) ==
  g = [s \in SUBSET S |-> IF s = {} THEN 0 ELSE f[Pick(s)] + g[s \ {Pick(s)}]]

(* A total is such a function's value at S, if there is one: nothing says  *)
(* so far that a function with this equation exists.                       *)
LEMMA TotalIsSum == ASSUME NEW f, NEW S PROVE Total(f, S) = (CHOOSE g : Sums(g, f, S))[S]
  BY DEF Total, MapThenSumSet, MapThenFoldSet, Sums, Pick

(* The right-hand side, for any g: right to depth n + 1 where g is right   *)
(* to depth n.                                                             *)
Unfold(g, f, S) ==
  [s \in SUBSET S |-> IF s = {} THEN 0 ELSE f[Pick(s)] + g[s \ {Pick(s)}]]

LEMMA SumsExist ==
  ASSUME NEW f, NEW S, IsFiniteSet(S)
  PROVE  \E g : Sums(g, f, S)
  <1> DEFINE Right(g, n) == \A s \in SUBSET S : Cardinality(s) <= n => g[s] = Unfold(g, f, S)[s]
             Depths == {n \in Nat : \E g : Right(g, n)}
  <1>1. ASSUME NEW s \in SUBSET S
        PROVE  /\ Cardinality(s) \in Nat /\ (Cardinality(s) = 0 <=> s = {})
               /\ s # {} => /\ s \ {Pick(s)} \in SUBSET S
                            /\ Cardinality(s \ {Pick(s)}) = Cardinality(s) - 1
    <2>1. IsFiniteSet(s)
      BY FS_Subset
    <2>2. s # {} => Pick(s) \in s
      BY DEF Pick
    <2>3. QED
      BY <2>1, <2>2, FS_EmptySet, FS_CardinalityType, FS_RemoveElement
  <1>2. ASSUME NEW g, NEW n \in Nat, Right(g, n)
        PROVE  Right(Unfold(g, f, S), n + 1)
    <2>1. SUFFICES ASSUME NEW s \in SUBSET S, Cardinality(s) <= n + 1
                   PROVE  Unfold(g, f, S)[s] = Unfold(Unfold(g, f, S), f, S)[s]
      OBVIOUS
    <2>2. CASE s = {}
      BY <2>2 DEF Unfold
    <2>3. CASE s # {}
      <3> DEFINE t == s \ {Pick(s)}
      <3>1. t \in SUBSET S /\ Cardinality(t) <= n
        BY <1>1, <2>1, <2>3
      <3>2. g[t] = Unfold(g, f, S)[t]
        BY <1>2, <3>1
      <3>3. QED
        BY <2>3, <3>1, <3>2 DEF Unfold
    <2>4. QED
      BY <2>2, <2>3
  <1>3. 0 \in Depths
    <2> DEFINE g == [s \in SUBSET S |-> 0]
    <2>1. ASSUME NEW s \in SUBSET S, Cardinality(s) <= 0 PROVE s = {}
      <3>1. Cardinality(s) \in Nat /\ (Cardinality(s) = 0 <=> s = {})
        BY <1>1
      <3>2. QED
        BY <2>1, <3>1
    <2>2. Right(g, 0)
      BY <2>1 DEF Unfold
    <2>3. QED
      BY <2>2
  <1>4. Nat \subseteq Depths
    <2>1. ASSUME NEW n \in Nat, n \in Depths PROVE n + 1 \in Depths
      <3>1. PICK g : Right(g, n)
        BY <2>1
      <3>2. Right(Unfold(g, f, S), n + 1)
        BY <1>2, <3>1
      <3> HIDE DEF Right
      <3>3. QED
        BY <3>2
    <2> HIDE DEF Depths
    <2>2. QED
      BY <1>3, <2>1, NatInd
  <1>5. Cardinality(S) \in Depths
    BY <1>4, FS_CardinalityType
  <1>6. PICK g : Right(g, Cardinality(S))
    BY <1>5
  <1>7. \A s \in SUBSET S : Cardinality(s) <= Cardinality(S)
    BY FS_Subset
  <1>8. \A s \in SUBSET S : g[s] = Unfold(g, f, S)[s]
    BY <1>6, <1>7
  <1>9. Unfold(g, f, S) = Unfold(Unfold(g, f, S), f, S)
    <2>1. \A s \in SUBSET S : s \ {Pick(s)} \in SUBSET S
      OBVIOUS
    <2>2. QED
      BY <1>8, <2>1 DEF Unfold
  <1>10. QED
    BY <1>9 DEF Sums, Unfold

LEMMA SumsAdd ==
  ASSUME NEW f, NEW S, IsFiniteSet(S), \A r \in S : f[r] \in Nat, NEW g, Sums(g, f, S)
  PROVE  \A s \in SUBSET S : g[s] \in Nat /\ \A x \in s : g[s] = f[x] + g[s \ {x}]
  <1> DEFINE Good == {s \in SUBSET S : g[s] \in Nat /\ \A x \in s : g[s] = f[x] + g[s \ {x}]}
  <1>0. ASSUME NEW s \in SUBSET S
        PROVE  /\ s = {} => g[s] = 0
               /\ s # {} => g[s] = f[Pick(s)] + g[s \ {Pick(s)}] /\ Pick(s) \in s
    BY DEF Sums, Pick
  <1>1. ASSUME NEW s \in SUBSET S, \A t \in SUBSET s : t # s => t \in Good
        PROVE  s \in Good
    <2>1. CASE s = {}
      <3>1. g[s] = 0
        BY <1>0, <2>1
      <3>2. QED
        BY <2>1, <3>1
    <2>2. CASE s # {}
      <3> DEFINE y == Pick(s)
      <3>1. y \in s /\ g[s] = f[y] + g[s \ {y}] /\ s \ {y} \in Good
        BY <1>0, <1>1, <2>2
      <3>2. f[y] \in Nat /\ g[s] \in Nat
        BY <3>1
      <3>3. ASSUME NEW x \in s
            PROVE  g[s] = f[x] + g[s \ {x}]
        <4>1. CASE x = y
          BY <3>1, <4>1
        <4>2. CASE x # y
          <5>1. s \ {x} \in Good /\ s \ {y} \in Good /\ x \in s \ {y} /\ y \in s \ {x}
            BY <1>1, <3>1, <4>2
          <5>2. (s \ {x}) \ {y} = (s \ {y}) \ {x}
            OBVIOUS
          <5> DEFINE t == (s \ {x}) \ {y}
          <5>3. g[s \ {x}] = f[y] + g[t] /\ g[s \ {y}] = f[x] + g[t]
            BY <5>1, <5>2
          <5>4. t \in Good
            BY <1>1, <5>1
          <5>5. f[x] \in Nat /\ f[y] \in Nat /\ g[t] \in Nat
            BY <3>1, <5>4
          <5> HIDE DEF t
          <5>6. QED
            BY <3>1, <5>3, <5>5
        <4>3. QED
          BY <4>1, <4>2
      <3>4. QED
        BY <3>2, <3>3
    <2>3. QED
      BY <2>1, <2>2
  <1>2. SUBSET S \subseteq Good
    <2> HIDE DEF Good
    <2>1. QED
      BY <1>1, SubsetInd
  <1>3. QED
    BY <1>2

LEMMA SumsIsTotal ==
  ASSUME NEW f, NEW S, IsFiniteSet(S), NEW g, Sums(g, f, S), NEW T \in SUBSET S
  PROVE  g[T] = Total(f, T)
  <1>1. IsFiniteSet(T)
    BY FS_Subset
  <1>2. PICK h : Total(f, T) = h[T] /\ Sums(h, f, T)
    BY <1>1, TotalIsSum, SumsExist
  <1> DEFINE Good == {s \in SUBSET T : g[s] = h[s]}
  <1>3. ASSUME NEW s \in SUBSET T, \A t \in SUBSET s : t # s => t \in Good
        PROVE  s \in Good
    <2>1. /\ s = {} => g[s] = 0 /\ h[s] = 0
          /\ s # {} => /\ Pick(s) \in s
                       /\ g[s] = f[Pick(s)] + g[s \ {Pick(s)}]
                       /\ h[s] = f[Pick(s)] + h[s \ {Pick(s)}]
      BY <1>2 DEF Sums, Pick
    <2>2. s # {} => s \ {Pick(s)} \in Good
      BY <1>3, <2>1
    <2>3. QED
      BY <2>1, <2>2
  <1>4. SUBSET T \subseteq Good
    <2> HIDE DEF Good
    <2>1. QED
      BY <1>1, <1>3, SubsetInd
  <1>5. QED
    BY <1>2, <1>4

(* What a total is: 0 of nothing, and the sum of an element's value and of *)
(* the total of the rest.                                                  *)
LEMMA TotalAdds ==
  ASSUME NEW f, NEW S, IsFiniteSet(S), \A r \in S : f[r] \in Nat
  PROVE  /\ Total(f, S) \in Nat
         /\ Total(f, {}) = 0
         /\ \A T \in SUBSET S : /\ Total(f, T) \in Nat
                                /\ \A x \in T : Total(f, T) = f[x] + Total(f, T \ {x})
  <1>1. PICK g : Sums(g, f, S)
    BY SumsExist
  <1>2. \A T \in SUBSET S : g[T] = Total(f, T)
    BY <1>1, SumsIsTotal
  <1>3. g[{}] = 0
    BY <1>1 DEF Sums
  <1>4. \A T \in SUBSET S : g[T] \in Nat /\ \A x \in T : g[T] = f[x] + g[T \ {x}]
    BY <1>1, SumsAdd
  <1>5. \A T \in SUBSET S : \A x \in T : T \ {x} \in SUBSET S
    OBVIOUS
  <1>6. S \in SUBSET S /\ {} \in SUBSET S
    OBVIOUS
  <1>7. QED
    BY <1>2, <1>3, <1>4, <1>5, <1>6

(* Where one value is larger by at most e and every other by at most m,    *)
(* the total is larger by at most e and m for each of the others.          *)
LEMMA TotalGrows ==
  ASSUME NEW f, NEW h, NEW S, IsFiniteSet(S), NEW m \in Nat,
         \A r \in S : f[r] \in Nat /\ h[r] \in Nat /\ h[r] <= f[r] + m
  PROVE  Total(h, S) <= Total(f, S) + Cardinality(S) * m
  <1> DEFINE Good == {T \in SUBSET S : Total(h, T) <= Total(f, T) + Cardinality(T) * m}
  <1>4. \A T \in SUBSET S : /\ Total(f, T) \in Nat
                            /\ \A x \in T : Total(f, T) = f[x] + Total(f, T \ {x})
    BY TotalAdds
  <1>5. \A T \in SUBSET S : /\ Total(h, T) \in Nat
                            /\ \A x \in T : Total(h, T) = h[x] + Total(h, T \ {x})
    BY TotalAdds
  <1>1. \A n \in Nat : (n + 1) * m = n * m + m /\ n * m \in Nat
    OBVIOUS
  <1>2. ASSUME NEW T \in SUBSET S, \A U \in SUBSET T : U # T => U \in Good
        PROVE  T \in Good
    <2>1. CASE T = {}
      <3>1. Total(h, T) = 0 /\ Total(f, T) = 0 /\ Cardinality(T) = 0
        BY <2>1, TotalAdds, FS_EmptySet
      <3>2. 0 * m = 0
        OBVIOUS
      <3>3. QED
        BY <3>1, <3>2
    <2>2. CASE T # {}
      <3>1. PICK x \in T : TRUE
        BY <2>2
      <3> DEFINE U == T \ {x}
                 n == Cardinality(U)
      <3>2. Total(h, T) = h[x] + Total(h, U) /\ Total(f, T) = f[x] + Total(f, U)
        BY <1>4, <1>5
      <3>9. U \in SUBSET S /\ U \in Good
        BY <1>2, <3>1
      <3>3. Total(h, U) \in Nat /\ Total(f, U) \in Nat
        BY <1>4, <1>5, <3>9
      <3>4. Cardinality(T) = n + 1 /\ n \in Nat
        BY <3>1, FS_Subset, FS_RemoveElement, FS_CardinalityType
      <3>5. Total(h, U) <= Total(f, U) + n * m
        BY <3>9
      <3>6. f[x] \in Nat /\ h[x] \in Nat /\ h[x] <= f[x] + m
        BY <3>1
      <3>7. Cardinality(T) * m = n * m + m /\ n * m \in Nat
        BY <1>1, <3>4
      <3> HIDE DEF U, n
      <3>8. QED
        BY <3>2, <3>3, <3>5, <3>6, <3>7
    <2>3. QED
      BY <2>1, <2>2
  <1>3. SUBSET S \subseteq Good
    <2> HIDE DEF Good
    <2>1. QED
      BY <1>2, SubsetInd
  <1>6. QED
    BY <1>3

LEMMA TotalMonotone ==
  ASSUME NEW f, NEW h, NEW S, IsFiniteSet(S),
         \A r \in S : f[r] \in Nat /\ h[r] \in Nat /\ h[r] <= f[r]
  PROVE  Total(h, S) <= Total(f, S)
  <1>1. Total(h, S) <= Total(f, S) + Cardinality(S) * 0
    BY TotalGrows
  <1>2. Cardinality(S) * 0 = 0 /\ Total(f, S) \in Nat
    <2>1. \A n \in Nat : n * 0 = 0
      OBVIOUS
    <2>2. QED
      BY <2>1, FS_CardinalityType, TotalAdds
  <1>3. QED
    BY <1>1, <1>2

LEMMA TotalOfPart ==
  ASSUME NEW f, NEW S, IsFiniteSet(S), NEW T \in SUBSET S, \A r \in S : f[r] \in Nat
  PROVE  Total(f, T) <= Total(f, S)
  <1> DEFINE Good == {U \in SUBSET S : Total(f, U \intersect T) <= Total(f, U)}
  <1>1. \A U \in SUBSET S : /\ Total(f, U) \in Nat
                            /\ \A x \in U : Total(f, U) = f[x] + Total(f, U \ {x})
    BY TotalAdds
  <1>2. ASSUME NEW U \in SUBSET S, \A V \in SUBSET U : V # U => V \in Good
        PROVE  U \in Good
    <2>1. CASE U = {}
      <3>1. U \intersect T = U /\ Total(f, U) \in Nat
        BY <1>1, <2>1
      <3>2. QED
        BY <3>1
    <2>2. CASE U # {}
      <3>1. PICK x \in U : TRUE
        BY <2>2
      <3> DEFINE V == U \ {x}
      <3>2. Total(f, V \intersect T) <= Total(f, V)
        BY <1>2, <3>1
      <3>3. /\ Total(f, U) = f[x] + Total(f, V) /\ f[x] \in Nat
            /\ Total(f, V) \in Nat /\ Total(f, V \intersect T) \in Nat
        BY <1>1, <3>1
      <3>4. CASE x \notin T
        <4>1. V \intersect T = U \intersect T
          BY <3>4
        <4> HIDE DEF V
        <4>2. Total(f, U \intersect T) = Total(f, V \intersect T)
          BY <4>1
        <4>3. Total(f, U \intersect T) <= Total(f, U)
          BY <3>2, <3>3, <4>2
        <4>4. QED
          BY <4>3
      <3>5. CASE x \in T
        <4>1. (U \intersect T) \ {x} = V \intersect T /\ x \in U \intersect T
          BY <3>1, <3>5
        <4>2. Total(f, U \intersect T) = f[x] + Total(f, (U \intersect T) \ {x})
          BY <1>1, <4>1
        <4> HIDE DEF V
        <4>3. Total(f, U \intersect T) = f[x] + Total(f, V \intersect T)
          BY <4>1, <4>2
        <4>4. Total(f, U \intersect T) <= Total(f, U)
          BY <3>2, <3>3, <4>3
        <4>5. QED
          BY <4>4
      <3>6. QED
        BY <3>4, <3>5
    <2>3. QED
      BY <2>1, <2>2
  <1>3. SUBSET S \subseteq Good
    <2> HIDE DEF Good
    <2>1. QED
      BY <1>2, SubsetInd
  <1>4. S \intersect T = T /\ S \in Good
    BY <1>3
  <1>5. QED
    BY <1>4

----------------------------------------------------------------------------
(* Spending, when every session and every review has a row of its own and  *)
(* nothing fails.                                                          *)

Guarded == TutorTurns \union WeeklyRuns

(* No session has two requests at once, and none has the id of a review or *)
(* of a morning job.                                                       *)
OneProcessPerRow == \A p \in Guarded : \A q \in Procs : RunOf[p] = RunOf[q] => p = q

(* A guard has counted what was spent under its run id, and the row shows  *)
(* all of it but the last answer.  No check is for less than one token.    *)
RowsFit ==
  \A p \in Guarded :
    /\ pc[p] # "idle" => own[p] = spent[RunOf[p]] /\ est[p] >= 1
    /\ pc[p] # "save" => usage[RunOf[p]] = spent[RunOf[p]]
    /\ spent[RunOf[p]] <= usage[RunOf[p]] + MaxUse

(* What is spent, and a whole call for every process that has passed a     *)
(* check of the cap.  The last check that let one pass saw a recorded      *)
(* total below the cap, and no process is more than a call ahead of its    *)
(* row.                                                                    *)
Of(r) == CHOOSE p \in Guarded : RunOf[p] = r
Due(places) ==
  [r \in GuardedIds |-> spent[r] + (IF pc[Of(r)] \in places THEN MaxUse ELSE 0)]

PastTutorCap == {"totalCap", "memory", "calling"}
PastTotalCap == {"memory", "calling"}

WithinCap(cap, places, P) ==
  Total(Due(places), {RunOf[p] : p \in P}) <= cap - 1 + Cardinality(P) * MaxUse

NothingFailed ==
  /\ late = {} /\ RowsFit
  /\ WithinCap(TutorCap, PastTutorCap, TutorTurns)
  /\ WithinCap(TotalCap, PastTotalCap, Guarded)

SInv == IInv /\ (faults = 0 => NothingFailed)

(* The other processes and their rows. *)
Others(p) ==
  /\ \A q \in Procs \ {p} : pc'[q] = pc[q] /\ own'[q] = own[q] /\ est'[q] = est[q]
  /\ \A r \in RunIds \ {RunOf[p]} : usage'[r] = usage[r] /\ spent'[r] = spent[r]

(* What a step of a process is for the budget: the end of a turn or of a   *)
(* call, a passed check, an answer.                                        *)
Returns(p) ==
  /\ spent' = spent
  /\ pc'[p] \in {"idle", FirstCheck(p)}
  /\ p \in Guarded =>
       /\ usage'[RunOf[p]] = spent'[RunOf[p]]
       /\ pc'[p] # "idle" => own'[p] = spent'[RunOf[p]] /\ est'[p] >= 1

Passes(p, from, to) ==
  /\ pc[p] = from /\ pc'[p] = to
  /\ UNCHANGED <<usage, spent, own, est>>

Answers(p) ==
  /\ pc[p] = "calling" /\ pc'[p] = "save" /\ UNCHANGED <<usage, est>>
  /\ \E n \in 0..MaxUse :
       /\ spent' = [spent EXCEPT ![RunOf[p]] = @ + n]
       /\ own' = [own EXCEPT ![p] = @ + n]

Moves(p) ==
  \/ Returns(p)
  \/ Passes(p, "tutorCap", "totalCap") /\ Total(usage, TutorIds) + est[p] <= TutorCap
  \/ Passes(p, "totalCap", "memory") /\ Total(usage, RunIds) + est[p] <= TotalCap
  \/ Passes(p, "memory", "calling")
  \/ Answers(p)

LEMMA FirstChecks ==
  /\ \A p \in TutorTurns : FirstCheck(p) = "tutorCap"
  /\ \A p \in WeeklyRuns : FirstCheck(p) = "totalCap"
  BY ProcsAssumption DEF FirstCheck

LEMMA TotalsAreNats ==
  ASSUME IsFiniteSet(RunIds), IInv
  PROVE  /\ Total(usage, RunIds) \in Nat /\ Total(usage, TutorIds) \in Nat
         /\ Total(usage, GuardedIds) \in Nat /\ Total(usage, GuardedIds) <= Total(usage, RunIds)
  <1>1. TutorIds \in SUBSET RunIds /\ GuardedIds \in SUBSET RunIds
    BY ProcsAssumption DEF TutorIds, GuardedIds, Procs
  <1>2. \A r \in RunIds : usage[r] \in Nat
    BY DEF IInv, CountersTypeOK
  <1>3. QED
    BY <1>1, <1>2, TotalAdds, TotalOfPart

LEMMA StepMoves ==
  ASSUME IsFiniteSet(RunIds), IInv, IInv', RowsFit, NEW p \in Procs, Begin(p) \/ Step(p)
  PROVE  Others(p) /\ Moves(p) /\ late' = late /\ faults' = faults
  <1>1. /\ RunOf[p] \in RunIds
        /\ p \in Guarded => /\ pc[p] # "idle" => own[p] = spent[RunOf[p]] /\ est[p] >= 1
                            /\ pc[p] # "save" => usage[RunOf[p]] = spent[RunOf[p]]
        /\ pc[p] # "save" \/ p \in Guarded \/ p \in MorningRuns
    BY ProcsAssumption DEF RowsFit, Guarded, Procs
  <1> USE DEF IInv, CountersTypeOK
  <1>2. ASSUME NEW how, EndTurn(p, how), UNCHANGED spent,
               p \in Guarded => usage'[RunOf[p]] = spent[RunOf[p]]
        PROVE  Returns(p) /\ \A q \in Procs \ {p} :
                                pc'[q] = pc[q] /\ own'[q] = own[q] /\ est'[q] = est[q]
    BY <1>2 DEF EndTurn, Returns
  <1>3. ASSUME pc' = [pc EXCEPT ![p] = FirstCheck(p)], UNCHANGED <<own, spent>>, pc[p] # "idle",
               \/ est' = est
               \/ \E e \in 1..MaxEstimate : est' = [est EXCEPT ![p] = e],
               p \in Guarded => usage'[RunOf[p]] = spent[RunOf[p]]
        PROVE  Returns(p) /\ \A q \in Procs \ {p} :
                                pc'[q] = pc[q] /\ own'[q] = own[q] /\ est'[q] = est[q]
    BY <1>1, <1>3 DEF Returns
  <1>4. CASE Begin(p)
    <2>1. /\ own' = [own EXCEPT ![p] = usage[RunOf[p]]]
          /\ UNCHANGED <<usage, spent, late, faults>>
          /\ pc[p] = "idle"
      BY <1>4 DEF Begin
    <2>2. PICK e \in 1..MaxEstimate : est' = [est EXCEPT ![p] = e]
      <3>1. 1 \in 1..MaxEstimate
        BY CapsAssumption
      <3>2. QED
        BY <1>4, <3>1 DEF Begin
    <2>3. pc' = [pc EXCEPT ![p] = FirstCheck(p)]
      BY <1>4, FirstChecks DEF Begin
    <2>4. QED
      BY <1>1, <2>1, <2>2, <2>3 DEF Returns, Moves, Others
  <1>5. CASE CheckTutorCap(p)
    <2>1. UNCHANGED <<usage, spent, late, faults>> /\ pc[p] = "tutorCap"
      BY <1>5 DEF CheckTutorCap
    <2>2. CASE EndTurn(p, "exhausted")
      BY <1>1, <1>2, <2>1, <2>2 DEF Others, Moves
    <2>3. CASE /\ ~(Total(usage, TutorIds) + est[p] > TutorCap)
               /\ pc' = [pc EXCEPT ![p] = "totalCap"] /\ UNCHANGED <<turnVars, outcome>>
      <3>1. Passes(p, "tutorCap", "totalCap") /\ Others(p)
        BY <2>1, <2>3 DEF Passes, Others, turnVars
      <3>2. QED
        BY <2>1, <2>3, <3>1, TotalsAreNats, CapsAssumption DEF Moves
    <2>4. QED
      BY <1>5, <2>2, <2>3 DEF CheckTutorCap
  <1>6. CASE CheckTotalCap(p)
    <2>1. UNCHANGED <<usage, spent, late, faults>> /\ pc[p] = "totalCap"
      BY <1>6 DEF CheckTotalCap
    <2>2. CASE EndTurn(p, "exhausted")
      BY <1>1, <1>2, <2>1, <2>2 DEF Others, Moves
    <2>3. CASE NextRound(p) /\ UNCHANGED <<own, mem, outcome>>
      BY <1>1, <1>3, <2>1, <2>3 DEF Others, Moves, NextRound
    <2>4. CASE /\ ~(Total(usage, RunIds) + est[p] > TotalCap)
               /\ pc' = [pc EXCEPT ![p] = "memory"] /\ UNCHANGED <<turnVars, outcome>>
      <3>1. Passes(p, "totalCap", "memory") /\ Others(p)
        BY <2>1, <2>4 DEF Passes, Others, turnVars
      <3>2. QED
        BY <2>1, <2>4, <3>1, TotalsAreNats, CapsAssumption DEF Moves
    <2>5. QED
      BY <1>6, <2>2, <2>3, <2>4 DEF CheckTotalCap
  <1>7. CASE CheckMemory(p)
    <2>1. UNCHANGED <<usage, spent, late, faults>> /\ pc[p] = "memory"
      BY <1>7 DEF CheckMemory
    <2>2. CASE EndTurn(p, "budgetError")
      BY <1>1, <1>2, <2>1, <2>2 DEF Others, Moves
    <2>3. CASE pc' = [pc EXCEPT ![p] = "calling"] /\ UNCHANGED <<turnVars, outcome>>
      BY <2>1, <2>3 DEF Passes, Others, Moves, turnVars
    <2>4. QED
      BY <1>7, <2>2, <2>3 DEF CheckMemory
  <1>8. CASE Respond(p)
    <2>1. PICK n \in 0..MaxUse : /\ spent' = [spent EXCEPT ![RunOf[p]] = @ + n]
                                 /\ own' = [own EXCEPT ![p] = @ + n]
      BY <1>8 DEF Respond
    <2>2. pc' = [pc EXCEPT ![p] = "save"] /\ pc[p] = "calling"
          /\ UNCHANGED <<usage, est, late, faults>>
      BY <1>8 DEF Respond
    <2>3. Others(p)
      BY <1>1, <2>1, <2>2 DEF Others
    <2>4. Answers(p)
      BY <2>1, <2>2 DEF Answers
    <2>5. QED
      BY <2>2, <2>3, <2>4 DEF Moves
  <1>9. CASE CallFails(p)
    <2>1. UNCHANGED <<usage, spent, late, faults>> /\ pc[p] = "calling"
      BY <1>9 DEF CallFails
    <2>2. CASE EndTurn(p, "error")
      BY <1>1, <1>2, <2>1, <2>2 DEF Others, Moves
    <2>3. CASE pc' = [pc EXCEPT ![p] = FirstCheck(p)] /\ UNCHANGED <<own, est>>
      BY <1>1, <1>3, <2>1, <2>3 DEF Others, Moves
    <2>4. QED
      BY <1>9, <2>2, <2>3 DEF CallFails
  <1>10. CASE Save(p) \/ MorningProceed(p)
    <2>1. UNCHANGED <<spent, late, faults>> /\ pc[p] = "save" /\ Proceed(p)
      BY <1>10 DEF Save, MorningProceed
    <2>2. /\ p \in Guarded => usage'[RunOf[p]] = spent[RunOf[p]]
          /\ \A r \in RunIds \ {RunOf[p]} : usage'[r] = usage[r]
      BY <1>1, <1>10, <2>1, ProcsAssumption DEF Save, MorningProceed, Guarded
    <2>3. CASE EndTurn(p, "ok") \/ EndTurn(p, "error")
      BY <1>2, <2>1, <2>2, <2>3 DEF Others, Moves
    <2>4. CASE NextRound(p) /\ UNCHANGED <<own, mem, outcome>>
      BY <1>3, <2>1, <2>2, <2>4 DEF Others, Moves, NextRound
    <2>5. CASE pc' = [pc EXCEPT ![p] = FirstCheck(p)] /\ UNCHANGED <<own, est>>
      BY <1>3, <2>1, <2>2, <2>5 DEF Others, Moves
    <2>6. QED
      BY <2>1, <2>3, <2>4, <2>5 DEF Proceed
  <1>11. QED
    BY <1>4, <1>5, <1>6, <1>7, <1>8, <1>9, <1>10 DEF Step

LEMMA RowsStayFit ==
  ASSUME IInv, IInv', RowsFit, OneProcessPerRow, NEW p \in Procs, Others(p), Moves(p)
  PROVE  RowsFit'
  <1> USE DEF IInv, CountersTypeOK
  <1>1. SUFFICES ASSUME NEW q \in Guarded
                 PROVE  /\ pc'[q] # "idle" => own'[q] = spent'[RunOf[q]] /\ est'[q] >= 1
                        /\ pc'[q] # "save" => usage'[RunOf[q]] = spent'[RunOf[q]]
                        /\ spent'[RunOf[q]] <= usage'[RunOf[q]] + MaxUse
    BY DEF RowsFit
  <1>2. q \in Procs /\ RunOf[q] \in RunIds
    BY ProcsAssumption DEF Guarded, Procs
  <1>3. /\ pc[q] # "idle" => own[q] = spent[RunOf[q]] /\ est[q] >= 1
        /\ pc[q] # "save" => usage[RunOf[q]] = spent[RunOf[q]]
        /\ spent[RunOf[q]] <= usage[RunOf[q]] + MaxUse
    BY DEF RowsFit
  <1>4. CASE q # p
    <2>1. RunOf[q] # RunOf[p]
      BY <1>4 DEF OneProcessPerRow
    <2>2. QED
      BY <1>2, <1>3, <1>4, <2>1 DEF Others
  <1>5. CASE q = p
    <2>1. CASE Returns(p)
      <3>1. spent'[RunOf[q]] \in Nat /\ MaxUse \in Nat
        BY <1>2, CapsAssumption
      <3>2. QED
        BY <1>5, <2>1, <3>1 DEF Returns
    <2>2. CASE \/ Passes(p, "tutorCap", "totalCap") \/ Passes(p, "totalCap", "memory")
               \/ Passes(p, "memory", "calling")
      BY <1>3, <1>5, <2>2 DEF Passes
    <2>3. CASE Answers(p)
      <3>1. PICK n \in 0..MaxUse : /\ spent' = [spent EXCEPT ![RunOf[p]] = @ + n]
                                   /\ own' = [own EXCEPT ![p] = @ + n]
        BY <2>3 DEF Answers
      <3>2. spent'[RunOf[p]] = spent[RunOf[p]] + n /\ own'[p] = own[p] + n
        BY <1>2, <1>5, <3>1
      <3>3. pc[p] = "calling" /\ pc'[p] = "save" /\ usage' = usage /\ est' = est
        BY <2>3 DEF Answers
      <3>4. MaxUse \in Nat /\ usage[RunOf[p]] \in Nat /\ n <= MaxUse /\ n \in Nat
        BY <1>2, <1>5, CapsAssumption
      <3>5. QED
        BY <1>3, <1>5, <3>2, <3>3, <3>4
    <2>4. QED
      BY <2>1, <2>2, <2>3 DEF Moves
  <1>6. QED
    BY <1>4, <1>5

(* The process of a row. *)
LEMMA RowsAreProcesses ==
  ASSUME OneProcessPerRow, IsFiniteSet(RunIds), NEW P \in SUBSET Guarded
  PROVE  /\ \A p \in Guarded : Of(RunOf[p]) = p
         /\ IsFiniteSet({RunOf[p] : p \in P})
         /\ Cardinality({RunOf[p] : p \in P}) = Cardinality(P)
  <1> DEFINE ids == {RunOf[p] : p \in P}
  <1>1. \A p \in Guarded : p \in Procs /\ RunOf[p] \in RunIds
    BY ProcsAssumption DEF Guarded, Procs
  <1>2. \A p \in Guarded : Of(RunOf[p]) = p
    BY <1>1 DEF Of, OneProcessPerRow
  <1>3. IsFiniteSet(ids)
    BY <1>1, FS_Subset
  <1>4. [r \in ids |-> Of(r)] \in Bijection(ids, P)
    BY <1>2 DEF Bijection, Injection, Surjection, IsInjective
  <1>5. QED
    BY <1>2, <1>3, <1>4, FS_Bijection DEF ExistsBijection

(* A cap that has room for what has passed its check keeps it. *)
LEMMA CapKept ==
  ASSUME IInv, IInv', RowsFit, OneProcessPerRow, IsFiniteSet(RunIds),
         NEW P \in SUBSET Guarded, NEW cap \in Nat, NEW places,
         "calling" \in places, {"save", "idle"} \intersect places = {},
         \A q \in P : FirstCheck(q) \notin places,
         WithinCap(cap, places, P),
         NEW p \in Procs, Others(p), Moves(p),
         p \in P => \/ pc[p] \in places \/ pc'[p] \notin places
                    \/ Total(usage, {RunOf[q] : q \in P}) + est[p] <= cap
  PROVE  WithinCap(cap, places, P)'
  <1> DEFINE ids == {RunOf[q] : q \in P}
             n == Cardinality(P) * MaxUse
  <1>1. IsFiniteSet(ids) /\ Cardinality(ids) = Cardinality(P) /\ ids \subseteq GuardedIds
    BY RowsAreProcesses DEF GuardedIds, Guarded
  <1>2. ASSUME NEW q \in Guarded
        PROVE  /\ q \in Procs /\ RunOf[q] \in RunIds /\ RunOf[q] \in GuardedIds
               /\ spent[RunOf[q]] \in Nat /\ usage[RunOf[q]] \in Nat /\ est[q] \in Nat
               /\ spent'[RunOf[q]] \in Nat /\ MaxUse \in Nat
               /\ Due(places)[RunOf[q]]
                    = spent[RunOf[q]] + (IF pc[q] \in places THEN MaxUse ELSE 0)
               /\ Due(places)'[RunOf[q]]
                    = spent'[RunOf[q]] + (IF pc'[q] \in places THEN MaxUse ELSE 0)
    <2>1. q \in Procs /\ RunOf[q] \in RunIds /\ RunOf[q] \in GuardedIds /\ Of(RunOf[q]) = q
      BY ProcsAssumption, RowsAreProcesses DEF Guarded, GuardedIds, Procs
    <2>2. QED
      BY <2>1, CapsAssumption DEF Due, IInv, CountersTypeOK
  <1>3. \A r \in ids : Due(places)[r] \in Nat /\ Due(places)'[r] \in Nat /\ usage[r] \in Nat
    BY <1>2
  <1>4. ASSUME NEW q \in P, q # p
        PROVE  /\ Due(places)'[RunOf[q]] = Due(places)[RunOf[q]]
               /\ Due(places)[RunOf[q]] <= usage[RunOf[q]] + MaxUse
    <2>1. RunOf[q] # RunOf[p]
      BY <1>4 DEF OneProcessPerRow
    <2>2. spent'[RunOf[q]] = spent[RunOf[q]] /\ pc'[q] = pc[q]
      BY <1>2, <1>4, <2>1 DEF Others
    <2>3. /\ pc[q] # "save" => usage[RunOf[q]] = spent[RunOf[q]]
          /\ spent[RunOf[q]] <= usage[RunOf[q]] + MaxUse
      BY <1>2 DEF RowsFit
    <2>4. QED
      BY <1>2, <2>2, <2>3
  <1>5. ASSUME p \in P
        PROVE  \/ Due(places)'[RunOf[p]] <= Due(places)[RunOf[p]]
               \/ /\ pc[p] \notin places /\ pc'[p] \in places /\ est[p] >= 1
                  /\ Due(places)'[RunOf[p]] <= usage[RunOf[p]] + MaxUse
    <2>1. CASE Returns(p)
      BY <1>2, <1>5, <2>1 DEF Returns
    <2>2. CASE \/ Passes(p, "tutorCap", "totalCap") \/ Passes(p, "totalCap", "memory")
               \/ Passes(p, "memory", "calling")
      <3>1. spent' = spent /\ est[p] >= 1 /\ usage[RunOf[p]] = spent[RunOf[p]]
        BY <1>2, <1>5, <2>2 DEF Passes, RowsFit
      <3>2. QED
        BY <1>2, <1>5, <3>1
    <2>3. CASE Answers(p)
      <3>1. pc[p] \in places /\ pc'[p] \notin places
        BY <2>3 DEF Answers
      <3>2. PICK k \in 0..MaxUse : spent' = [spent EXCEPT ![RunOf[p]] = @ + k]
        BY <2>3 DEF Answers
      <3>3. spent'[RunOf[p]] = spent[RunOf[p]] + k
        BY <1>2, <1>5, <3>2 DEF IInv, CountersTypeOK
      <3>4. QED
        BY <1>2, <1>5, <3>1, <3>3
    <2>4. QED
      BY <2>1, <2>2, <2>3 DEF Moves
  <1>6. /\ Total(Due(places), ids) \in Nat /\ Total(Due(places)', ids) \in Nat
        /\ Total(usage, ids) \in Nat
    BY <1>1, <1>3, TotalAdds
  <1>7. CASE p \in P /\ pc[p] \notin places /\ pc'[p] \in places /\ est[p] >= 1
                     /\ Due(places)'[RunOf[p]] <= usage[RunOf[p]] + MaxUse
    <2>1. Total(usage, ids) + est[p] <= cap
      BY <1>7
    <2>2. est[p] \in Nat /\ MaxUse \in Nat
      BY <1>2, <1>7, CapsAssumption
    <2>3. \A r \in ids : Due(places)'[r] <= usage[r] + MaxUse
      BY <1>4, <1>7
    <2>4. Total(Due(places)', ids) <= Total(usage, ids) + n
      BY <1>1, <1>3, <2>2, <2>3, TotalGrows
    <2>5. n \in Int
      <3>1. Cardinality(P) \in Int
        BY <1>1, FS_CardinalityType
      <3>2. \A i \in Int : i * MaxUse \in Int
        BY <2>2
      <3>3. QED
        BY <3>1, <3>2
    <2> HIDE DEF n
    <2>6. Total(Due(places)', ids) <= cap - 1 + n
      BY <1>6, <1>7, <2>1, <2>2, <2>4, <2>5
    <2>7. QED
      BY <2>6 DEF WithinCap, n
  <1>8. CASE p \in P => Due(places)'[RunOf[p]] <= Due(places)[RunOf[p]]
    <2>1. \A r \in ids : Due(places)'[r] <= Due(places)[r]
      <3>1. \A r \in ids : Due(places)[r] <= Due(places)[r]
        BY <1>3
      <3>2. QED
        BY <1>4, <1>8, <3>1
    <2>2. Total(Due(places)', ids) <= Total(Due(places), ids)
      BY <1>1, <1>3, <2>1, TotalMonotone
    <2>3. QED
      <3>1. Total(Due(places), ids) <= cap - 1 + n
        BY DEF WithinCap
      <3>2. n \in Int
        <4>1. Cardinality(P) \in Int /\ MaxUse \in Int
          BY <1>1, FS_CardinalityType, CapsAssumption
        <4>2. \A i, j \in Int : i * j \in Int
          OBVIOUS
        <4>3. QED
          BY <4>1, <4>2
      <3> HIDE DEF n
      <3>3. Total(Due(places)', ids) <= cap - 1 + n
        BY <1>6, <2>2, <3>1, <3>2
      <3>4. QED
        BY <3>3 DEF WithinCap, n
  <1>9. QED
    BY <1>5, <1>7, <1>8

LEMMA TotalOfNothing ==
  ASSUME NEW f, NEW S, IsFiniteSet(S), \A r \in S : f[r] \in Nat /\ f[r] <= 0
  PROVE  Total(f, S) = 0
  <1>1. \A r \in S : f[r] \in Nat
    OBVIOUS
  <1>2. \A T \in SUBSET S : /\ Total(f, T) \in Nat
                            /\ \A x \in T : Total(f, T) = f[x] + Total(f, T \ {x})
    BY <1>1, TotalAdds
  <1> DEFINE Good == {T \in SUBSET S : Total(f, T) = 0}
  <1>3. ASSUME NEW T \in SUBSET S, \A U \in SUBSET T : U # T => U \in Good
        PROVE  T \in Good
    <2>1. CASE T = {}
      BY <1>1, <2>1, TotalAdds
    <2>2. CASE T # {}
      <3>1. PICK x \in T : TRUE
        BY <2>2
      <3>2. Total(f, T) = f[x] + Total(f, T \ {x})
        BY <1>2, <3>1
      <3>3. Total(f, T \ {x}) = 0
        BY <1>3, <3>1
      <3>4. f[x] = 0
        BY <3>1
      <3>5. Total(f, T) = 0
        BY <3>2, <3>3, <3>4
      <3>6. QED
        BY <3>5
    <2>3. QED
      BY <2>1, <2>2
  <1>4. SUBSET S \subseteq Good
    <2> HIDE DEF Good
    <2>1. QED
      BY <1>3, SubsetInd
  <1>5. QED
    BY <1>4

(* The situation of run BudgetSessions, for any number of sessions. *)
OwnRows == OneProcessPerRow /\ IsFiniteSet(RunIds) /\ TutorTurns # {}

LEMMA CapsHaveRoom ==
  ASSUME OwnRows, NEW P \in SUBSET Guarded, P # {}
  PROVE  Cardinality(P) * MaxUse - 1 \in Nat /\ Cardinality(P) * MaxUse \in Nat
  <1>1. IsFiniteSet(P)
    <2>1. [p \in P |-> RunOf[p]] \in Injection(P, RunIds)
      BY ProcsAssumption DEF OwnRows, OneProcessPerRow, Guarded, Procs, Injection, IsInjective
    <2>2. QED
      BY <2>1, FS_Injection DEF OwnRows
  <1>2. Cardinality(P) \in Nat \ {0}
    BY <1>1, FS_EmptySet, FS_CardinalityType
  <1>3. \A i, j \in Nat \ {0} : i * j - 1 \in Nat /\ i * j \in Nat
    OBVIOUS
  <1>4. QED
    BY <1>2, <1>3, CapsAssumption

LEMMA InitSpends == ASSUME OwnRows, Init PROVE NothingFailed
  <1>1. RowsFit
    <2>1. \A p \in Guarded : p \in Procs /\ RunOf[p] \in RunIds
      BY ProcsAssumption DEF Guarded, Procs
    <2>2. MaxUse \in Nat
      BY CapsAssumption
    <2>3. QED
      BY <2>1, <2>2 DEF Init, RowsFit
  <1>2. ASSUME NEW P \in SUBSET Guarded, P # {}, NEW cap \in Nat, NEW places, "idle" \notin places
        PROVE  WithinCap(cap, places, P)
    <2> DEFINE ids == {RunOf[q] : q \in P}
    <2>1. /\ ids \subseteq GuardedIds /\ ids \subseteq RunIds /\ IsFiniteSet(ids)
          /\ \A q \in Guarded : Of(RunOf[q]) = q
      <3>1. ids \subseteq GuardedIds /\ ids \subseteq RunIds
        BY ProcsAssumption DEF Guarded, GuardedIds, Procs
      <3>2. QED
        BY <3>1, RowsAreProcesses DEF OwnRows
    <2>2. \A r \in ids : Due(places)[r] = 0
      <3>1. \A r \in ids : Of(r) \in Procs
        BY <2>1 DEF Guarded, Procs
      <3>2. QED
        BY <1>2, <2>1, <3>1 DEF Due, Init
    <2>3. Total(Due(places), ids) = 0
      <3>1. \A r \in ids : Due(places)[r] \in Nat /\ Due(places)[r] <= 0
        BY <2>2
      <3>2. QED
        BY <2>1, <3>1, TotalOfNothing
    <2> DEFINE n == Cardinality(P) * MaxUse
    <2>4. n - 1 \in Nat /\ n \in Nat
      BY <1>2, CapsHaveRoom
    <2> HIDE DEF ids, n
    <2>5. 0 <= cap - 1 + n
      BY <2>4
    <2>6. QED
      BY <2>3, <2>5 DEF WithinCap, ids, n
  <1>3. QED
    BY <1>1, <1>2, CapsAssumption
    DEF NothingFailed, Init, OwnRows, Guarded, PastTutorCap, PastTotalCap

LEMMA SpendingInductive == ASSUME OwnRows PROVE SInv /\ [Next]_vars => SInv'
  <1> SUFFICES ASSUME SInv, [Next]_vars PROVE SInv'
    OBVIOUS
  <1>1. IInv'
    BY Inductive DEF SInv
  <1>2. SUFFICES ASSUME faults' = 0 PROVE NothingFailed'
    BY <1>1 DEF SInv
  <1>3. CASE UNCHANGED vars
    BY <1>2, <1>3 DEF vars, SInv, NothingFailed, RowsFit, WithinCap, Due
  <1>4. ASSUME NEW p \in Procs, Begin(p) \/ Step(p)
        PROVE  NothingFailed'
    <2>1. faults = 0
      BY <1>2, <1>4 DEF Begin, Step, CheckTutorCap, CheckTotalCap, CheckMemory, Respond,
         CallFails, Save, MorningProceed
    <2>2. IInv /\ NothingFailed
      BY <2>1 DEF SInv
    <2>3. Others(p) /\ Moves(p) /\ late' = late
      BY <1>1, <1>4, <2>2, StepMoves DEF NothingFailed, OwnRows
    <2>4. RowsFit'
      BY <1>1, <2>2, <2>3, RowsStayFit DEF NothingFailed, OwnRows
    <2>5. WithinCap(TutorCap, PastTutorCap, TutorTurns)'
      <3>1. \A q \in TutorTurns : FirstCheck(q) \notin PastTutorCap
        BY FirstChecks DEF PastTutorCap
      <3>2. p \in TutorTurns => \/ pc[p] \in PastTutorCap \/ pc'[p] \notin PastTutorCap
                                \/ Total(usage, {RunOf[q] : q \in TutorTurns}) + est[p] <= TutorCap
        BY <2>3, FirstChecks DEF Moves, Returns, Passes, Answers, PastTutorCap, TutorIds
      <3>3. TutorTurns \in SUBSET Guarded /\ TutorCap \in Nat
            /\ "calling" \in PastTutorCap /\ {"save", "idle"} \intersect PastTutorCap = {}
        BY CapsAssumption DEF Guarded, PastTutorCap
      <3>4. QED
        BY <1>1, <2>2, <2>3, <3>1, <3>2, <3>3, CapKept DEF NothingFailed, OwnRows
    <2>6. WithinCap(TotalCap, PastTotalCap, Guarded)'
      <3>1. \A q \in Guarded : FirstCheck(q) \notin PastTotalCap
        BY FirstChecks DEF PastTotalCap, Guarded
      <3>2. p \in Guarded => \/ pc[p] \in PastTotalCap \/ pc'[p] \notin PastTotalCap
                             \/ Total(usage, {RunOf[q] : q \in Guarded}) + est[p] <= TotalCap
        <4>1. est[p] \in Nat
          BY <2>2 DEF IInv, CountersTypeOK
        <4>2. /\ Total(usage, GuardedIds) <= Total(usage, RunIds)
              /\ Total(usage, RunIds) \in Nat /\ Total(usage, GuardedIds) \in Nat
          BY <2>2, TotalsAreNats DEF OwnRows
        <4>3. CASE Passes(p, "totalCap", "memory") /\ Total(usage, RunIds) + est[p] <= TotalCap
          <5>1. Total(usage, GuardedIds) + est[p] <= TotalCap
            BY <4>1, <4>2, <4>3, CapsAssumption
          <5>2. QED
            BY <5>1 DEF GuardedIds, Guarded
        <4>4. QED
          BY <2>3, <3>1, <4>3 DEF Moves, Returns, Passes, Answers, PastTotalCap
      <3>3. Guarded \in SUBSET Guarded /\ TotalCap \in Nat
            /\ "calling" \in PastTotalCap /\ {"save", "idle"} \intersect PastTotalCap = {}
        BY CapsAssumption DEF PastTotalCap
      <3>4. QED
        BY <1>1, <2>2, <2>3, <3>1, <3>2, <3>3, CapKept DEF NothingFailed, OwnRows
    <2>7. QED
      BY <2>2, <2>3, <2>4, <2>5, <2>6 DEF NothingFailed
  <1>5. ASSUME NEW p \in Procs, SaveLost(p) \/ Crash(p)
        PROVE  FALSE
    BY <1>2, <1>5 DEF SaveLost, Crash, SInv, IInv, BoundsTypeOK
  <1>6. ASSUME NEW m \in late, LateSave(m)
        PROVE  FALSE
    BY <1>2, <1>6 DEF LateSave, SInv, NothingFailed
  <1>7. QED
    BY <1>3, <1>4, <1>5, <1>6 DEF Next

LEMMA SpendingAlways == ASSUME OwnRows PROVE Spec => []SInv
  <1>1. Init => IInv
    BY InitHolds
  <1>2. Init => SInv
    BY <1>1, InitSpends DEF SInv
  <1>3. QED
    BY <1>2, SpendingInductive, PTL DEF Spec

----------------------------------------------------------------------------

(* How far N tutors and reviews, each with a session of its own and none   *)
(* failing, can pass the caps together: by less than N whole calls, however *)
(* the reads of their guards, their calls and their saves interleave, and  *)
(* however much more than its estimate a call uses; one turn alone passes  *)
(* them by less than one call.  Two requests of one session overwrite each *)
(* other's row, and the bound is lost.                                     *)
THEOREM SpendingIsBounded == ASSUME OwnRows PROVE Spec => []SpendingBounded
  <1>1. ASSUME SInv PROVE SpendingBounded
    <2>1. SUFFICES ASSUME NothingFailed
                   PROVE  TutorSpendingBounded /\ GuardedSpendingBounded
      BY <1>1 DEF SInv, SpendingBounded
    <2>2. ASSUME NEW P \in SUBSET Guarded, P # {}, NEW cap \in Nat, NEW places,
                 WithinCap(cap, places, P)
          PROVE  Total(spent, {RunOf[q] : q \in P}) <= cap - 1 + Cardinality(P) * MaxUse
      <3> DEFINE ids == {RunOf[q] : q \in P}
                 n == Cardinality(P) * MaxUse
      <3>1. IsFiniteSet(ids) /\ ids \subseteq GuardedIds
        BY RowsAreProcesses DEF OwnRows, GuardedIds, Guarded
      <3>2. \A r \in ids : /\ spent[r] \in Nat /\ Due(places)[r] \in Nat
                           /\ spent[r] <= Due(places)[r]
        <4>1. \A q \in Guarded : q \in Procs /\ RunOf[q] \in RunIds /\ Of(RunOf[q]) = q
          BY ProcsAssumption, RowsAreProcesses DEF OwnRows, Guarded, Procs
        <4>2. \A q \in Guarded : spent[RunOf[q]] \in Nat /\ MaxUse \in Nat
          BY <1>1, <4>1, CapsAssumption DEF SInv, IInv, CountersTypeOK
        <4>3. QED
          BY <3>1, <4>1, <4>2 DEF Due
      <3>3. /\ Total(spent, ids) <= Total(Due(places), ids)
            /\ Total(spent, ids) \in Nat /\ Total(Due(places), ids) \in Nat
        BY <3>1, <3>2, TotalMonotone, TotalAdds
      <3>4. Total(Due(places), ids) <= cap - 1 + n /\ n \in Nat
        BY <2>2, CapsHaveRoom DEF WithinCap
      <3> HIDE DEF n
      <3>5. Total(spent, ids) <= cap - 1 + n
        BY <3>3, <3>4
      <3>6. QED
        BY <3>5 DEF n
    <2>3. TutorSpendingBounded
      BY <2>1, <2>2, CapsAssumption
      DEF NothingFailed, TutorSpendingBounded, TutorIds, Guarded, OwnRows
    <2>4. GuardedSpendingBounded
      <3>1. Guarded # {} /\ Guarded \in SUBSET Guarded
        BY DEF Guarded, OwnRows
      <3>2. Total(spent, {RunOf[q] : q \in Guarded})
              <= TotalCap - 1 + Cardinality(Guarded) * MaxUse
        BY <2>1, <2>2, <3>1, CapsAssumption DEF NothingFailed
      <3>3. QED
        BY <3>2 DEF GuardedSpendingBounded, GuardedIds, Guarded
    <2>5. QED
      BY <2>3, <2>4
  <1>2. QED
    BY <1>1, SpendingAlways, PTL

(* When no turn is under way, the rows of sessions and reviews show what   *)
(* was used: with a row of its own and without a failure a turn loses no   *)
(* answer, however it ended.                                               *)
THEOREM QuietRowsAreComplete == ASSUME OwnRows PROVE Spec => []RecordedWhenQuiet
  <1>1. ASSUME SInv PROVE RecordedWhenQuiet
    <2>1. SUFFICES ASSUME \A p \in Procs : pc[p] = "idle", RowsFit, NEW r \in GuardedIds
                   PROVE  usage[r] = spent[r]
      BY <1>1 DEF SInv, NothingFailed, RecordedWhenQuiet
    <2>2. PICK p \in Guarded : r = RunOf[p]
      BY DEF GuardedIds, Guarded
    <2>3. pc[p] # "save"
      BY <2>1, <2>2 DEF Guarded, Procs
    <2>4. QED
      BY <2>1, <2>2, <2>3 DEF RowsFit
  <1>2. QED
    BY <1>1, SpendingAlways, PTL

=============================================================================
