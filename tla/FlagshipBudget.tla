--------------------------- MODULE FlagshipBudget ---------------------------
(***************************************************************************)
(* The flagship-model budget of one day.  Tutor turns, the weekly review   *)
(* and the morning job spend it; the ledger table llm_usage has one row    *)
(* per run id, and for a tutor the run id is the session id, which the     *)
(* client chooses.                                                         *)
(*                                                                         *)
(* A turn of a tutor or a weekly review asks the ledger before each LLM    *)
(* call how much the day has used (TutorBudgetGuard, WeeklyBudgetGuard),   *)
(* and its own TokenBudget how much the turn has.  After each answer it    *)
(* overwrites its row with the value the guard read when it was made plus  *)
(* what it has used since.  The morning job asks only its TokenBudget and  *)
(* writes its row once, at the end.                                        *)
(*                                                                         *)
(* Tokens are small numbers.  A call may use more than its estimate, which *)
(* counts two characters of the prompt as a token, plus max_output_tokens: *)
(* a Japanese prompt has about one token per character.                    *)
(***************************************************************************)
EXTENDS Integers, FiniteSetsExt

CONSTANTS TutorTurns, WeeklyRuns, MorningRuns,  \* processes that call the LLM
          RunIds, RunOf,          \* run ids, and the run id of each process
          TutorCap, TotalCap,     \* the caps, tutor_cap and total_cap
          MaxEstimate,            \* bound on the estimate of one call
          MaxUse,                 \* bound on the tokens one call really uses
          MaxRounds,              \* max_rounds: LLM calls of a turn
          MaxTurns,               \* bound on the turns of all processes
          MaxFaults               \* bound on failed saves and crashes

Procs == TutorTurns \union WeeklyRuns \union MorningRuns

ASSUME ProcsAssumption ==
  /\ TutorTurns \intersect (WeeklyRuns \union MorningRuns) = {}
  /\ WeeklyRuns \intersect MorningRuns = {}
  /\ RunOf \in [Procs -> RunIds]
ASSUME CapsAssumption ==
  /\ TutorCap \in Nat /\ TotalCap \in Nat
  /\ MaxEstimate \in Nat \ {0} /\ MaxUse \in Nat \ {0}
  /\ MaxRounds \in Nat \ {0} /\ MaxTurns \in Nat /\ MaxFaults \in Nat

VARIABLES usage,    \* llm_usage: the tokens of each row, 0 for no row
          spent,    \* ghost: the tokens each run id has really used
          pc,       \* what each process does next
          own,      \* _run_used of its guard
          mem,      \* what its TokenBudget has counted in this turn
          est,      \* estimate of the call it is about to make
          attempt,  \* 0 or 1, of _call_with_single_retry
          round,    \* LLM calls begun in the turn, 0 at the check on entry
          outcome,  \* how its last turn ended
          late,     \* saves that the server may still execute
          turns, faults

turnVars == <<own, mem, est, attempt, round>>
vars == <<usage, spent, pc, own, mem, est, attempt, round, outcome, late, turns, faults>>

(* run_id starts with "tutor-" or "weekly-" *)
TutorIds == {RunOf[p] : p \in TutorTurns}
GuardedIds == {RunOf[p] : p \in TutorTurns \union WeeklyRuns}

Total(f, S) == MapThenSumSet(LAMBDA r : f[r], S)

TypeOK ==
  /\ usage \in [RunIds -> Nat] /\ spent \in [RunIds -> Nat]
  /\ pc \in [Procs -> {"idle", "tutorCap", "totalCap", "memory", "calling", "save"}]
  /\ own \in [Procs -> Nat] /\ mem \in [Procs -> Nat]
  /\ est \in [Procs -> 0..MaxEstimate]
  /\ attempt \in [Procs -> 0..1] /\ round \in [Procs -> 0..MaxRounds]
  /\ outcome \in [Procs -> {"none", "ok", "exhausted", "budgetError", "error"}]
  /\ late \in SUBSET [run : RunIds, tokens : Nat]
  /\ turns \in 0..MaxTurns /\ faults \in 0..MaxFaults

Init ==
  /\ usage = [r \in RunIds |-> 0] /\ spent = [r \in RunIds |-> 0]
  /\ pc = [p \in Procs |-> "idle"]
  /\ own = [p \in Procs |-> 0] /\ mem = [p \in Procs |-> 0]
  /\ est = [p \in Procs |-> 0]
  /\ attempt = [p \in Procs |-> 0] /\ round = [p \in Procs |-> 0]
  /\ outcome = [p \in Procs |-> "none"]
  /\ late = {} /\ turns = 0 /\ faults = 0

----------------------------------------------------------------------------

(* Which check comes first before a call of p. *)
FirstCheck(p) ==
  CASE p \in TutorTurns -> "tutorCap"
    [] p \in WeeklyRuns -> "totalCap"
    [] p \in MorningRuns -> "memory"

(* The request of the next round is composed: its estimate is known. *)
NextRound(p) ==
  /\ round' = [round EXCEPT ![p] = @ + 1]
  /\ attempt' = [attempt EXCEPT ![p] = 0]
  /\ \E e \in 1..MaxEstimate : est' = [est EXCEPT ![p] = e]
  /\ pc' = [pc EXCEPT ![p] = FirstCheck(p)]

EndTurn(p, how) ==
  /\ pc' = [pc EXCEPT ![p] = "idle"]
  /\ outcome' = [outcome EXCEPT ![p] = how]
  /\ own' = [own EXCEPT ![p] = 0] /\ mem' = [mem EXCEPT ![p] = 0]
  /\ est' = [est EXCEPT ![p] = 0]
  /\ attempt' = [attempt EXCEPT ![p] = 0] /\ round' = [round EXCEPT ![p] = 0]

(* A request or a job starts: a new guard reads its row, a new TokenBudget *)
(* starts at 0.  A tutor turn first checks for a single token.             *)
Begin(p) ==
  /\ pc[p] = "idle"
  /\ turns < MaxTurns
  /\ turns' = turns + 1
  /\ own' = [own EXCEPT ![p] = usage[RunOf[p]]]
  /\ mem' = [mem EXCEPT ![p] = 0]
  /\ IF p \in TutorTurns
     THEN /\ round' = [round EXCEPT ![p] = 0]
          /\ attempt' = [attempt EXCEPT ![p] = 0]
          /\ est' = [est EXCEPT ![p] = 1]
          /\ pc' = [pc EXCEPT ![p] = "tutorCap"]
     ELSE /\ round' = [round EXCEPT ![p] = 1]
          /\ attempt' = [attempt EXCEPT ![p] = 0]
          /\ \E e \in 1..MaxEstimate : est' = [est EXCEPT ![p] = e]
          /\ pc' = [pc EXCEPT ![p] = FirstCheck(p)]
  /\ UNCHANGED <<usage, spent, outcome, late, faults>>

(* Mutant of CheckTutorCap: the estimate is left out. *)
CheckTutorCapUsedOnly(p) ==
  /\ pc[p] = "tutorCap"
  /\ IF Total(usage, TutorIds) > TutorCap
     THEN EndTurn(p, "exhausted")
     ELSE pc' = [pc EXCEPT ![p] = "totalCap"] /\ UNCHANGED <<turnVars, outcome>>
  /\ UNCHANGED <<usage, spent, late, turns, faults>>

(* TutorBudgetGuard.check reads the sum of the tutor rows ... *)
CheckTutorCap(p) ==
  /\ pc[p] = "tutorCap"
  /\ IF Total(usage, TutorIds) + est[p] > TutorCap
     THEN EndTurn(p, "exhausted")
     ELSE pc' = [pc EXCEPT ![p] = "totalCap"] /\ UNCHANGED <<turnVars, outcome>>
  /\ UNCHANGED <<usage, spent, late, turns, faults>>

(* ... and then the sum of all rows.  The check on entry of a tutor turn   *)
(* is followed by the first round.                                         *)
CheckTotalCap(p) ==
  /\ pc[p] = "totalCap"
  /\ IF Total(usage, RunIds) + est[p] > TotalCap
     THEN EndTurn(p, "exhausted")
     ELSE IF round[p] = 0
          THEN NextRound(p) /\ UNCHANGED <<own, mem, outcome>>
          ELSE pc' = [pc EXCEPT ![p] = "memory"] /\ UNCHANGED <<turnVars, outcome>>
  /\ UNCHANGED <<usage, spent, late, turns, faults>>

(* TokenBudget.precheck: a BudgetExceededError, which ends a morning or a  *)
(* weekly run and which no tutor code expects.                             *)
CheckMemory(p) ==
  /\ pc[p] = "memory"
  /\ IF mem[p] + est[p] > TotalCap
     THEN EndTurn(p, "budgetError")
     ELSE pc' = [pc EXCEPT ![p] = "calling"] /\ UNCHANGED <<turnVars, outcome>>
  /\ UNCHANGED <<usage, spent, late, turns, faults>>

----------------------------------------------------------------------------

(* Mutant of Proceed: one round too many. *)
ProceedOneMore(p) ==
  \/ EndTurn(p, "ok")
  \/ /\ round[p] <= MaxRounds
     /\ NextRound(p)
     /\ UNCHANGED <<own, mem, outcome>>

(* After an answer: an invalid one is asked for again once; one without    *)
(* tool calls ends the turn; tool calls go on to the next round, up to     *)
(* max_rounds (TutorEngineError).                                          *)
Proceed(p) ==
  \/ /\ attempt[p] = 0
     /\ attempt' = [attempt EXCEPT ![p] = 1]
     /\ pc' = [pc EXCEPT ![p] = FirstCheck(p)]
     /\ UNCHANGED <<own, mem, est, round, outcome>>
  \/ attempt[p] = 1 /\ EndTurn(p, "error")
  \/ EndTurn(p, "ok")
  \/ /\ round[p] < MaxRounds
     /\ NextRound(p)
     /\ UNCHANGED <<own, mem, outcome>>
  \/ round[p] = MaxRounds /\ EndTurn(p, "error")

(* Mutant of Respond: record_usage adds the turn's total each time. *)
RespondCumulative(p) ==
  /\ pc[p] = "calling"
  /\ \E n \in 0..MaxUse :
       /\ spent' = [spent EXCEPT ![RunOf[p]] = @ + n]
       /\ mem' = [mem EXCEPT ![p] = @ + n]
       /\ own' = [own EXCEPT ![p] = @ + mem[p] + n]
  /\ pc' = [pc EXCEPT ![p] = "save"]
  /\ UNCHANGED <<usage, est, attempt, round, outcome, late, turns, faults>>

(* The model answers and reports what it used: TokenBudget.add and the     *)
(* guard's _run_used.                                                      *)
Respond(p) ==
  /\ pc[p] = "calling"
  /\ \E n \in 0..MaxUse :
       /\ spent' = [spent EXCEPT ![RunOf[p]] = @ + n]
       /\ mem' = [mem EXCEPT ![p] = @ + n]
       /\ own' = [own EXCEPT ![p] = @ + n]
  /\ pc' = [pc EXCEPT ![p] = "save"]
  /\ UNCHANGED <<usage, est, attempt, round, outcome, late, turns, faults>>

(* Mutant of CallFails: the retry is not counted. *)
CallFailsForever(p) ==
  /\ pc[p] = "calling"
  /\ \/ pc' = [pc EXCEPT ![p] = FirstCheck(p)] /\ UNCHANGED <<turnVars, outcome>>
     \/ EndTurn(p, "error")
  /\ UNCHANGED <<usage, spent, late, turns, faults>>

(* No answer: a retryable error is retried once, after both checks; any    *)
(* other error, a timeout on the public API, or a passed deadline ends the *)
(* turn.                                                                   *)
CallFails(p) ==
  /\ pc[p] = "calling"
  /\ \/ /\ attempt[p] = 0
        /\ attempt' = [attempt EXCEPT ![p] = 1]
        /\ pc' = [pc EXCEPT ![p] = FirstCheck(p)]
        /\ UNCHANGED <<own, mem, est, round, outcome>>
     \/ EndTurn(p, "error")
  /\ UNCHANGED <<usage, spent, late, turns, faults>>

(* Mutant of Save: only what this turn has used is written. *)
SaveTurnOnly(p) ==
  /\ pc[p] = "save" /\ p \notin MorningRuns
  /\ usage' = [usage EXCEPT ![RunOf[p]] = mem[p]]
  /\ Proceed(p)
  /\ UNCHANGED <<spent, late, turns, faults>>

(* record_usage upserts the row with _run_used, and the turn goes on. *)
Save(p) ==
  /\ pc[p] = "save" /\ p \notin MorningRuns
  /\ usage' = [usage EXCEPT ![RunOf[p]] = own[p]]
  /\ Proceed(p)
  /\ UNCHANGED <<spent, late, turns, faults>>

(* The morning job has no observer.  When it gets to its end it writes     *)
(* what its TokenBudget has counted; when it fails it writes nothing.      *)
MorningProceed(p) ==
  /\ pc[p] = "save" /\ p \in MorningRuns
  /\ Proceed(p)
  /\ usage' = IF outcome'[p] = "ok" /\ pc'[p] = "idle"
              THEN [usage EXCEPT ![RunOf[p]] = mem[p]] ELSE usage
  /\ UNCHANGED <<spent, late, turns, faults>>

(* The save gets no answer.  _request sends it once more, and raises when  *)
(* that fails too; what was sent may be executed later.                    *)
SaveLost(p) ==
  /\ pc[p] = "save" /\ p \notin MorningRuns
  /\ faults < MaxFaults
  /\ faults' = faults + 1
  /\ late' = late \union {[run |-> RunOf[p], tokens |-> own[p]]}
  /\ \/ EndTurn(p, "error")
     \/ UNCHANGED <<pc, turnVars, outcome>>
  /\ UNCHANGED <<usage, spent, turns>>

LateSave(m) ==
  /\ m \in late
  /\ late' = late \ {m}
  /\ usage' = [usage EXCEPT ![m.run] = m.tokens]
  /\ UNCHANGED <<spent, pc, turnVars, outcome, turns, faults>>

(* The process ends: the 300 s limit of the function, a killed job. *)
Crash(p) ==
  /\ pc[p] # "idle"
  /\ faults < MaxFaults
  /\ faults' = faults + 1
  /\ EndTurn(p, "error")
  /\ UNCHANGED <<usage, spent, late, turns>>

----------------------------------------------------------------------------

Step(p) ==
  \/ CheckTutorCap(p) \/ CheckTotalCap(p) \/ CheckMemory(p)
  \/ Respond(p) \/ CallFails(p) \/ Save(p) \/ MorningProceed(p)

Next ==
  \/ \E p \in Procs : Begin(p) \/ Step(p) \/ SaveLost(p) \/ Crash(p)
  \/ \E m \in late : LateSave(m)

Spec == Init /\ [][Next]_vars

(* A turn that has begun goes on: its calls have timeouts. *)
FairSpec == Spec /\ \A p \in Procs : WF_vars(Step(p))

----------------------------------------------------------------------------
(* Properties *)

(* The ledger never shows more than was used: neither a guard that starts  *)
(* from a row others have written, nor a retry, a late save or a rerun     *)
(* under the same run id counts a token twice.                             *)
RecordedIsSpent == \A r \in RunIds : usage[r] <= spent[r]

(* When no turn is under way and nothing failed, the rows of tutors and    *)
(* weekly reviews show what was used, answer by answer.                    *)
RecordedWhenQuiet ==
  ((\A p \in Procs : pc[p] = "idle") /\ faults = 0) =>
     \A r \in GuardedIds : usage[r] = spent[r]

(* How far the caps can be passed.  A guard checks first and spends later, *)
(* and what a call uses is not bounded by its estimate: each of N turns of *)
(* different sessions may see the recorded total one token below a cap and *)
(* then spend a whole call.  (Without failures: a late save can take a row *)
(* back.)                                                                  *)
TutorSpendingBounded ==
  Total(spent, TutorIds) <= TutorCap - 1 + Cardinality(TutorTurns) * MaxUse

GuardedSpendingBounded ==
  Total(spent, GuardedIds) <=
     TotalCap - 1 + Cardinality(TutorTurns \union WeeklyRuns) * MaxUse

SpendingBounded ==
  faults = 0 => TutorSpendingBounded /\ GuardedSpendingBounded

(* Every turn ends: rounds and attempts are bounded. *)
TurnEnds == \A p \in Procs : pc[p] # "idle" ~> pc[p] = "idle"

=============================================================================
