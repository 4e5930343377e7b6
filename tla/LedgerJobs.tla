----------------------------- MODULE LedgerJobs -----------------------------
(***************************************************************************)
(* The jobs of the private ledger repository together: feedback syncs and  *)
(* weekly reviews, in any order and on several runners.  A runner does one *)
(* job at a time; the CI runner stands for the whole concurrency group     *)
(* that its workflows wait in.                                             *)
(***************************************************************************)
EXTENDS FeedbackSync, WeeklyReview

CONSTANT CI     \* the runner of the workflows

ASSUME CIAssumption == CI \in Runners

vars == <<issues, noted, tasks, pc, recorded, sending, attempt, late, lost, faults,
          toClose, plan, at, announced, reviews>>

TypeOK == JobStateTypeOK /\ FeedbackTypeOK /\ ReviewTypeOK

Init == JobStateInit /\ FeedbackInit /\ ReviewInit

(* What a job held in memory is gone with it. *)
Fails(p) ==
  /\ Abort(p)
  /\ toClose' = [toClose EXCEPT ![p] = {}]
  /\ plan' = [plan EXCEPT ![p] = << >>]
  /\ at' = [at EXCEPT ![p] = 0]
  /\ UNCHANGED <<announced, reviews>>

Sync(p) == SyncStep(p) /\ UNCHANGED reviewVars
Review(p) == ReviewStep(p) /\ UNCHANGED toClose
Repeat(p) == Resend(p) /\ UNCHANGED <<toClose, reviewVars>>

StartSync(p) == BeginSync(p) /\ UNCHANGED reviewVars
StartReview(p) == BeginReview(p) /\ UNCHANGED toClose

Environment ==
  \/ \E about \in Feedback : OpenIssue(about) /\ UNCHANGED reviewVars
  \/ \E i \in DOMAIN issues : OwnerCloses(i) /\ UNCHANGED toClose
  \/ \E m \in late :
       /\ ServeLate(m)
       /\ UNCHANGED <<pc, recorded, sending, attempt, lost, faults, toClose, reviewVars>>

Job(p) == Sync(p) \/ Review(p) \/ Repeat(p) \/ Fails(p)

Next ==
  \/ \E p \in Runners : StartSync(p) \/ StartReview(p) \/ Job(p)
  \/ Environment

Spec == Init /\ [][Next]_vars

(* A job in progress goes on (requests have timeouts, workflows a limit),  *)
(* and the schedule starts the morning job every day.                      *)
FairSpec == Spec /\ WF_vars(Job(CI)) /\ WF_vars(StartSync(CI))

----------------------------------------------------------------------------
(* Properties *)

(* An issue is closed only when its event is in the ledger, whatever has   *)
(* failed between import and close: feedback is never lost.                *)
ClosedIsNoted ==
  \A i \in DOMAIN issues :
     (issues[i].about \in Feedback /\ ~issues[i].open) => BagIn(i, noted)

(* The jobs are idempotent: a rerun, after whatever failure, imports no    *)
(* issue again and repeats neither effect of a proposal.  What remains is  *)
(* one copy for each runner, when they work at the same time, and one for  *)
(* each lost answer.                                                       *)
CopiesBounded ==
  LET most == Cardinality(Runners) + lost IN
  /\ \A i \in BagToSet(noted) : noted[i] <= most
  /\ \A k \in Keys : Cardinality(IssuesOf(k)) <= most /\ tasks[k] <= most

(* A task links to an issue that exists, and what a notification names has *)
(* both, whichever runs have failed half-way.                              *)
AnnouncedIsDone ==
  /\ \A k \in Keys : tasks[k] > 0 => IssuesOf(k) # {}
  /\ \A k \in announced : tasks[k] > 0 /\ IssuesOf(k) # {}

(* Every issue that can be imported is imported and closed in the end (in  *)
(* the model, with its finite number of issues: again and again none is    *)
(* left), unless the page the import reads is full of issues it does not   *)
(* close: unknown concepts and the drafts of the weekly review.            *)
Crowded ==
  Cardinality({i \in OpenIssues : issues[i].about # "known"}) >= PageSize

ImportedUnlessCrowded ==
  []<>(Crowded \/ \A i \in OpenIssues : issues[i].about # "known")

=============================================================================
