---------------------------- MODULE WeeklyReview ----------------------------
(***************************************************************************)
(* The weekly review: the model proposes one to three improvements, and    *)
(* for each a draft issue is made in the repository and then a task in the *)
(* ledger, unless they exist; at the end one notification names them all.  *)
(*                                                                         *)
(* A proposal is known by its key, a hash of the week and of the title the *)
(* model has written.  A review that is started again has new proposals,   *)
(* with the same titles or with others.                                    *)
(***************************************************************************)
EXTENDS JobState

VARIABLES plan,       \* the keys of the proposals, in order
          at,         \* the one that is dealt with
          announced,  \* keys the notifications have named
          reviews     \* number of reviews started

reviewVars == <<plan, at, announced, reviews>>

ReviewTypeOK ==
  /\ \A p \in Runners : plan[p] \in Seq(Keys) /\ at[p] \in 0..Len(plan[p])
  /\ announced \subseteq Keys
  /\ reviews \in 0..MaxReviews

ReviewInit ==
  /\ plan = [p \in Runners |-> << >>]
  /\ at = [p \in Runners |-> 0]
  /\ announced = {} /\ reviews = 0

Key(p) == plan[p][at[p]]

(* Mutant of BeginReview: a key counts as recorded when it has an issue. *)
BeginReviewByIssues(p) ==
  /\ pc[p] = "idle"
  /\ reviews < MaxReviews
  /\ reviews' = reviews + 1
  /\ \E n \in 1..MaxProposals : \E keys \in [1..n -> Keys] :
       plan' = [plan EXCEPT ![p] = keys]
  /\ at' = [at EXCEPT ![p] = 1]
  /\ recorded' = [recorded EXCEPT ![p] = {k \in Keys : IssuesOf(k) # {}}]
  /\ Answered(p, "find")
  /\ UNCHANGED <<serverVars, netVars, announced>>

(* The analysis has passed validate_proposal_privacy, which comes before   *)
(* any effect; the keys with a task are read from the task_created events. *)
BeginReview(p) ==
  /\ pc[p] = "idle"
  /\ reviews < MaxReviews
  /\ reviews' = reviews + 1
  /\ \E n \in 1..MaxProposals : \E keys \in [1..n -> Keys] :
       plan' = [plan EXCEPT ![p] = keys]
  /\ at' = [at EXCEPT ![p] = 1]
  /\ recorded' = [recorded EXCEPT ![p] = {k \in Keys : tasks[k] > 0}]
  /\ Answered(p, "find")
  /\ UNCHANGED <<serverVars, netVars, announced>>

Advance(p) ==
  IF at[p] < Len(plan[p])
  THEN Answered(p, "find") /\ at' = [at EXCEPT ![p] = @ + 1]
  ELSE Answered(p, "notify") /\ UNCHANGED at

(* With the issue there, a task is made unless the key is recorded. *)
HasIssue(p) ==
  IF Key(p) \in recorded[p]
  THEN Advance(p)
  ELSE Send(p, "create", {Key(p)}) /\ UNCHANGED at

(* Mutant of Find: an issue that is closed is not seen (state=open). *)
FindOpenOnly(p) ==
  /\ pc[p] = "find"
  /\ IF IssuesOf(Key(p)) \intersect OpenIssues # {}
     THEN HasIssue(p)
     ELSE Send(p, "post", {Key(p)}) /\ UNCHANGED at
  /\ UNCHANGED <<serverVars, recorded, netVars, plan, announced, reviews>>

(* create_or_get_issue: an issue with the key's marker, open or closed,    *)
(* among the newest hundred with the label (all of them in the model).     *)
Find(p) ==
  /\ pc[p] = "find"
  /\ IF IssuesOf(Key(p)) # {}
     THEN HasIssue(p)
     ELSE Send(p, "post", {Key(p)}) /\ UNCHANGED at
  /\ UNCHANGED <<serverVars, recorded, netVars, plan, announced, reviews>>

PostIssue(p) ==
  /\ pc[p] = "post"
  /\ Execute("post", sending[p])
  /\ HasIssue(p)
  /\ UNCHANGED <<recorded, netVars, plan, announced, reviews>>

CreateTask(p) ==
  /\ pc[p] = "create"
  /\ Execute("create", sending[p])
  /\ Answered(p, "refresh")
  /\ recorded' = [recorded EXCEPT ![p] = @ \union {Key(p)}]
  /\ UNCHANGED <<netVars, reviewVars>>

(* The rebuild that ends TutorTools.create_task. *)
Refresh(p) ==
  /\ pc[p] = "refresh"
  /\ Advance(p)
  /\ UNCHANGED <<serverVars, recorded, netVars, plan, announced, reviews>>

(* The message to Discord; when it fails the review has failed (Abort). *)
Notify(p) ==
  /\ pc[p] = "notify"
  /\ announced' = announced \union {plan[p][i] : i \in DOMAIN plan[p]}
  /\ Answered(p, "idle")
  /\ plan' = [plan EXCEPT ![p] = << >>]
  /\ at' = [at EXCEPT ![p] = 0]
  /\ recorded' = [recorded EXCEPT ![p] = {}]
  /\ UNCHANGED <<serverVars, netVars, reviews>>

(* The owner has dealt with a draft. *)
OwnerCloses(i) ==
  /\ i \in OpenIssues /\ issues[i].about \in Keys
  /\ issues' = [issues EXCEPT ![i].open = FALSE]
  /\ UNCHANGED <<noted, tasks, pc, recorded, sending, attempt, netVars, reviewVars>>

ReviewStep(p) == Find(p) \/ PostIssue(p) \/ CreateTask(p) \/ Refresh(p) \/ Notify(p)

=============================================================================
