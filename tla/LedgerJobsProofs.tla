-------------------------- MODULE LedgerJobsProofs --------------------------
(***************************************************************************)
(* What the batch jobs promise about issues and ledger, for any number of  *)
(* runners, issues, reviews, lost answers and failures.                    *)
(***************************************************************************)
EXTENDS LedgerJobs, SequenceTheorems, FiniteSetTheorems, TLAPS

Issue == [about : Feedback \union Keys, open : BOOLEAN]

ServersFit == issues \in Seq(Issue) /\ tasks \in [Keys -> Nat]

RunnersFit ==
  /\ DOMAIN pc = Runners /\ DOMAIN recorded = Runners /\ DOMAIN sending = Runners
  /\ DOMAIN toClose = Runners /\ DOMAIN at = Runners
  /\ plan \in [Runners -> Seq(Keys)] /\ announced \subseteq Keys

Done(k) == tasks[k] > 0 /\ IssuesOf(k) # {}

(* A receipt lists issues whose events are in the ledger or in the request *)
(* that is being sent.                                                     *)
SyncFits(p) ==
  /\ toClose[p] \subseteq DOMAIN issues
  /\ toClose[p] \subseteq DOMAIN noted \union (IF pc[p] = "append" THEN sending[p] ELSE {})
  /\ pc[p] = "list" => recorded[p] \subseteq DOMAIN noted

(* A review has dealt with the proposals before the current one, and with  *)
(* that too once its task is made; a task is sent for when its issue       *)
(* exists.                                                                 *)
ReviewFits(p) ==
  pc[p] \in {"find", "post", "create", "refresh", "notify"} =>
    /\ at[p] \in 1..Len(plan[p])
    /\ \A k \in recorded[p] : k \in Keys /\ tasks[k] > 0
    /\ \A i \in 1..(at[p] - 1) : Done(plan[p][i])
    /\ pc[p] \in {"refresh", "notify"} => Done(Key(p))
    /\ pc[p] = "notify" => at[p] = Len(plan[p])
    /\ pc[p] \in {"post", "create"} => sending[p] = {Key(p)}
    /\ pc[p] = "create" => IssuesOf(Key(p)) # {}

LateFits ==
  \A m \in late :
    /\ m.kind = "post" => m.what \subseteq Keys
    /\ m.kind = "create" => \A k \in m.what : k \in Keys /\ IssuesOf(k) # {}

IInv ==
  /\ ServersFit /\ RunnersFit /\ LateFits
  /\ ClosedIsNoted /\ AnnouncedIsDone
  /\ \A p \in Runners : SyncFits(p) /\ ReviewFits(p)

----------------------------------------------------------------------------
(* The servers only add *)

Grows ==
  /\ \A k \in Keys : IssuesOf(k) # {} => IssuesOf(k)' # {}
  /\ \A k \in Keys : tasks[k] > 0 => tasks'[k] > 0
  /\ DOMAIN issues \subseteq DOMAIN issues' /\ DOMAIN noted \subseteq DOMAIN noted'

LEMMA BagGrows ==
  ASSUME NEW B, NEW S
  PROVE  DOMAIN (B (+) SetToBag(S)) = DOMAIN B \union S
  BY DEF SetToBag, (+)

LEMMA SameServers == UNCHANGED serverVars => Grows /\ (ServersFit => ServersFit')
  BY DEF serverVars, Grows, IssuesOf, ServersFit

(* A new issue is open. *)
LEMMA IssueAdded ==
  ASSUME ServersFit, NEW k \in Feedback \union Keys,
         issues' = Append(issues, [about |-> k, open |-> TRUE]), UNCHANGED <<noted, tasks>>
  PROVE  /\ ServersFit' /\ Grows /\ IssuesOf(k)' # {}
         /\ ClosedIsNoted => ClosedIsNoted'
  <1>1. [about |-> k, open |-> TRUE] \in Issue
    BY DEF Issue
  <1>2. /\ issues' \in Seq(Issue) /\ Len(issues') = Len(issues) + 1
        /\ DOMAIN issues = 1..Len(issues) /\ DOMAIN issues' = 1..Len(issues')
        /\ \A i \in DOMAIN issues : issues'[i] = issues[i]
        /\ issues'[Len(issues')] = [about |-> k, open |-> TRUE] /\ Len(issues) \in Nat
    BY <1>1 DEF ServersFit
  <1>3. ServersFit' /\ Grows /\ IssuesOf(k)' # {}
    BY <1>2 DEF ServersFit, Grows, IssuesOf
  <1>4. ASSUME ClosedIsNoted, NEW i \in DOMAIN issues',
               issues'[i].about \in Feedback, ~issues'[i].open
        PROVE  BagIn(i, noted)
    <2>1. i \in DOMAIN issues
      BY <1>2, <1>4
    <2>2. QED
      BY <1>2, <1>4, <2>1 DEF ClosedIsNoted
  <1>5. QED
    BY <1>3, <1>4 DEF ClosedIsNoted

LEMMA ClosedIssue ==
  ASSUME NEW r \in Issue
  PROVE  [r EXCEPT !.open = FALSE] \in Issue /\ [r EXCEPT !.open = FALSE].about = r.about
  BY DEF Issue

LEMMA IssueReplaced ==
  ASSUME ServersFit, NEW i \in DOMAIN issues, NEW r \in Issue, r.about = issues[i].about,
         issues' = [issues EXCEPT ![i] = r]
  PROVE  /\ issues' \in Seq(Issue) /\ DOMAIN issues' = DOMAIN issues
         /\ \A j \in DOMAIN issues : issues'[j].about = issues[j].about
         /\ \A j \in DOMAIN issues : j # i => issues'[j] = issues[j]
  <1>1. issues \in Seq(Issue) /\ i \in 1..Len(issues) /\ DOMAIN issues = 1..Len(issues)
    BY DEF ServersFit
  <1>2. /\ issues' \in Seq(Issue) /\ Len(issues') = Len(issues)
        /\ \A j \in 1..Len(issues) : issues'[j] = IF j = i THEN r ELSE issues[j]
    BY <1>1, ExceptSeq
  <1>3. DOMAIN issues' = 1..Len(issues)
    BY <1>2
  <1>4. QED
    BY <1>1, <1>2, <1>3

(* An issue is closed whose event is in, or which is no feedback. *)
LEMMA IssueClosed ==
  ASSUME ServersFit, NEW i \in DOMAIN issues, issues' = [issues EXCEPT ![i].open = FALSE],
         i \in DOMAIN noted \/ issues[i].about \notin Feedback,
         UNCHANGED <<noted, tasks>>
  PROVE  /\ ServersFit' /\ Grows
         /\ ClosedIsNoted => ClosedIsNoted'
  <1>1. /\ issues' \in Seq(Issue) /\ DOMAIN issues' = DOMAIN issues
        /\ \A j \in DOMAIN issues : issues'[j].about = issues[j].about
        /\ \A j \in DOMAIN issues : j # i => issues'[j] = issues[j]
    <2>1. issues[i] \in Issue
      BY DEF ServersFit
    <2>2. PICK closed \in Issue :
            closed.about = issues[i].about /\ issues' = [issues EXCEPT ![i] = closed]
      BY <2>1, ClosedIssue
    <2>3. QED
      BY <2>2, IssueReplaced
  <1>2. ServersFit' /\ Grows
    BY <1>1 DEF ServersFit, Grows, IssuesOf
  <1>3. ClosedIsNoted => ClosedIsNoted'
    BY <1>1 DEF ClosedIsNoted, BagIn, BagToSet
  <1>4. QED
    BY <1>2, <1>3

LEMMA ExecuteGrows ==
  ASSUME ServersFit, NEW kind, NEW what, Execute(kind, what),
         kind = "post" => what \subseteq Keys
  PROVE  /\ ServersFit' /\ Grows
         /\ ClosedIsNoted => ClosedIsNoted'
         /\ kind = "append" => what \subseteq DOMAIN noted'
         /\ kind = "post" => \E k \in what : IssuesOf(k)' # {}
         /\ kind = "create" => \A k \in what \intersect Keys : tasks'[k] > 0
         /\ \A k \in Keys : tasks'[k] > 0 => tasks[k] > 0 \/ (kind = "create" /\ k \in what)
  <1>1. CASE kind = "append"
    <2>1. DOMAIN noted' = DOMAIN noted \union what /\ UNCHANGED <<issues, tasks>>
      BY <1>1, BagGrows DEF Execute
    <2>2. QED
      BY <1>1, <2>1 DEF ServersFit, Grows, IssuesOf, ClosedIsNoted, BagIn, BagToSet
  <1>2. CASE kind = "post"
    <2>1. PICK k \in what : issues' = Append(issues, [about |-> k, open |-> TRUE])
      BY <1>2 DEF Execute
    <2>2. k \in Keys /\ UNCHANGED <<noted, tasks>>
      BY <1>2, <2>1 DEF Execute
    <2>3. QED
      BY <1>2, <2>1, <2>2, IssueAdded
  <1>3. CASE kind = "create"
    <2>1. /\ tasks' = [k \in Keys |-> tasks[k] + (IF k \in what THEN 1 ELSE 0)]
          /\ UNCHANGED <<issues, noted>>
      BY <1>3 DEF Execute
    <2>2. /\ tasks' \in [Keys -> Nat]
          /\ \A k \in Keys : tasks[k] \in Nat /\ tasks'[k] = tasks[k] + (IF k \in what THEN 1 ELSE 0)
      BY <2>1 DEF ServersFit
    <2>3. QED
      BY <1>3, <2>1, <2>2 DEF ServersFit, Grows, IssuesOf, ClosedIsNoted
  <1>4. QED
    BY <1>1, <1>2, <1>3 DEF Execute

----------------------------------------------------------------------------
(* What a step of one runner leaves alone *)

Others(p) ==
  \A q \in Runners \ {p} :
     /\ pc'[q] = pc[q] /\ recorded'[q] = recorded[q] /\ sending'[q] = sending[q]
     /\ toClose'[q] = toClose[q] /\ plan'[q] = plan[q] /\ at'[q] = at[q]

LEMMA LateKept == ASSUME Grows, LateFits, late' \subseteq late PROVE LateFits'
  BY DEF Grows, LateFits

(* A step of p that adds to the servers leaves the other runners as they   *)
(* should be.                                                              *)
LEMMA OthersFit ==
  ASSUME IInv, Grows, NEW p \in Runners, Others(p), SyncFits(p)', ReviewFits(p)'
  PROVE  (\A q \in Runners : SyncFits(q) /\ ReviewFits(q))'
  <1>1. ASSUME NEW q \in Runners, q # p
        PROVE  SyncFits(q)' /\ ReviewFits(q)'
    <2>1. /\ pc'[q] = pc[q] /\ recorded'[q] = recorded[q] /\ sending'[q] = sending[q]
          /\ toClose'[q] = toClose[q] /\ plan'[q] = plan[q] /\ at'[q] = at[q]
          /\ SyncFits(q) /\ ReviewFits(q) /\ plan[q] \in Seq(Keys)
      BY <1>1 DEF Others, IInv, RunnersFit
    <2>2. SyncFits(q)'
      BY <2>1 DEF SyncFits, Grows
    <2>3. SUFFICES ASSUME pc[q] \in {"find", "post", "create", "refresh", "notify"}
                   PROVE  ReviewFits(q)'
      BY <2>1, <2>2 DEF ReviewFits
    <2>4. /\ at[q] \in 1..Len(plan[q]) /\ Key(q)' = Key(q) /\ Key(q) \in Keys
          /\ \A i \in 1..Len(plan[q]) : plan[q][i] \in Keys
      BY <2>1, <2>3 DEF ReviewFits, Key
    <2>5. \A k \in Keys : Done(k) => Done(k)'
      BY DEF Grows, Done
    <2>6. \A i \in 1..(at[q] - 1) : i \in 1..Len(plan[q])
      BY <2>4
    <2>7. QED
      BY <2>1, <2>3, <2>4, <2>5, <2>6 DEF ReviewFits, Grows
  <1>2. QED
    BY <1>1

LEMMA NothingNewAnnounced ==
  ASSUME AnnouncedIsDone, Grows, announced \subseteq Keys, UNCHANGED announced,
         \A k \in Keys : tasks'[k] > 0 => tasks[k] > 0 \/ IssuesOf(k)' # {}
  PROVE  AnnouncedIsDone'
  BY DEF AnnouncedIsDone, Grows

LEMMA StepFits ==
  ASSUME IInv, Grows, ServersFit', RunnersFit', LateFits', ClosedIsNoted', AnnouncedIsDone',
         NEW p \in Runners, Others(p), SyncFits(p)', ReviewFits(p)'
  PROVE  IInv'
  BY OthersFit DEF IInv

(* A step of p that does not reach the servers. *)
LEMMA LocalFits ==
  ASSUME IInv, UNCHANGED <<serverVars, announced>>, RunnersFit', LateFits',
         NEW p \in Runners, Others(p), SyncFits(p)', ReviewFits(p)'
  PROVE  IInv'
  <1>1. Grows /\ ServersFit' /\ ClosedIsNoted'
    BY SameServers DEF IInv, serverVars, ClosedIsNoted
  <1>2. AnnouncedIsDone'
    BY DEF IInv, AnnouncedIsDone, IssuesOf, serverVars
  <1>3. QED
    BY <1>1, <1>2, StepFits

(* A step of nobody: an issue opened or closed, a late request. *)
LEMMA EnvironmentFits ==
  ASSUME IInv, Grows, ServersFit', ClosedIsNoted', AnnouncedIsDone', late' \subseteq late,
         UNCHANGED <<pc, recorded, sending, toClose, plan, at, announced>>
  PROVE  IInv'
  <1>1. LateFits' /\ RunnersFit'
    BY LateKept DEF IInv, RunnersFit
  <1>2. ASSUME NEW p \in Runners
        PROVE  SyncFits(p)' /\ ReviewFits(p)'
    <2>1. /\ SyncFits(p) /\ ReviewFits(p) /\ plan[p] \in Seq(Keys) /\ Key(p)' = Key(p)
      BY DEF IInv, RunnersFit, Key
    <2>2. SyncFits(p)'
      BY <2>1 DEF SyncFits, Grows
    <2>3. SUFFICES ASSUME pc[p] \in {"find", "post", "create", "refresh", "notify"}
                   PROVE  ReviewFits(p)'
      BY <2>2 DEF ReviewFits
    <2>4. at[p] \in 1..Len(plan[p]) /\ Key(p) \in Keys /\ \A i \in 1..Len(plan[p]) : plan[p][i] \in Keys
      BY <2>1, <2>3 DEF ReviewFits, Key
    <2>5. \A k \in Keys : Done(k) => Done(k)'
      BY DEF Grows, Done
    <2>6. \A i \in 1..(at[p] - 1) : i \in 1..Len(plan[p])
      BY <2>4
    <2>7. QED
      BY <2>1, <2>3, <2>4, <2>5, <2>6 DEF ReviewFits, Grows
  <1>3. QED
    BY <1>1, <1>2 DEF IInv

----------------------------------------------------------------------------
(* Feedback syncs *)

LEMMA SyncKeeps ==
  ASSUME IInv, NEW p \in Runners, StartSync(p) \/ Sync(p)
  PROVE  IInv'
  <1> DEFINE Quiet == UNCHANGED <<serverVars, announced, plan, at>>
  <1>1. UNCHANGED <<announced, plan, at>>
    BY DEF StartSync, Sync, reviewVars
  <1>2. CASE BeginSync(p)
    <2>1. /\ RunnersFit' /\ LateFits' /\ Others(p) /\ Quiet
          /\ pc'[p] = "list" /\ recorded'[p] = DOMAIN noted /\ toClose'[p] = toClose[p] /\ pc[p] = "idle"
      BY <1>1, <1>2 DEF BeginSync, IInv, RunnersFit, LateFits, Others, netVars, BagToSet, serverVars, IssuesOf
    <2>2. SyncFits(p)' /\ ReviewFits(p)'
      BY <2>1 DEF IInv, SyncFits, ReviewFits, serverVars
    <2>3. QED
      BY <2>1, <2>2, LocalFits
  <1>3. CASE List(p)
    <2>1. /\ \/ pc'[p] = "close" /\ Importable(p) = {}
             \/ pc'[p] = "append" /\ sending'[p] = Importable(p)
          /\ toClose'[p] = (FirstPage \intersect recorded[p]) \union Importable(p)
          /\ RunnersFit' /\ Others(p)
      BY <1>1, <1>3 DEF List, Answered, Send, IInv, RunnersFit, Others
    <2>2. LateFits' /\ Quiet /\ pc[p] = "list"
      BY <1>1, <1>3 DEF List, IInv, LateFits, netVars, serverVars, IssuesOf
    <2>3. FirstPage \subseteq DOMAIN issues /\ Importable(p) \subseteq DOMAIN issues
      BY DEF FirstPage, Importable, OpenIssues
    <2>4. SyncFits(p)' /\ ReviewFits(p)'
      BY <2>1, <2>2, <2>3 DEF IInv, SyncFits, ReviewFits, serverVars
    <2>5. QED
      BY <2>1, <2>2, <2>4, LocalFits
  <1>4. CASE ListFails(p) \/ Rebuild(p) \/ EndSync(p)
    <2>1. /\ RunnersFit' /\ LateFits' /\ Others(p) /\ Quiet
          /\ pc'[p] \in {"close", "idle"} /\ toClose'[p] = toClose[p] /\ pc[p] # "append"
      BY <1>1, <1>4 DEF ListFails, Rebuild, EndSync, Answered, IInv, RunnersFit, LateFits, Others,
         netVars, serverVars, IssuesOf
    <2>2. SyncFits(p)' /\ ReviewFits(p)'
      BY <2>1 DEF IInv, SyncFits, ReviewFits, serverVars
    <2>3. QED
      BY <2>1, <2>2, LocalFits
  <1>5. CASE AppendEvents(p)
    <2>1. Execute("append", sending[p]) /\ UNCHANGED <<recorded, late, toClose>>
      BY <1>5 DEF AppendEvents, netVars
    <2>2. /\ ServersFit' /\ Grows /\ ClosedIsNoted' /\ sending[p] \subseteq DOMAIN noted'
          /\ \A k \in Keys : tasks'[k] > 0 => tasks[k] > 0
      BY <2>1, ExecuteGrows DEF IInv
    <2>3. /\ RunnersFit' /\ Others(p) /\ pc[p] = "append" /\ pc'[p] = "rebuild"
      BY <1>1, <1>5 DEF AppendEvents, Answered, IInv, RunnersFit, Others
    <2>4. AnnouncedIsDone' /\ LateFits'
      BY <1>1, <2>1, <2>2, NothingNewAnnounced, LateKept DEF IInv, RunnersFit
    <2>5. SyncFits(p)' /\ ReviewFits(p)'
      BY <2>1, <2>2, <2>3 DEF IInv, SyncFits, ReviewFits, Grows
    <2>6. QED
      BY <2>2, <2>3, <2>4, <2>5, StepFits
  <1>6. CASE CloseNext(p)
    <2>1. PICK i \in toClose[p] :
            /\ toClose' = [toClose EXCEPT ![p] = @ \ {i}]
            /\ issues' = [issues EXCEPT ![i].open = FALSE] \/ issues' = issues
      BY <1>6 DEF CloseNext
    <2>2. UNCHANGED <<noted, tasks, pc, recorded, sending, late>> /\ pc[p] = "close"
      BY <1>6 DEF CloseNext
    <2>3. i \in DOMAIN issues /\ i \in DOMAIN noted
      BY <2>1, <2>2 DEF IInv, SyncFits
    <2>4. ServersFit' /\ Grows /\ ClosedIsNoted'
      <3>1. CASE issues' = issues
        BY <2>2, <3>1, SameServers DEF IInv, serverVars, ClosedIsNoted
      <3>2. CASE issues' = [issues EXCEPT ![i].open = FALSE]
        BY <2>2, <2>3, <3>2, IssueClosed DEF IInv
      <3>3. QED
        BY <2>1, <3>1, <3>2
    <2>5. AnnouncedIsDone' /\ LateFits'
      BY <1>1, <2>2, <2>4, NothingNewAnnounced, LateKept DEF IInv, RunnersFit
    <2>6. RunnersFit' /\ Others(p) /\ toClose'[p] \subseteq toClose[p]
      BY <1>1, <2>1, <2>2 DEF IInv, RunnersFit, Others
    <2>7. SyncFits(p)' /\ ReviewFits(p)'
      BY <2>2, <2>4, <2>6 DEF IInv, SyncFits, ReviewFits, Grows
    <2>8. QED
      BY <2>4, <2>5, <2>6, <2>7, StepFits
  <1>7. QED
    BY <1>2, <1>3, <1>4, <1>5, <1>6 DEF StartSync, Sync, SyncStep

----------------------------------------------------------------------------
(* Reviews *)

InReview(p) == pc[p] \in {"find", "post", "create", "refresh"}

LEMMA KeyIsKey ==
  ASSUME IInv, NEW p \in Runners, InReview(p)
  PROVE  /\ Key(p) \in Keys /\ at[p] \in 1..Len(plan[p]) /\ plan[p] \in Seq(Keys)
         /\ \A i \in 1..Len(plan[p]) : plan[p][i] \in Keys
  BY DEF IInv, InReview, ReviewFits, RunnersFit, Key

(* The next proposal, once the current one is done. *)
LEMMA AdvanceFits ==
  ASSUME IInv, Grows, NEW p \in Runners, InReview(p), Advance(p),
         UNCHANGED <<plan, toClose, recorded, announced>>,
         NEW k \in Keys, k = Key(p), Done(k)'
  PROVE  ReviewFits(p)' /\ SyncFits(p)' /\ Others(p) /\ RunnersFit'
  <1>1. /\ at[p] \in 1..Len(plan[p]) /\ plan[p] \in Seq(Keys)
        /\ \A i \in 1..Len(plan[p]) : plan[p][i] \in Keys
    BY KeyIsKey
  <1>2. \A i \in 1..at[p] : Done(plan[p][i])'
    <2>1. \A x \in Keys : Done(x) => Done(x)'
      BY DEF Grows, Done
    <2>2. \A i \in 1..(at[p] - 1) : Done(plan[p][i]) /\ plan[p][i] \in Keys
      BY <1>1 DEF IInv, InReview, ReviewFits
    <2>3. \A i \in {at[p]} : Done(plan[p][i])'
      BY DEF Key, Done
    <2>4. \A i \in 1..at[p] : i \in 1..(at[p] - 1) \/ i = at[p]
      BY <1>1
    <2>5. \A i \in 1..(at[p] - 1) : Done(plan[p][i])'
      BY <2>1, <2>2 DEF Done
    <2>6. QED
      BY <2>3, <2>4, <2>5
  <1>3. RunnersFit' /\ Others(p)
    BY DEF Advance, Answered, IInv, RunnersFit, Others
  <1>4. \A x \in recorded[p] : x \in Keys /\ tasks'[x] > 0
    BY DEF IInv, InReview, ReviewFits, Grows
  <1>5. CASE at[p] < Len(plan[p])
    <2>1. pc'[p] = "find" /\ at'[p] = at[p] + 1 /\ recorded'[p] = recorded[p] /\ plan'[p] = plan[p]
      BY <1>5 DEF Advance, Answered, IInv, RunnersFit
    <2>2. ReviewFits(p)'
      BY <1>1, <1>2, <1>4, <1>5, <2>1 DEF ReviewFits
    <2>3. SyncFits(p)'
      BY <2>1 DEF IInv, SyncFits, InReview, Grows
    <2>4. QED
      BY <1>3, <2>2, <2>3
  <1>6. CASE ~(at[p] < Len(plan[p]))
    <2>1. pc'[p] = "notify" /\ at'[p] = at[p] /\ recorded'[p] = recorded[p] /\ plan'[p] = plan[p]
      BY <1>6 DEF Advance, Answered, IInv, RunnersFit
    <2>2. at[p] = Len(plan[p]) /\ Done(Key(p))'
      BY <1>1, <1>2, <1>6, <2>1 DEF Key, Done
    <2>3. ReviewFits(p)'
      BY <1>1, <1>2, <1>4, <2>1, <2>2 DEF ReviewFits
    <2>4. SyncFits(p)'
      BY <2>1 DEF IInv, SyncFits, InReview, Grows
    <2>5. QED
      BY <1>3, <2>3, <2>4
  <1>7. QED
    BY <1>5, <1>6

(* Either the next proposal or the task of this one, whose issue is there. *)
LEMMA HasIssueFits ==
  ASSUME IInv, Grows, NEW p \in Runners, InReview(p), HasIssue(p),
         UNCHANGED <<plan, toClose, recorded, announced>>,
         NEW k \in Keys, k = Key(p), IssuesOf(k)' # {}
  PROVE  ReviewFits(p)' /\ SyncFits(p)' /\ Others(p) /\ RunnersFit'
  <1>1. CASE k \in recorded[p]
    <2>1. Done(k)'
      BY <1>1 DEF IInv, InReview, ReviewFits, Grows, Done
    <2>2. QED
      BY <1>1, <2>1, AdvanceFits DEF HasIssue
  <1>2. CASE k \notin recorded[p]
    <2>1. /\ pc'[p] = "create" /\ sending'[p] = {k} /\ at' = at
          /\ RunnersFit' /\ Others(p)
      BY <1>2 DEF HasIssue, Send, IInv, RunnersFit, Others
    <2>2. Key(p)' = k
      BY <2>1 DEF Key
    <2>3. /\ at[p] \in 1..Len(plan[p]) /\ \A i \in 1..Len(plan[p]) : plan[p][i] \in Keys
      BY KeyIsKey
    <2>4. \A x \in recorded[p] : x \in Keys /\ tasks'[x] > 0
      BY DEF IInv, InReview, ReviewFits, Grows
    <2>5. \A i \in 1..(at[p] - 1) : Done(plan[p][i])'
      <3>1. \A x \in Keys : Done(x) => Done(x)'
        BY DEF Grows, Done
      <3>2. \A i \in 1..(at[p] - 1) : Done(plan[p][i]) /\ plan[p][i] \in Keys
        BY <2>3 DEF IInv, InReview, ReviewFits
      <3>3. QED
        BY <3>1, <3>2 DEF Done
    <2>6. ReviewFits(p)'
      BY <2>1, <2>2, <2>3, <2>4, <2>5 DEF ReviewFits
    <2>7. SyncFits(p)'
      BY <2>1 DEF IInv, SyncFits, InReview, Grows
    <2>8. QED
      BY <2>1, <2>6, <2>7
  <1>3. QED
    BY <1>1, <1>2

LEMMA ReviewKeeps ==
  ASSUME IInv, NEW p \in Runners, StartReview(p) \/ Review(p)
  PROVE  IInv'
  <1>1. UNCHANGED toClose
    BY DEF StartReview, Review
  <1>2. CASE BeginReview(p)
    <2>1. PICK n \in 1..MaxProposals : \E keys \in [1..n -> Keys] : plan' = [plan EXCEPT ![p] = keys]
      BY <1>2 DEF BeginReview
    <2>2. PICK keys \in [1..n -> Keys] : plan' = [plan EXCEPT ![p] = keys]
      BY <2>1
    <2>3. n \in Nat /\ 1 <= n /\ keys \in Seq(Keys) /\ Len(keys) = n
      BY <2>1, <2>2, JobsAssumption
    <2>4. /\ pc[p] = "idle" /\ pc'[p] = "find" /\ at'[p] = 1 /\ plan'[p] = keys
          /\ recorded'[p] = {k \in Keys : tasks[k] > 0} /\ toClose'[p] = toClose[p]
          /\ RunnersFit' /\ Others(p)
      BY <1>1, <1>2, <2>2, <2>3 DEF BeginReview, Answered, IInv, RunnersFit, Others
    <2>5. UNCHANGED <<serverVars, announced, late>>
      BY <1>2 DEF BeginReview, netVars
    <2>6. LateFits' /\ UNCHANGED <<issues, noted, tasks>>
      BY <2>5 DEF IInv, LateFits, IssuesOf, serverVars
    <2>7. ReviewFits(p)'
      BY <2>3, <2>4, <2>6 DEF ReviewFits
    <2>8. SyncFits(p)'
      BY <2>4, <2>6 DEF IInv, SyncFits
    <2>9. QED
      BY <2>4, <2>5, <2>6, <2>7, <2>8, LocalFits
  <1>3. CASE Find(p)
    <2>1. /\ UNCHANGED <<serverVars, recorded, late, plan, announced, toClose>>
          /\ InReview(p) /\ pc[p] = "find"
      BY <1>1, <1>3 DEF Find, netVars, InReview
    <2>2. PICK k \in Keys : k = Key(p)
      BY <2>1, KeyIsKey
    <2>3. LateFits' /\ Grows /\ UNCHANGED <<issues, noted, tasks>>
      BY <2>1, SameServers DEF IInv, LateFits, IssuesOf, serverVars
    <2>4. CASE IssuesOf(Key(p)) # {}
      <3>1. IssuesOf(k)' # {}
        BY <2>2, <2>3, <2>4 DEF IssuesOf
      <3>2. QED
        BY <1>3, <2>1, <2>2, <2>3, <2>4, <3>1, HasIssueFits, LocalFits DEF Find
    <2>5. CASE ~(IssuesOf(Key(p)) # {})
      <3>1. /\ pc'[p] = "post" /\ sending'[p] = {k} /\ at' = at
            /\ RunnersFit' /\ Others(p)
        BY <1>3, <2>1, <2>2, <2>5 DEF Find, Send, IInv, RunnersFit, Others
      <3>2. Key(p)' = Key(p)
        BY <2>1, <3>1 DEF Key
      <3>3. ReviewFits(p)'
        BY <2>1, <2>2, <2>3, <3>1, <3>2 DEF IInv, ReviewFits, Done, IssuesOf
      <3>4. SyncFits(p)'
        BY <2>1, <2>3, <3>1 DEF IInv, SyncFits
      <3>5. QED
        BY <2>1, <2>3, <3>1, <3>3, <3>4, LocalFits
    <2>6. QED
      BY <2>4, <2>5
  <1>4. CASE PostIssue(p)
    <2>1. /\ UNCHANGED <<recorded, late, plan, announced, toClose>>
          /\ InReview(p) /\ pc[p] = "post" /\ Execute("post", sending[p]) /\ HasIssue(p)
      BY <1>1, <1>4 DEF PostIssue, netVars, InReview
    <2>2. PICK k \in Keys : k = Key(p)
      BY <2>1, KeyIsKey
    <2>3. sending[p] = {k}
      BY <2>1, <2>2 DEF IInv, ReviewFits
    <2>4. /\ ServersFit' /\ Grows /\ ClosedIsNoted' /\ IssuesOf(k)' # {}
          /\ \A x \in Keys : tasks'[x] > 0 => tasks[x] > 0
      BY <2>1, <2>3, ExecuteGrows DEF IInv
    <2>5. AnnouncedIsDone' /\ LateFits'
      BY <2>1, <2>4, NothingNewAnnounced, LateKept DEF IInv, RunnersFit
    <2>6. ReviewFits(p)' /\ SyncFits(p)' /\ Others(p) /\ RunnersFit'
      BY <2>1, <2>2, <2>4, HasIssueFits
    <2>7. QED
      BY <2>4, <2>5, <2>6, StepFits
  <1>5. CASE CreateTask(p)
    <2>1. /\ UNCHANGED <<late, plan, at, announced, toClose>>
          /\ InReview(p) /\ pc[p] = "create" /\ Execute("create", sending[p])
      BY <1>1, <1>5 DEF CreateTask, netVars, reviewVars, InReview
    <2>2. PICK k \in Keys : k = Key(p)
      BY <2>1, KeyIsKey
    <2>3. sending[p] = {k} /\ IssuesOf(k) # {}
      BY <2>1, <2>2 DEF IInv, ReviewFits
    <2>4. /\ ServersFit' /\ Grows /\ ClosedIsNoted' /\ tasks'[k] > 0
          /\ \A x \in Keys : tasks'[x] > 0 => tasks[x] > 0 \/ x = k
      BY <2>1, <2>3, ExecuteGrows DEF IInv
    <2>5. IssuesOf(k)' # {}
      BY <2>3, <2>4 DEF Grows
    <2>6. AnnouncedIsDone' /\ LateFits'
      BY <2>1, <2>4, <2>5, NothingNewAnnounced, LateKept DEF IInv, RunnersFit
    <2>7. /\ pc'[p] = "refresh" /\ recorded'[p] = recorded[p] \union {k}
          /\ RunnersFit' /\ Others(p)
      BY <1>5, <2>1, <2>2 DEF CreateTask, Answered, IInv, RunnersFit, Others
    <2>8. ReviewFits(p)'
      <3>1. /\ at[p] \in 1..Len(plan[p]) /\ \A i \in 1..Len(plan[p]) : plan[p][i] \in Keys
        BY <2>1, KeyIsKey
      <3>2. \A x \in recorded'[p] : x \in Keys /\ tasks'[x] > 0
        BY <2>1, <2>4, <2>7 DEF IInv, ReviewFits, Grows
      <3>3. Key(p)' = k /\ Done(k)'
        BY <2>1, <2>2, <2>4, <2>5 DEF Key, Done
      <3>4. \A i \in 1..(at[p] - 1) : Done(plan[p][i])'
        <4>1. \A x \in Keys : Done(x) => Done(x)'
          BY <2>4 DEF Grows, Done
        <4>2. \A i \in 1..(at[p] - 1) : Done(plan[p][i]) /\ plan[p][i] \in Keys
          BY <2>1, <3>1 DEF IInv, ReviewFits
        <4>3. QED
          BY <2>1, <4>1, <4>2 DEF Done
      <3>5. QED
        BY <2>1, <2>7, <3>1, <3>2, <3>3, <3>4 DEF ReviewFits
    <2>9. SyncFits(p)'
      BY <2>1, <2>4, <2>7 DEF IInv, SyncFits, Grows
    <2>10. QED
      BY <2>4, <2>6, <2>7, <2>8, <2>9, StepFits
  <1>6. CASE Refresh(p)
    <2>1. /\ UNCHANGED <<serverVars, recorded, late, plan, announced, toClose>>
          /\ InReview(p) /\ pc[p] = "refresh" /\ Advance(p)
      BY <1>1, <1>6 DEF Refresh, netVars, InReview
    <2>2. PICK k \in Keys : k = Key(p)
      BY <2>1, KeyIsKey
    <2>3. LateFits' /\ Grows /\ UNCHANGED <<issues, noted, tasks>>
      BY <2>1, SameServers DEF IInv, LateFits, IssuesOf, serverVars
    <2>4. Done(k)'
      BY <2>1, <2>2, <2>3 DEF IInv, ReviewFits, Done, IssuesOf
    <2>5. ReviewFits(p)' /\ SyncFits(p)' /\ Others(p) /\ RunnersFit'
      BY <2>1, <2>2, <2>3, <2>4, AdvanceFits
    <2>6. QED
      BY <2>1, <2>3, <2>5, LocalFits
  <1>7. CASE Notify(p)
    <2>1. /\ UNCHANGED <<serverVars, late, toClose>> /\ pc[p] = "notify" /\ pc'[p] = "idle"
          /\ announced' = announced \union {plan[p][i] : i \in DOMAIN plan[p]}
      BY <1>1, <1>7 DEF Notify, Answered, netVars, IInv, RunnersFit
    <2>2. LateFits' /\ Grows /\ ServersFit' /\ ClosedIsNoted' /\ UNCHANGED <<issues, noted, tasks>>
      BY <2>1, SameServers DEF IInv, LateFits, IssuesOf, serverVars, ClosedIsNoted
    <2>3. \A i \in DOMAIN plan[p] : Done(plan[p][i]) /\ plan[p][i] \in Keys
      <3>1. plan[p] \in Seq(Keys) /\ DOMAIN plan[p] = 1..Len(plan[p])
        BY DEF IInv, RunnersFit
      <3>2. /\ at[p] = Len(plan[p]) /\ Done(plan[p][at[p]]) /\ at[p] \in 1..Len(plan[p])
            /\ \A i \in 1..(at[p] - 1) : Done(plan[p][i])
        BY <2>1 DEF IInv, ReviewFits, Key
      <3>3. QED
        BY <3>1, <3>2
    <2>4. AnnouncedIsDone'
      BY <2>1, <2>2, <2>3 DEF IInv, AnnouncedIsDone, Done, IssuesOf
    <2>5. << >> \in Seq(Keys)
      OBVIOUS
    <2>6. RunnersFit' /\ Others(p)
      BY <1>1, <1>7, <2>1, <2>3, <2>5 DEF Notify, Answered, IInv, RunnersFit, Others
    <2>7. ReviewFits(p)' /\ SyncFits(p)'
      BY <2>1, <2>2 DEF IInv, ReviewFits, SyncFits
    <2>8. QED
      BY <2>2, <2>4, <2>6, <2>7, StepFits
  <1>8. QED
    BY <1>2, <1>3, <1>4, <1>5, <1>6, <1>7 DEF StartReview, Review, ReviewStep

----------------------------------------------------------------------------
(* Lost answers, failures, and what happens outside the jobs *)

LEMMA LateOnesFit ==
  ASSUME IInv, NEW p \in Runners, UNCHANGED serverVars,
         late' = late \/ LoseRequest(p)
  PROVE  LateFits'
  <1>1. UNCHANGED <<issues, noted, tasks>>
    BY DEF serverVars
  <1>2. CASE late' = late
    BY <1>1, <1>2 DEF IInv, LateFits, IssuesOf
  <1>3. CASE LoseRequest(p)
    <2>1. /\ pc[p] = "post" => sending[p] \subseteq Keys
          /\ pc[p] = "create" => \A k \in sending[p] : k \in Keys /\ IssuesOf(k) # {}
      BY KeyIsKey DEF IInv, ReviewFits, InReview
    <2>2. late' = late \union {[id |-> lost + 1, kind |-> pc[p], what |-> sending[p]]}
      BY <1>3 DEF LoseRequest
    <2>3. QED
      BY <1>1, <2>1, <2>2 DEF IInv, LateFits, IssuesOf
  <1>4. QED
    BY <1>2, <1>3

LEMMA FailuresKeep ==
  ASSUME IInv, NEW p \in Runners, Repeat(p) \/ Fails(p)
  PROVE  IInv'
  <1>1. UNCHANGED serverVars /\ announced' = announced
    BY DEF Repeat, Fails, Resend, Abort, reviewVars
  <1>2. LateFits'
    BY <1>1, LateOnesFit DEF Repeat, Fails, Resend, Abort
  <1>3. CASE Repeat(p)
    <2>1. UNCHANGED <<issues, noted, tasks, pc, recorded, sending, toClose, plan, at, announced>>
      BY <1>3 DEF Repeat, Resend, reviewVars, serverVars
    <2>2. RunnersFit' /\ Others(p)
      BY <2>1 DEF IInv, RunnersFit, Others
    <2>3. SyncFits(p)' /\ ReviewFits(p)'
      BY <2>1 DEF IInv, SyncFits, ReviewFits, Done, IssuesOf, Key
    <2>4. QED
      BY <1>1, <1>2, <2>2, <2>3, LocalFits
  <1>4. CASE Fails(p)
    <2>1. << >> \in Seq(Keys)
      OBVIOUS
    <2>2. /\ RunnersFit' /\ Others(p) /\ pc'[p] = "idle" /\ toClose'[p] = {}
      BY <1>4, <2>1 DEF Fails, Abort, Answered, IInv, RunnersFit, Others
    <2>3. SyncFits(p)' /\ ReviewFits(p)'
      BY <2>2 DEF SyncFits, ReviewFits
    <2>4. QED
      BY <1>1, <1>2, <2>2, <2>3, LocalFits
  <1>5. QED
    BY <1>3, <1>4

LEMMA EnvironmentKeeps ==
  ASSUME IInv, Environment
  PROVE  IInv'
  <1>1. ASSUME NEW about \in Feedback, OpenIssue(about), UNCHANGED reviewVars
        PROVE  IInv'
    <2>1. /\ issues' = Append(issues, [about |-> about, open |-> TRUE])
          /\ UNCHANGED <<noted, tasks, pc, recorded, sending, late, toClose, plan, at, announced>>
      BY <1>1 DEF OpenIssue, netVars, reviewVars
    <2>2. ServersFit' /\ Grows /\ ClosedIsNoted'
      BY <2>1, IssueAdded DEF IInv
    <2>3. AnnouncedIsDone'
      BY <2>1, <2>2, NothingNewAnnounced DEF IInv, RunnersFit
    <2>4. QED
      BY <2>1, <2>2, <2>3, EnvironmentFits
  <1>2. ASSUME NEW i \in DOMAIN issues, OwnerCloses(i), UNCHANGED toClose
        PROVE  IInv'
    <2>1. /\ issues' = [issues EXCEPT ![i].open = FALSE] /\ issues[i].about \notin Feedback
          /\ UNCHANGED <<noted, tasks, pc, recorded, sending, late, toClose, plan, at, announced>>
      BY <1>2, JobsAssumption DEF OwnerCloses, netVars, reviewVars, Feedback
    <2>2. ServersFit' /\ Grows /\ ClosedIsNoted'
      BY <2>1, IssueClosed DEF IInv
    <2>3. AnnouncedIsDone'
      BY <2>1, <2>2, NothingNewAnnounced DEF IInv, RunnersFit
    <2>4. QED
      BY <2>1, <2>2, <2>3, EnvironmentFits
  <1>3. ASSUME NEW m \in late, ServeLate(m),
               UNCHANGED <<pc, recorded, sending, attempt, lost, faults, toClose, reviewVars>>
        PROVE  IInv'
    <2>1. /\ Execute(m.kind, m.what) /\ late' \subseteq late
          /\ UNCHANGED <<pc, recorded, sending, toClose, plan, at, announced>>
      BY <1>3 DEF ServeLate, reviewVars
    <2>2. /\ m.kind = "post" => m.what \subseteq Keys
          /\ m.kind = "create" => \A k \in m.what : k \in Keys /\ IssuesOf(k) # {}
      BY DEF IInv, LateFits
    <2>3. /\ ServersFit' /\ Grows /\ ClosedIsNoted'
          /\ \A k \in Keys : tasks'[k] > 0 => tasks[k] > 0 \/ (m.kind = "create" /\ k \in m.what)
      BY <2>1, <2>2, ExecuteGrows DEF IInv
    <2>4. AnnouncedIsDone'
      BY <2>1, <2>2, <2>3, NothingNewAnnounced DEF IInv, RunnersFit, Grows
    <2>5. QED
      BY <2>1, <2>3, <2>4, EnvironmentFits
  <1>4. QED
    BY <1>1, <1>2, <1>3 DEF Environment

----------------------------------------------------------------------------

LEMMA IInvAlways == Spec => []IInv
  <1>1. Init => IInv
    <2> SUFFICES ASSUME Init PROVE IInv
      OBVIOUS
    <2>1. << >> \in Seq(Keys) /\ << >> \in Seq(Issue) /\ DOMAIN << >> = {}
      OBVIOUS
    <2>2. ServersFit /\ RunnersFit /\ LateFits
      BY <2>1 DEF Init, JobStateInit, FeedbackInit, ReviewInit, ServersFit, RunnersFit, LateFits
    <2>3. ClosedIsNoted /\ AnnouncedIsDone
      BY <2>1 DEF Init, JobStateInit, ReviewInit, ClosedIsNoted, AnnouncedIsDone
    <2>4. \A p \in Runners : SyncFits(p) /\ ReviewFits(p)
      BY DEF Init, JobStateInit, FeedbackInit, SyncFits, ReviewFits
    <2>5. QED
      BY <2>2, <2>3, <2>4 DEF IInv
  <1>2. ASSUME IInv, [Next]_vars PROVE IInv'
    <2>1. CASE UNCHANGED vars
      <3>1. /\ late' \subseteq late /\ UNCHANGED <<serverVars, announced>>
            /\ UNCHANGED <<pc, recorded, sending, toClose, plan, at, announced>>
        BY <2>1 DEF vars, serverVars
      <3>2. Grows /\ ServersFit' /\ ClosedIsNoted' /\ AnnouncedIsDone'
        BY <1>2, <3>1, SameServers DEF IInv, ClosedIsNoted, AnnouncedIsDone, IssuesOf, serverVars
      <3>3. QED
        BY <1>2, <3>1, <3>2, EnvironmentFits
    <2>2. QED
      BY <1>2, <2>1, SyncKeeps, ReviewKeeps, FailuresKeep, EnvironmentKeeps DEF Next, Job
  <1>3. QED
    BY <1>1, <1>2, PTL DEF Spec

(* No feedback is lost: an issue is closed only with its event in the      *)
(* ledger, however many syncs run at once, fail or are repeated.           *)
THEOREM ClosedIsAlwaysNoted == Spec => []ClosedIsNoted
  <1>1. IInv => ClosedIsNoted
    BY DEF IInv
  <1>2. QED
    BY <1>1, IInvAlways, PTL

(* A task of a review refers to an issue that exists, and a notification   *)
(* names only proposals that have both.                                    *)
THEOREM AnnouncedIsAlwaysDone == Spec => []AnnouncedIsDone
  <1>1. IInv => AnnouncedIsDone
    BY DEF IInv
  <1>2. QED
    BY <1>1, IInvAlways, PTL

----------------------------------------------------------------------------
(* Types *)

Held == (SUBSET Nat) \union (SUBSET Keys)

(* The stations of the runners and what each holds for its next request.   *)
StationsFit ==
  /\ pc \in [Runners -> Places]
  /\ recorded \in [Runners -> Held]
  /\ sending \in [Runners -> Held]
  /\ attempt \in [Runners -> 0..1] /\ toClose \in [Runners -> SUBSET Nat]
  /\ \A p \in Runners : pc[p] = "append" => sending[p] \subseteq Nat
  /\ \A p \in Runners : at[p] \in 0..Len(plan[p])

NotedFits == IsABag(noted) /\ DOMAIN noted \subseteq Nat

NetFits ==
  /\ \A m \in late : /\ m.kind \in Requests /\ m.id \in 1..lost
                     /\ m.kind = "append" => m.what \subseteq Nat
  /\ lost \in 0..faults /\ faults \in 0..MaxFaults
  /\ IsFiniteSet(late) /\ Cardinality(late) <= lost

TInv == StationsFit /\ NotedFits /\ NetFits /\ reviews \in 0..MaxReviews

LEMMA HeldSets ==
  /\ {} \in Held /\ \A S \in SUBSET Nat : S \in Held
  /\ \A S \in SUBSET Keys : S \in Held
  <1>1. SUBSET Nat \subseteq Held /\ SUBSET Keys \subseteq Held
    BY DEF Held
  <1>2. (\A S \in SUBSET Nat : S \in Held) /\ (\A S \in SUBSET Keys : S \in Held)
    BY <1>1
  <1>3. {} \in SUBSET Nat
    OBVIOUS
  <1>4. QED
    BY <1>1, <1>2, <1>3

LEMMA TypesFollow == ASSUME IInv, TInv PROVE TypeOK
  BY DEF IInv, ServersFit, RunnersFit, TInv, StationsFit, NotedFits, NetFits,
         TypeOK, JobStateTypeOK, FeedbackTypeOK, ReviewTypeOK, Issue, Held

LEMMA NotedAdded ==
  ASSUME NotedFits, NEW what \in SUBSET Nat, noted' = noted (+) SetToBag(what)
  PROVE  NotedFits'
  <1>1. DOMAIN noted' = DOMAIN noted \union what
    BY BagGrows
  <1>2. \A i \in DOMAIN noted : noted[i] \in Nat /\ noted[i] > 0
    BY DEF NotedFits, IsABag
  <1>3. \A i \in DOMAIN noted' : noted'[i] \in {n \in Nat : n > 0}
    BY <1>2 DEF SetToBag, (+)
  <1>4. noted' = [i \in DOMAIN noted' |-> noted'[i]]
    BY DEF SetToBag, (+)
  <1>5. QED
    BY <1>1, <1>3, <1>4 DEF NotedFits, IsABag

LEMMA NotedExecuted ==
  ASSUME NotedFits, NEW kind, NEW what, Execute(kind, what),
         kind = "append" => what \subseteq Nat
  PROVE  NotedFits'
  <1>1. CASE kind = "append"
    BY <1>1, NotedAdded DEF Execute
  <1>2. CASE kind # "append"
    BY <1>2 DEF Execute, NotedFits
  <1>3. QED
    BY <1>1, <1>2

LEMMA SentFits ==
  ASSUME StationsFit, NEW p \in Runners, NEW kind \in Requests,
         NEW what \in Held, kind = "append" => what \subseteq Nat,
         Send(p, kind, what), UNCHANGED <<plan, at, recorded>>, toClose' \in [Runners -> SUBSET Nat]
  PROVE  StationsFit'
  <1>1. kind \in Places
    BY DEF Places
  <1>2. sending \in [Runners -> Held] /\ recorded \in [Runners -> Held]
    BY DEF StationsFit
  <1>3. /\ pc' \in [Runners -> Places] /\ sending' \in [Runners -> Held]
        /\ attempt' \in [Runners -> 0..1] /\ recorded' \in [Runners -> Held]
    BY <1>1, <1>2 DEF StationsFit, Send
  <1>4. \A q \in Runners : pc'[q] = "append" => sending'[q] \subseteq Nat
    BY DEF StationsFit, Send
  <1>5. \A q \in Runners : at'[q] \in 0..Len(plan'[q])
    BY DEF StationsFit
  <1>6. QED
    BY <1>3, <1>4, <1>5 DEF StationsFit

LEMMA AnsweredFits ==
  ASSUME StationsFit, NEW p \in Runners, NEW next \in Places \ {"append"}, Answered(p, next),
         recorded' \in [Runners -> Held],
         toClose' \in [Runners -> SUBSET Nat],
         \A q \in Runners : at'[q] \in 0..Len(plan'[q])
  PROVE  StationsFit'
  <1>1. {} \in Held /\ sending \in [Runners -> Held]
    BY HeldSets DEF StationsFit
  <1>2. /\ pc' \in [Runners -> Places] /\ sending' \in [Runners -> Held]
        /\ attempt' \in [Runners -> 0..1]
    BY <1>1 DEF StationsFit, Answered
  <1>3. \A q \in Runners : pc'[q] = "append" => sending'[q] \subseteq Nat
    BY DEF StationsFit, Answered
  <1>4. QED
    BY <1>2, <1>3 DEF StationsFit

LEMMA LostFits ==
  ASSUME NetFits, StationsFit, NEW p \in Runners, pc[p] \in Requests, Fault, LoseRequest(p)
  PROVE  NetFits'
  <1> DEFINE m == [id |-> lost + 1, kind |-> pc[p], what |-> sending[p]]
  <1>1. late' = late \union {m} /\ lost' = lost + 1 /\ faults' = faults + 1 /\ faults < MaxFaults
    BY DEF LoseRequest, Fault
  <1>2. lost \in Nat /\ faults \in Nat /\ lost <= faults /\ MaxFaults \in Nat
    BY JobsAssumption DEF NetFits
  <1>3. lost' \in 0..faults' /\ faults' \in 0..MaxFaults
    BY <1>1, <1>2
  <1>4. m.kind \in Requests /\ m.id \in 1..lost' /\ (m.kind = "append" => m.what \subseteq Nat)
    BY <1>1, <1>2 DEF StationsFit
  <1>5. \A r \in late : r.kind \in Requests /\ r.id \in 1..lost' /\ (r.kind = "append" => r.what \subseteq Nat)
    BY <1>1, <1>2 DEF NetFits
  <1>6. IsFiniteSet(late') /\ Cardinality(late') <= lost'
    <2>1. IsFiniteSet(late) /\ Cardinality(late) \in Nat /\ Cardinality(late) <= lost
      BY FS_CardinalityType DEF NetFits
    <2>2. IsFiniteSet(late') /\ (Cardinality(late') = Cardinality(late) \/ Cardinality(late') = Cardinality(late) + 1)
      BY <1>1, <2>1, FS_AddElement
    <2>3. QED
      BY <1>1, <1>2, <2>1, <2>2
  <1>7. QED
    BY <1>1, <1>3, <1>4, <1>5, <1>6 DEF NetFits

LEMMA NetKept == ASSUME NetFits, UNCHANGED netVars PROVE NetFits'
  BY DEF NetFits, netVars

LEMMA FaultFits == ASSUME NetFits, Fault, UNCHANGED <<late, lost>> PROVE NetFits'
  BY JobsAssumption DEF NetFits, Fault

LEMMA PagesAreNumbers ==
  ASSUME IInv
  PROVE  DOMAIN issues \subseteq Nat /\ FirstPage \subseteq DOMAIN issues
  BY DEF IInv, ServersFit, FirstPage, OpenIssues

LEMMA SyncTyped ==
  ASSUME IInv, TInv, NEW p \in Runners, StartSync(p) \/ Sync(p)
  PROVE  TInv'
  <1>1. /\ UNCHANGED reviewVars /\ StationsFit /\ NotedFits /\ NetFits
        /\ reviews' \in 0..MaxReviews /\ UNCHANGED <<plan, at>>
        /\ \A q \in Runners : at'[q] \in 0..Len(plan'[q])
    BY DEF StartSync, Sync, reviewVars, TInv, StationsFit
  <1>2. CASE BeginSync(p)
    <2>1. DOMAIN noted \in SUBSET Nat
      BY <1>1 DEF NotedFits
    <2>2. StationsFit'
      BY <1>1, <1>2, <2>1, HeldSets DEF BeginSync, StationsFit, Places, BagToSet
    <2>3. NotedFits' /\ NetFits'
      BY <1>1, <1>2, NetKept DEF BeginSync, serverVars, NotedFits
    <2>4. QED
      BY <1>1, <2>2, <2>3 DEF TInv
  <1>3. CASE List(p)
    <2>1. Importable(p) \subseteq Nat /\ FirstPage \subseteq Nat
      BY PagesAreNumbers DEF Importable
    <2>2. toClose' \in [Runners -> SUBSET Nat]
      BY <1>1, <1>3, <2>1 DEF List, StationsFit
    <2>3. UNCHANGED recorded /\ recorded' \in [Runners -> Held]
      BY <1>1, <1>3 DEF List, StationsFit
    <2>4. StationsFit'
      <3>1. CASE Importable(p) = {}
        BY <1>1, <1>3, <2>2, <2>3, <3>1, AnsweredFits DEF List, Places
      <3>2. CASE Importable(p) # {}
        BY <1>1, <1>3, <2>1, <2>2, <2>3, <3>2, HeldSets, SentFits DEF List, Requests
      <3>3. QED
        BY <3>1, <3>2
    <2>5. NotedFits' /\ NetFits'
      BY <1>1, <1>3, NetKept DEF List, serverVars, NotedFits
    <2>6. QED
      BY <1>1, <2>4, <2>5 DEF TInv
  <1>4. CASE ListFails(p)
    <2>1. StationsFit'
      BY <1>1, <1>4, AnsweredFits DEF ListFails, StationsFit, Places
    <2>2. NotedFits' /\ NetFits'
      BY <1>1, <1>4, FaultFits DEF ListFails, serverVars, NotedFits
    <2>3. QED
      BY <1>1, <2>1, <2>2 DEF TInv
  <1>5. CASE AppendEvents(p)
    <2>1. StationsFit'
      BY <1>1, <1>5, AnsweredFits DEF AppendEvents, StationsFit, Places
    <2>2. NotedFits'
      BY <1>1, <1>5, NotedExecuted DEF AppendEvents, StationsFit
    <2>3. QED
      BY <1>1, <1>5, <2>1, <2>2, NetKept DEF AppendEvents, TInv
  <1>6. CASE Rebuild(p) \/ EndSync(p)
    <2>1. /\ UNCHANGED <<noted, toClose, netVars>>
          /\ recorded' \in [Runners -> Held]
          /\ Answered(p, "close") \/ Answered(p, "idle")
      BY <1>1, <1>6, HeldSets DEF Rebuild, EndSync, StationsFit, serverVars
    <2>2. StationsFit'
      BY <1>1, <2>1, AnsweredFits DEF StationsFit, Places
    <2>3. QED
      BY <1>1, <2>1, <2>2, NetKept DEF TInv, NotedFits
  <1>7. CASE CloseNext(p)
    <2>1. /\ UNCHANGED <<noted, pc, recorded, sending, attempt, late, lost>>
          /\ UNCHANGED faults \/ Fault
          /\ \E i \in toClose[p] : toClose' = [toClose EXCEPT ![p] = @ \ {i}]
      BY <1>7 DEF CloseNext
    <2>2. StationsFit'
      BY <1>1, <2>1 DEF StationsFit
    <2>3. NetFits'
      BY <1>1, <2>1, NetKept, FaultFits DEF netVars
    <2>4. QED
      BY <1>1, <2>1, <2>2, <2>3 DEF TInv, NotedFits
  <1>8. QED
    BY <1>2, <1>3, <1>4, <1>5, <1>6, <1>7 DEF StartSync, Sync, SyncStep

LEMMA AdvanceTyped ==
  ASSUME IInv, StationsFit, NEW p \in Runners, InReview(p), Advance(p),
         UNCHANGED <<plan, toClose>>, recorded' \in [Runners -> Held]
  PROVE  StationsFit'
  <1>1. DOMAIN at = Runners /\ at[p] \in 1..Len(plan[p]) /\ Len(plan[p]) \in Nat
    BY KeyIsKey DEF IInv, RunnersFit
  <1>2. \A q \in Runners : at'[q] \in 0..Len(plan'[q])
    BY <1>1 DEF Advance, StationsFit
  <1>3. Answered(p, "find") \/ Answered(p, "notify")
    BY DEF Advance
  <1>4. QED
    BY <1>2, <1>3, AnsweredFits DEF StationsFit, Places

LEMMA HasIssueTyped ==
  ASSUME IInv, StationsFit, NEW p \in Runners, InReview(p), HasIssue(p),
         UNCHANGED <<plan, toClose, recorded>>
  PROVE  StationsFit'
  <1>1. CASE Key(p) \in recorded[p]
    BY <1>1, AdvanceTyped DEF HasIssue, StationsFit
  <1>2. CASE Key(p) \notin recorded[p]
    <2>1. {Key(p)} \in Held
      BY KeyIsKey, HeldSets
    <2>2. QED
      BY <1>2, <2>1, SentFits DEF HasIssue, StationsFit, Requests
  <1>3. QED
    BY <1>1, <1>2

LEMMA ReviewTyped ==
  ASSUME IInv, TInv, NEW p \in Runners, StartReview(p) \/ Review(p)
  PROVE  TInv'
  <1>1. /\ UNCHANGED toClose /\ StationsFit /\ NotedFits /\ NetFits /\ reviews \in 0..MaxReviews
        /\ toClose' \in [Runners -> SUBSET Nat]
    BY DEF StartReview, Review, TInv, StationsFit
  <1>2. CASE BeginReview(p)
    <2>1. PICK n \in 1..MaxProposals : \E keys \in [1..n -> Keys] : plan' = [plan EXCEPT ![p] = keys]
      BY <1>2 DEF BeginReview
    <2>2. PICK keys \in [1..n -> Keys] : plan' = [plan EXCEPT ![p] = keys]
      BY <2>1
    <2>3. n \in Nat /\ 1 <= n /\ Len(keys) = n
      BY <2>1, <2>2, JobsAssumption
    <2>4. DOMAIN at = Runners /\ DOMAIN plan = Runners
      BY DEF IInv, RunnersFit
    <2>5. \A q \in Runners : at'[q] \in 0..Len(plan'[q])
      BY <1>1, <1>2, <2>2, <2>3, <2>4 DEF BeginReview, StationsFit
    <2>6. recorded' \in [Runners -> Held]
      <3>1. {k \in Keys : tasks[k] > 0} \in Held /\ recorded \in [Runners -> Held]
        BY <1>1, HeldSets DEF StationsFit
      <3>2. recorded' = [recorded EXCEPT ![p] = {k \in Keys : tasks[k] > 0}]
        BY <1>2 DEF BeginReview
      <3>3. QED
        BY <3>1, <3>2
    <2>7. StationsFit'
      BY <1>1, <1>2, <2>5, <2>6, AnsweredFits DEF BeginReview, Places
    <2>8. reviews' \in 0..MaxReviews
      BY <1>1, <1>2, JobsAssumption DEF BeginReview
    <2>9. NotedFits' /\ NetFits'
      BY <1>1, <1>2, NetKept DEF BeginReview, serverVars, NotedFits
    <2>10. QED
      BY <2>7, <2>8, <2>9 DEF TInv
  <1>3. CASE Find(p)
    <2>1. InReview(p) /\ UNCHANGED <<serverVars, recorded, netVars, plan, reviews>>
      BY <1>3 DEF Find, InReview
    <2>2. CASE HasIssue(p)
      BY <1>1, <2>1, <2>2, HasIssueTyped, NetKept DEF TInv, NotedFits, serverVars
    <2>3. CASE Send(p, "post", {Key(p)}) /\ UNCHANGED at
      <3>1. StationsFit'
        <4>1. {Key(p)} \in Held
          BY <2>1, KeyIsKey, HeldSets
        <4>2. QED
          BY <1>1, <2>1, <2>3, <4>1, SentFits DEF Requests
      <3>2. QED
        BY <1>1, <2>1, <3>1, NetKept DEF TInv, NotedFits, serverVars
    <2>4. QED
      BY <1>3, <2>2, <2>3 DEF Find
  <1>4. CASE PostIssue(p)
    <2>1. /\ InReview(p) /\ UNCHANGED <<noted, recorded, netVars, plan, reviews>> /\ HasIssue(p)
      BY <1>4 DEF PostIssue, InReview, Execute
    <2>2. QED
      BY <1>1, <2>1, HasIssueTyped, NetKept DEF TInv, NotedFits
  <1>5. CASE CreateTask(p)
    <2>1. /\ InReview(p) /\ UNCHANGED <<noted, netVars, plan, at, reviews>> /\ Answered(p, "refresh")
      BY <1>5 DEF CreateTask, InReview, Execute, reviewVars
    <2>2. recorded[p] \subseteq Keys /\ Key(p) \in Keys
      BY <2>1, KeyIsKey DEF IInv, ReviewFits, InReview
    <2>3. recorded' \in [Runners -> Held]
      <3>1. (recorded[p] \union {Key(p)}) \in Held /\ recorded \in [Runners -> Held]
        BY <1>1, <2>2, HeldSets DEF StationsFit
      <3>2. recorded' = [recorded EXCEPT ![p] = recorded[p] \union {Key(p)}]
        BY <1>5 DEF CreateTask
      <3>3. QED
        BY <3>1, <3>2
    <2>4. StationsFit'
      BY <1>1, <2>1, <2>3, AnsweredFits DEF StationsFit, Places
    <2>5. QED
      BY <1>1, <2>1, <2>4, NetKept DEF TInv, NotedFits
  <1>6. CASE Refresh(p)
    <2>1. InReview(p) /\ UNCHANGED <<serverVars, recorded, netVars, plan, reviews>> /\ Advance(p)
      BY <1>6 DEF Refresh, InReview
    <2>2. StationsFit'
      BY <1>1, <2>1, AdvanceTyped DEF StationsFit
    <2>3. QED
      BY <1>1, <2>1, <2>2, NetKept DEF TInv, NotedFits, serverVars
  <1>7. CASE Notify(p)
    <2>1. \A q \in Runners : at'[q] \in 0..Len(plan'[q])
      BY <1>1, <1>7 DEF Notify, StationsFit, IInv, RunnersFit
    <2>2. recorded' \in [Runners -> Held]
      BY <1>1, <1>7, HeldSets DEF Notify, StationsFit
    <2>3. StationsFit'
      BY <1>1, <1>7, <2>1, <2>2, AnsweredFits DEF Notify, Places
    <2>4. QED
      BY <1>1, <1>7, <2>3, NetKept DEF Notify, TInv, NotedFits, serverVars
  <1>8. QED
    BY <1>2, <1>3, <1>4, <1>5, <1>6, <1>7 DEF StartReview, Review, ReviewStep

LEMMA FailuresTyped ==
  ASSUME IInv, TInv, NEW p \in Runners, Repeat(p) \/ Fails(p)
  PROVE  TInv'
  <1>1. StationsFit /\ NotedFits /\ NetFits /\ UNCHANGED <<noted, reviews>> /\ NotedFits'
    BY DEF TInv, Repeat, Fails, Resend, Abort, serverVars, reviewVars, NotedFits
  <1>2. CASE Repeat(p)
    <2>1. StationsFit'
      BY <1>1, <1>2 DEF Repeat, Resend, reviewVars, StationsFit
    <2>2. NetFits'
      BY <1>1, <1>2, LostFits DEF Repeat, Resend
    <2>3. QED
      BY <1>1, <2>1, <2>2 DEF TInv
  <1>3. CASE Fails(p)
    <2>1. /\ Answered(p, "idle") /\ recorded' \in [Runners -> Held]
          /\ toClose' \in [Runners -> SUBSET Nat]
      BY <1>1, <1>3, HeldSets DEF Fails, Abort, StationsFit
    <2>2. \A q \in Runners : at'[q] \in 0..Len(plan'[q])
      BY <1>1, <1>3 DEF Fails, StationsFit, IInv, RunnersFit
    <2>3. StationsFit'
      BY <1>1, <2>1, <2>2, AnsweredFits DEF Places
    <2>4. NetFits'
      BY <1>1, <1>3, LostFits, FaultFits DEF Fails, Abort
    <2>5. QED
      BY <1>1, <2>3, <2>4 DEF TInv
  <1>4. QED
    BY <1>2, <1>3

LEMMA EnvironmentTyped ==
  ASSUME IInv, TInv, Environment
  PROVE  TInv'
  <1>1. ASSUME NEW about \in Feedback, OpenIssue(about), UNCHANGED reviewVars
        PROVE  TInv'
    BY <1>1, NetKept DEF OpenIssue, netVars, reviewVars, TInv, StationsFit, NotedFits
  <1>2. ASSUME NEW i \in DOMAIN issues, OwnerCloses(i), UNCHANGED toClose
        PROVE  TInv'
    BY <1>2, NetKept DEF OwnerCloses, netVars, reviewVars, TInv, StationsFit, NotedFits
  <1>3. ASSUME NEW m \in late, ServeLate(m),
               UNCHANGED <<pc, recorded, sending, attempt, lost, faults, toClose, reviewVars>>
        PROVE  TInv'
    <2>1. StationsFit' /\ reviews' \in 0..MaxReviews
      BY <1>3 DEF reviewVars, TInv, StationsFit
    <2>2. NotedFits'
      BY <1>3, NotedExecuted DEF ServeLate, TInv, NetFits
    <2>3. late' = late \ {m} /\ IsFiniteSet(late) /\ Cardinality(late) <= lost
      BY <1>3 DEF ServeLate, TInv, NetFits
    <2>4. IsFiniteSet(late') /\ Cardinality(late') <= lost'
      <3>1. /\ Cardinality(late) \in Nat /\ IsFiniteSet(late')
            /\ Cardinality(late') = Cardinality(late) - 1
        BY <2>3, FS_RemoveElement, FS_CardinalityType
      <3>2. QED
        BY <1>3, <2>3, <3>1 DEF TInv, NetFits
    <2>5. NetFits'
      BY <1>3, <2>3, <2>4 DEF TInv, NetFits
    <2>6. QED
      BY <2>1, <2>2, <2>5 DEF TInv
  <1>4. QED
    BY <1>1, <1>2, <1>3 DEF Environment

LEMMA TInvAlways == Spec => []TInv
  <1>1. Init => TInv
    <2> SUFFICES ASSUME Init PROVE TInv
      OBVIOUS
    <2>1. Len(<< >>) = 0 /\ DOMAIN << >> = {}
      OBVIOUS
    <2>2. StationsFit
      BY <2>1, HeldSets DEF Init, JobStateInit, FeedbackInit, ReviewInit, StationsFit, Places
    <2>3. NotedFits
      BY DEF Init, JobStateInit, NotedFits, IsABag, EmptyBag, SetToBag
    <2>4. NetFits
      BY FS_EmptySet, JobsAssumption DEF Init, JobStateInit, NetFits
    <2>5. QED
      BY <2>2, <2>3, <2>4, JobsAssumption DEF Init, ReviewInit, TInv
  <1>2. ASSUME IInv, TInv, [Next]_vars PROVE TInv'
    <2>1. CASE UNCHANGED vars
      BY <1>2, <2>1 DEF vars, TInv, StationsFit, NotedFits, NetFits
    <2>2. QED
      BY <1>2, <2>1, SyncTyped, ReviewTyped, FailuresTyped, EnvironmentTyped DEF Next, Job
  <1>3. QED
    BY <1>1, <1>2, IInvAlways, PTL DEF Spec

(* What jobs, servers and network hold keeps its type, in particular the   *)
(* position in the plan of a review and the numbers a sync collects.       *)
THEOREM JobTypes == Spec => []TypeOK
  BY IInvAlways, TInvAlways, TypesFollow, PTL

----------------------------------------------------------------------------
(* Copies *)

(* Every effect has an account: the copies made, the late requests that    *)
(* may still make one, and the runners that may still send for it, who     *)
(* have looked before there was a first copy.  It never exceeds one for    *)
(* each runner and one for each lost answer.                               *)
Within(copies, waiting, senders, lostOnes) ==
  copies + Cardinality(waiting) + Cardinality(senders) <= Cardinality(Runners) + lostOnes

NoteCopies(i) == IF i \in DOMAIN noted THEN noted[i] ELSE 0
Waiting(kind, x) == {m \in late : m.kind = kind /\ x \in m.what}

MayNote(p, i) ==
  \/ pc[p] = "append" /\ i \in sending[p]
  \/ pc[p] = "list" /\ i \notin recorded[p]
MayPost(p, k) == pc[p] = "post" /\ k \in sending[p]
MayCreate(p, k) ==
  pc[p] \in {"find", "post", "create", "refresh", "notify"} /\ k \notin recorded[p]

NoteSenders(i) == {p \in Runners : MayNote(p, i)}
PostSenders(k) == {p \in Runners : MayPost(p, k)}
CreateSenders(k) == {p \in Runners : MayCreate(p, k)}

NotesCounted ==
  \A i \in Nat : Within(NoteCopies(i), Waiting("append", i), NoteSenders(i), lost)
IssuesCounted ==
  \A k \in Keys : Within(Cardinality(IssuesOf(k)), Waiting("post", k), PostSenders(k), lost)
TasksCounted ==
  \A k \in Keys : Within(tasks[k], Waiting("create", k), CreateSenders(k), lost)

CreatesUnrecorded == \A p \in Runners : pc[p] = "create" => Key(p) \notin recorded[p]

Accounts == NotesCounted /\ IssuesCounted /\ TasksCounted

LEMMA SetsShrink ==
  ASSUME NEW S, NEW T, IsFiniteSet(S), T \subseteq S
  PROVE  /\ IsFiniteSet(T) /\ Cardinality(T) \in Nat /\ Cardinality(S) \in Nat
         /\ Cardinality(T) <= Cardinality(S)
         /\ \A x \in S : x \notin T => Cardinality(T) + 1 <= Cardinality(S)
  <1>1. /\ IsFiniteSet(T) /\ Cardinality(T) \in Nat /\ Cardinality(S) \in Nat
        /\ Cardinality(T) <= Cardinality(S) /\ (Cardinality(S) = Cardinality(T) => S = T)
    BY FS_Subset, FS_CardinalityType
  <1>2. QED
    BY <1>1

(* Before the first copy nothing is owed but lost requests and senders. *)
LEMMA NothingYet ==
  ASSUME NEW W, IsFiniteSet(W), NEW S, S \subseteq Runners,
         NEW l \in Nat, Cardinality(W) <= l
  PROVE  Within(0, W, S, l)
  <1>1. IsFiniteSet(Runners)
    BY JobsAssumption
  <1>2. Cardinality(S) \in Nat /\ Cardinality(Runners) \in Nat /\ Cardinality(S) <= Cardinality(Runners)
    BY <1>1, SetsShrink
  <1>3. Cardinality(W) \in Nat
    BY FS_CardinalityType
  <1>4. QED
    BY <1>2, <1>3 DEF Within

(* A copy is made by a sender who is then done, or by a late request. *)
LEMMA SenderServed ==
  ASSUME NEW n \in Nat, NEW W, IsFiniteSet(W), NEW S, S \subseteq Runners,
         NEW l \in Nat, Within(n, W, S, l), NEW T, T \subseteq S,
         NEW m \in Nat, m = n \/ (m = n + 1 /\ \E p \in S : p \notin T)
  PROVE  Within(m, W, T, l)
  <1>1. IsFiniteSet(S) /\ IsFiniteSet(Runners) /\ Cardinality(Runners) \in Nat /\ Cardinality(W) \in Nat
    BY JobsAssumption, FS_Subset, FS_CardinalityType
  <1>2. /\ Cardinality(T) \in Nat /\ Cardinality(S) \in Nat /\ Cardinality(T) <= Cardinality(S)
        /\ m = n + 1 => Cardinality(T) + 1 <= Cardinality(S) \/ m = n
    BY <1>1, SetsShrink
  <1>3. QED
    BY <1>1, <1>2 DEF Within

LEMMA LateServed ==
  ASSUME NEW n \in Nat, NEW W, IsFiniteSet(W), NEW S, S \subseteq Runners,
         NEW l \in Nat, Within(n, W, S, l), NEW V, V \subseteq W,
         NEW m \in Nat, m = n \/ (m = n + 1 /\ \E r \in W : r \notin V)
  PROVE  Within(m, V, S, l)
  <1>1. IsFiniteSet(S) /\ IsFiniteSet(Runners) /\ Cardinality(Runners) \in Nat /\ Cardinality(S) \in Nat
    BY JobsAssumption, FS_Subset, FS_CardinalityType
  <1>2. /\ Cardinality(V) \in Nat /\ Cardinality(W) \in Nat /\ Cardinality(V) <= Cardinality(W)
        /\ m = n + 1 => Cardinality(V) + 1 <= Cardinality(W) \/ m = n
    BY SetsShrink
  <1>3. QED
    BY <1>1, <1>2 DEF Within

LEMMA OneMoreLost ==
  ASSUME NEW n \in Nat, NEW W, IsFiniteSet(W), NEW S, S \subseteq Runners,
         NEW l \in Nat, Within(n, W, S, l), NEW T, T \subseteq S,
         NEW r, NEW V, V \subseteq W \union {r}
  PROVE  Within(n, V, T, l + 1)
  <1>1. Within(n, W, T, l) /\ T \subseteq Runners
    BY SenderServed
  <1>2. IsFiniteSet(T) /\ IsFiniteSet(Runners) /\ Cardinality(Runners) \in Nat /\ Cardinality(T) \in Nat
    BY JobsAssumption, FS_Subset, FS_CardinalityType
  <1>3. /\ IsFiniteSet(W \union {r}) /\ Cardinality(W) \in Nat
        /\ Cardinality(W \union {r}) = Cardinality(W) \/ Cardinality(W \union {r}) = Cardinality(W) + 1
    BY FS_AddElement, FS_CardinalityType
  <1>4. Cardinality(V) \in Nat /\ Cardinality(V) <= Cardinality(W \union {r})
    BY <1>3, SetsShrink
  <1>5. QED
    BY <1>1, <1>2, <1>3, <1>4 DEF Within

(* The parts of an account. *)
LEMMA AccountParts ==
  ASSUME IInv, TInv
  PROVE  /\ lost \in Nat /\ IsFiniteSet(late) /\ Cardinality(late) <= lost
         /\ \A kind, x : IsFiniteSet(Waiting(kind, x)) /\ Cardinality(Waiting(kind, x)) <= lost
         /\ \A x : /\ NoteSenders(x) \subseteq Runners /\ PostSenders(x) \subseteq Runners
                   /\ CreateSenders(x) \subseteq Runners
         /\ \A i \in Nat : NoteCopies(i) \in Nat
         /\ \A k \in Keys : /\ tasks[k] \in Nat
                            /\ IsFiniteSet(IssuesOf(k)) /\ Cardinality(IssuesOf(k)) \in Nat
  <1>1. lost \in Nat /\ IsFiniteSet(late) /\ Cardinality(late) <= lost /\ Cardinality(late) \in Nat
    BY FS_CardinalityType, JobsAssumption DEF TInv, NetFits
  <1>2. ASSUME NEW kind, NEW x
        PROVE  IsFiniteSet(Waiting(kind, x)) /\ Cardinality(Waiting(kind, x)) <= lost
    <2>1. Waiting(kind, x) \subseteq late
      BY DEF Waiting
    <2>2. QED
      BY <1>1, <2>1, SetsShrink
  <1>3. ASSUME NEW x
        PROVE  /\ NoteSenders(x) \subseteq Runners /\ PostSenders(x) \subseteq Runners
               /\ CreateSenders(x) \subseteq Runners
    BY DEF NoteSenders, PostSenders, CreateSenders
  <1>4. \A i \in Nat : NoteCopies(i) \in Nat
    BY DEF NoteCopies, TInv, NotedFits, IsABag
  <1>5. ASSUME NEW k \in Keys
        PROVE  tasks[k] \in Nat /\ IsFiniteSet(IssuesOf(k)) /\ Cardinality(IssuesOf(k)) \in Nat
    <2>1. tasks[k] \in Nat /\ Len(issues) \in Nat /\ IssuesOf(k) \subseteq 1..Len(issues)
      BY DEF IInv, ServersFit, IssuesOf
    <2>2. IsFiniteSet(1..Len(issues))
      BY <2>1, FS_Interval
    <2>3. QED
      BY <2>1, <2>2, SetsShrink
  <1>6. QED
    BY <1>1, <1>2, <1>3, <1>4, <1>5

----------------------------------------------------------------------------
(* The steps of a runner *)

Still(p) ==
  \A q \in Runners \ {p} :
     pc'[q] = pc[q] /\ recorded'[q] = recorded[q] /\ sending'[q] = sending[q]

LEMMA SendersShrink ==
  ASSUME NEW p \in Runners, Still(p)
  PROVE  /\ \A i : (MayNote(p, i)' => MayNote(p, i)) => NoteSenders(i)' \subseteq NoteSenders(i)
         /\ \A k : (MayPost(p, k)' => MayPost(p, k)) => PostSenders(k)' \subseteq PostSenders(k)
         /\ \A k : (MayCreate(p, k)' => MayCreate(p, k)) =>
                      CreateSenders(k)' \subseteq CreateSenders(k)
  BY DEF Still, NoteSenders, PostSenders, CreateSenders, MayNote, MayPost, MayCreate

LEMMA ClosingKeepsIssues ==
  ASSUME ServersFit, NEW i \in DOMAIN issues, issues' = [issues EXCEPT ![i].open = FALSE]
  PROVE  \A k \in Keys : IssuesOf(k)' = IssuesOf(k)
  <1>1. issues[i] \in Issue
    BY DEF ServersFit
  <1>2. PICK closed \in Issue :
          closed.about = issues[i].about /\ issues' = [issues EXCEPT ![i] = closed]
    BY <1>1, ClosedIssue
  <1>3. QED
    BY <1>2, IssueReplaced DEF IssuesOf

LEMMA LocalAccounts ==
  ASSUME IInv, TInv, IInv', TInv', Accounts, NEW p \in Runners, Still(p),
         UNCHANGED <<noted, tasks, late, lost>>,
         \A k \in Keys : IssuesOf(k)' = IssuesOf(k),
         \A i \in DOMAIN noted : MayNote(p, i)' => MayNote(p, i),
         \A k \in Keys : IssuesOf(k) # {} => (MayPost(p, k)' => MayPost(p, k)),
         \A k \in Keys : tasks[k] > 0 => (MayCreate(p, k)' => MayCreate(p, k))
  PROVE  Accounts'
  <1>1. \A kind, x : Waiting(kind, x)' = Waiting(kind, x)
    BY DEF Waiting
  <1>2. ASSUME NEW i \in Nat
        PROVE  Within(NoteCopies(i), Waiting("append", i), NoteSenders(i), lost)'
    <2>1. NoteCopies(i)' = NoteCopies(i)
      BY DEF NoteCopies
    <2>2. CASE i \in DOMAIN noted
      <3>1. NoteSenders(i)' \subseteq NoteSenders(i)
        BY <2>2, SendersShrink
      <3>2. Within(NoteCopies(i), Waiting("append", i), NoteSenders(i)', lost)
        BY <3>1, AccountParts, SenderServed DEF Accounts, NotesCounted
      <3>3. QED
        BY <1>1, <2>1, <3>2 DEF Within
    <2>3. CASE i \notin DOMAIN noted
      <3>1. NoteCopies(i) = 0 /\ NoteSenders(i)' \subseteq Runners
        BY <2>3, AccountParts DEF NoteCopies, NoteSenders
      <3>2. Within(0, Waiting("append", i), NoteSenders(i)', lost)
        BY <3>1, AccountParts, NothingYet
      <3>3. QED
        BY <1>1, <2>1, <3>1, <3>2 DEF Within
    <2>4. QED
      BY <2>2, <2>3
  <1>3. ASSUME NEW k \in Keys
        PROVE  Within(Cardinality(IssuesOf(k)), Waiting("post", k), PostSenders(k), lost)'
    <2>1. IssuesOf(k)' = IssuesOf(k) /\ Cardinality(IssuesOf(k)) \in Nat
      BY AccountParts
    <2>2. CASE IssuesOf(k) # {}
      <3>1. PostSenders(k)' \subseteq PostSenders(k)
        BY <2>2, SendersShrink
      <3>2. Within(Cardinality(IssuesOf(k)), Waiting("post", k), PostSenders(k)', lost)
        BY <3>1, AccountParts, SenderServed DEF Accounts, IssuesCounted
      <3>3. QED
        BY <1>1, <2>1, <3>2 DEF Within
    <2>3. CASE IssuesOf(k) = {}
      <3>1. Cardinality(IssuesOf(k)) = 0 /\ PostSenders(k)' \subseteq Runners
        BY <2>3, FS_EmptySet DEF PostSenders
      <3>2. Within(0, Waiting("post", k), PostSenders(k)', lost)
        BY <3>1, AccountParts, NothingYet
      <3>3. QED
        BY <1>1, <2>1, <3>1, <3>2 DEF Within
    <2>4. QED
      BY <2>2, <2>3
  <1>4. ASSUME NEW k \in Keys
        PROVE  Within(tasks[k], Waiting("create", k), CreateSenders(k), lost)'
    <2>1. tasks[k] \in Nat
      BY AccountParts
    <2>2. CASE tasks[k] > 0
      <3>1. CreateSenders(k)' \subseteq CreateSenders(k)
        BY <2>2, SendersShrink
      <3>2. Within(tasks[k], Waiting("create", k), CreateSenders(k)', lost)
        BY <3>1, AccountParts, SenderServed DEF Accounts, TasksCounted
      <3>3. QED
        BY <1>1, <3>2 DEF Within
    <2>3. CASE tasks[k] = 0
      <3>1. CreateSenders(k)' \subseteq Runners
        BY DEF CreateSenders
      <3>2. Within(0, Waiting("create", k), CreateSenders(k)', lost)
        BY <3>1, AccountParts, NothingYet
      <3>3. QED
        BY <1>1, <2>3, <3>2 DEF Within
    <2>4. QED
      BY <2>1, <2>2, <2>3
  <1>5. QED
    BY <1>2, <1>3, <1>4 DEF Accounts, NotesCounted, IssuesCounted, TasksCounted

(* What a server does adds at most one copy, and only to what was asked. *)
LEMMA CopiesMade ==
  ASSUME IInv, TInv, NEW kind, NEW what, Execute(kind, what)
  PROVE  /\ \A i \in Nat : \/ NoteCopies(i)' = NoteCopies(i)
                           \/ /\ kind = "append" /\ i \in what
                              /\ NoteCopies(i)' = NoteCopies(i) + 1
         /\ \A k \in Keys : \/ Cardinality(IssuesOf(k))' = Cardinality(IssuesOf(k))
                            \/ /\ kind = "post" /\ k \in what
                               /\ Cardinality(IssuesOf(k))' = Cardinality(IssuesOf(k)) + 1
         /\ \A k \in Keys : \/ tasks'[k] = tasks[k]
                            \/ kind = "create" /\ k \in what /\ tasks'[k] = tasks[k] + 1
  <1>1. CASE kind = "append"
    <2>1. noted' = noted (+) SetToBag(what) /\ UNCHANGED <<issues, tasks>>
      BY <1>1 DEF Execute
    <2>2. ASSUME NEW i \in Nat
          PROVE  \/ NoteCopies(i)' = NoteCopies(i)
                 \/ i \in what /\ NoteCopies(i)' = NoteCopies(i) + 1
      <3>1. NoteCopies(i) \in Nat
        BY AccountParts
      <3>2. CASE i \in what
        <4>1. NoteCopies(i)' = NoteCopies(i) + 1
          BY <2>1, <3>1, <3>2 DEF NoteCopies, SetToBag, (+)
        <4>2. QED
          BY <3>2, <4>1
      <3>3. CASE i \notin what
        BY <2>1, <3>1, <3>3 DEF NoteCopies, SetToBag, (+)
      <3>4. QED
        BY <3>2, <3>3
    <2>3. QED
      BY <1>1, <2>1, <2>2 DEF IssuesOf
  <1>2. CASE kind = "post"
    <2>1. PICK about \in what : issues' = Append(issues, [about |-> about, open |-> TRUE])
      BY <1>2 DEF Execute
    <2>2. UNCHANGED <<noted, tasks>>
      BY <1>2 DEF Execute
    <2>3. /\ issues \in Seq(Issue) /\ Len(issues) \in Nat /\ DOMAIN issues = 1..Len(issues)
          /\ DOMAIN issues' = 1..(Len(issues) + 1)
          /\ \A i \in DOMAIN issues : issues'[i] = issues[i]
          /\ issues'[Len(issues) + 1] = [about |-> about, open |-> TRUE]
      BY <2>1 DEF IInv, ServersFit
    <2>4. ASSUME NEW k \in Keys
          PROVE  \/ Cardinality(IssuesOf(k))' = Cardinality(IssuesOf(k))
                 \/ k \in what /\ Cardinality(IssuesOf(k))' = Cardinality(IssuesOf(k)) + 1
      <3>1. CASE k = about
        <4>1. IssuesOf(k)' = IssuesOf(k) \union {Len(issues) + 1} /\ Len(issues) + 1 \notin IssuesOf(k)
          BY <2>3, <3>1 DEF IssuesOf
        <4>2. IsFiniteSet(IssuesOf(k))
          BY AccountParts
        <4>3. Cardinality(IssuesOf(k) \union {Len(issues) + 1}) = Cardinality(IssuesOf(k)) + 1
          BY <4>1, <4>2, FS_AddElement
        <4>4. QED
          BY <2>1, <3>1, <4>1, <4>3
      <3>2. CASE k # about
        <4>1. IssuesOf(k)' = IssuesOf(k)
          BY <2>3, <3>2 DEF IssuesOf
        <4>2. QED
          BY <4>1
      <3>3. QED
        BY <3>1, <3>2
    <2>5. QED
      BY <1>2, <2>2, <2>4 DEF NoteCopies
  <1>3. CASE kind = "create"
    <2>1. UNCHANGED <<noted, issues>>
      BY <1>3 DEF Execute
    <2>2. \A k \in Keys : tasks'[k] = tasks[k] + (IF k \in what THEN 1 ELSE 0) /\ tasks[k] \in Nat
      BY <1>3, AccountParts DEF Execute
    <2>3. QED
      BY <1>3, <2>1, <2>2 DEF NoteCopies, IssuesOf
  <1>4. QED
    BY <1>1, <1>2, <1>3 DEF Execute

(* A runner is answered, and may not send for the same again. *)
LEMMA ServedAccounts ==
  ASSUME IInv, TInv, IInv', TInv', Accounts, NEW p \in Runners, Still(p),
         UNCHANGED <<late, lost>>, NEW kind, NEW what, Execute(kind, what),
         \A i \in Nat : MayNote(p, i)' => MayNote(p, i),
         \A k \in Keys : MayPost(p, k)' => MayPost(p, k),
         \A k \in Keys : MayCreate(p, k)' => MayCreate(p, k),
         kind = "append" => \A i \in what : MayNote(p, i) /\ ~MayNote(p, i)',
         kind = "post" => \A k \in what : MayPost(p, k) /\ ~MayPost(p, k)',
         kind = "create" => \A k \in what : MayCreate(p, k) /\ ~MayCreate(p, k)'
  PROVE  Accounts'
  <1>1. \A kd, x : Waiting(kd, x)' = Waiting(kd, x)
    BY DEF Waiting
  <1>2. ASSUME NEW i \in Nat
        PROVE  Within(NoteCopies(i), Waiting("append", i), NoteSenders(i), lost)'
    <2>1. NoteSenders(i)' \subseteq NoteSenders(i) /\ NoteCopies(i) \in Nat /\ NoteCopies(i)' \in Nat
      BY SendersShrink, AccountParts DEF TInv, NotedFits, IsABag, NoteCopies
    <2>2. \/ NoteCopies(i)' = NoteCopies(i)
          \/ NoteCopies(i)' = NoteCopies(i) + 1 /\ \E q \in NoteSenders(i) : q \notin NoteSenders(i)'
      BY CopiesMade DEF NoteSenders
    <2>3. Within(NoteCopies(i), Waiting("append", i), NoteSenders(i), lost)
      BY DEF Accounts, NotesCounted
    <2>4. Within(NoteCopies(i)', Waiting("append", i), NoteSenders(i)', lost)
      BY <2>1, <2>2, <2>3, AccountParts, SenderServed
    <2>5. QED
      BY <1>1, <2>4 DEF Within
  <1>3. ASSUME NEW k \in Keys
        PROVE  Within(Cardinality(IssuesOf(k)), Waiting("post", k), PostSenders(k), lost)'
    <2>1. PostSenders(k)' \subseteq PostSenders(k) /\ Cardinality(IssuesOf(k)) \in Nat
      BY SendersShrink, AccountParts
    <2>2. /\ Cardinality(IssuesOf(k))' \in Nat
          /\ \/ Cardinality(IssuesOf(k))' = Cardinality(IssuesOf(k))
             \/ /\ Cardinality(IssuesOf(k))' = Cardinality(IssuesOf(k)) + 1
                /\ \E q \in PostSenders(k) : q \notin PostSenders(k)'
      BY <2>1, CopiesMade DEF PostSenders
    <2>3. Within(Cardinality(IssuesOf(k)), Waiting("post", k), PostSenders(k), lost)
      BY DEF Accounts, IssuesCounted
    <2>4. Within(Cardinality(IssuesOf(k))', Waiting("post", k), PostSenders(k)', lost)
      BY <2>1, <2>2, <2>3, AccountParts, SenderServed
    <2>5. QED
      BY <1>1, <2>4 DEF Within
  <1>4. ASSUME NEW k \in Keys
        PROVE  Within(tasks[k], Waiting("create", k), CreateSenders(k), lost)'
    <2>1. CreateSenders(k)' \subseteq CreateSenders(k) /\ tasks[k] \in Nat
      BY SendersShrink, AccountParts
    <2>2. /\ tasks'[k] \in Nat
          /\ \/ tasks'[k] = tasks[k]
             \/ tasks'[k] = tasks[k] + 1 /\ \E q \in CreateSenders(k) : q \notin CreateSenders(k)'
      BY <2>1, CopiesMade DEF CreateSenders
    <2>3. Within(tasks[k], Waiting("create", k), CreateSenders(k), lost)
      BY DEF Accounts, TasksCounted
    <2>4. Within(tasks'[k], Waiting("create", k), CreateSenders(k)', lost)
      BY <2>1, <2>2, <2>3, AccountParts, SenderServed
    <2>5. QED
      BY <1>1, <2>4 DEF Within
  <1>5. QED
    BY <1>2, <1>3, <1>4 DEF Accounts, NotesCounted, IssuesCounted, TasksCounted

(* A late request is served, once. *)
LEMMA LateAccounts ==
  ASSUME IInv, TInv, IInv', TInv', Accounts, NEW m \in late, ServeLate(m),
         UNCHANGED <<pc, recorded, sending, lost>>
  PROVE  Accounts'
  <1>1. \A x : /\ NoteSenders(x)' = NoteSenders(x) /\ PostSenders(x)' = PostSenders(x)
               /\ CreateSenders(x)' = CreateSenders(x)
    BY DEF NoteSenders, PostSenders, CreateSenders, MayNote, MayPost, MayCreate
  <1>2. late' = late \ {m} /\ Execute(m.kind, m.what)
    BY DEF ServeLate
  <1>3. \A kd, x : /\ Waiting(kd, x)' \subseteq Waiting(kd, x)
                   /\ (m.kind = kd /\ x \in m.what) =>
                         m \in Waiting(kd, x) /\ m \notin Waiting(kd, x)'
    BY <1>2 DEF Waiting
  <1>4. ASSUME NEW i \in Nat
        PROVE  Within(NoteCopies(i), Waiting("append", i), NoteSenders(i), lost)'
    <2>1. NoteCopies(i) \in Nat /\ NoteCopies(i)' \in Nat
      BY AccountParts DEF TInv, NotedFits, IsABag, NoteCopies
    <2>2. \/ NoteCopies(i)' = NoteCopies(i)
          \/ /\ NoteCopies(i)' = NoteCopies(i) + 1
             /\ \E r \in Waiting("append", i) : r \notin Waiting("append", i)'
      BY <1>2, <1>3, CopiesMade
    <2>3. Within(NoteCopies(i), Waiting("append", i), NoteSenders(i), lost)
      BY DEF Accounts, NotesCounted
    <2>4. Within(NoteCopies(i)', Waiting("append", i)', NoteSenders(i), lost)
      BY <1>3, <2>1, <2>2, <2>3, AccountParts, LateServed
    <2>5. QED
      BY <1>1, <2>4 DEF Within
  <1>5. ASSUME NEW k \in Keys
        PROVE  Within(Cardinality(IssuesOf(k)), Waiting("post", k), PostSenders(k), lost)'
    <2>1. Cardinality(IssuesOf(k)) \in Nat
      BY AccountParts
    <2>2. /\ Cardinality(IssuesOf(k))' \in Nat
          /\ \/ Cardinality(IssuesOf(k))' = Cardinality(IssuesOf(k))
             \/ /\ Cardinality(IssuesOf(k))' = Cardinality(IssuesOf(k)) + 1
                /\ \E r \in Waiting("post", k) : r \notin Waiting("post", k)'
      BY <1>2, <1>3, <2>1, CopiesMade
    <2>3. Within(Cardinality(IssuesOf(k)), Waiting("post", k), PostSenders(k), lost)
      BY DEF Accounts, IssuesCounted
    <2>4. Within(Cardinality(IssuesOf(k))', Waiting("post", k)', PostSenders(k), lost)
      BY <1>3, <2>1, <2>2, <2>3, AccountParts, LateServed
    <2>5. QED
      BY <1>1, <2>4 DEF Within
  <1>6. ASSUME NEW k \in Keys
        PROVE  Within(tasks[k], Waiting("create", k), CreateSenders(k), lost)'
    <2>1. tasks[k] \in Nat
      BY AccountParts
    <2>2. \/ tasks'[k] = tasks[k]
          \/ m.kind = "create" /\ k \in m.what /\ tasks'[k] = tasks[k] + 1
      BY <1>2, CopiesMade
    <2>3. /\ tasks'[k] \in Nat
          /\ \/ tasks'[k] = tasks[k]
             \/ /\ tasks'[k] = tasks[k] + 1
                /\ \E r \in Waiting("create", k) : r \notin Waiting("create", k)'
      BY <1>3, <2>1, <2>2
    <2>4. Within(tasks[k], Waiting("create", k), CreateSenders(k), lost)
      BY DEF Accounts, TasksCounted
    <2>5. Within(tasks'[k], Waiting("create", k)', CreateSenders(k), lost)
      BY <1>3, <2>1, <2>3, <2>4, AccountParts, LateServed
    <2>6. QED
      BY <1>1, <2>5 DEF Within
  <1>7. QED
    BY <1>4, <1>5, <1>6 DEF Accounts, NotesCounted, IssuesCounted, TasksCounted

(* A request is given up on. *)
LEMMA LostAccounts ==
  ASSUME IInv, TInv, Accounts, NEW p \in Runners, Still(p), LoseRequest(p),
         UNCHANGED serverVars,
         \A i \in Nat : MayNote(p, i)' => MayNote(p, i),
         \A k \in Keys : MayPost(p, k)' => MayPost(p, k),
         \A k \in Keys : MayCreate(p, k)' => MayCreate(p, k)
  PROVE  Accounts'
  <1> DEFINE m == [id |-> lost + 1, kind |-> pc[p], what |-> sending[p]]
  <1>1. late' = late \union {m} /\ lost' = lost + 1 /\ UNCHANGED <<issues, noted, tasks>>
    BY DEF LoseRequest, serverVars
  <1> HIDE DEF m
  <1>2. \A kind, x : Waiting(kind, x)' \subseteq Waiting(kind, x) \union {m}
    BY <1>1 DEF Waiting
  <1>3. ASSUME NEW i \in Nat
        PROVE  Within(NoteCopies(i), Waiting("append", i), NoteSenders(i), lost)'
    <2>1. NoteSenders(i)' \subseteq NoteSenders(i) /\ NoteCopies(i)' = NoteCopies(i)
      BY <1>1, SendersShrink DEF NoteCopies
    <2>2. Within(NoteCopies(i), Waiting("append", i)', NoteSenders(i)', lost + 1)
      BY <1>2, <2>1, AccountParts, OneMoreLost DEF Accounts, NotesCounted
    <2>3. QED
      BY <1>1, <2>1, <2>2 DEF Within
  <1>4. ASSUME NEW k \in Keys
        PROVE  Within(Cardinality(IssuesOf(k)), Waiting("post", k), PostSenders(k), lost)'
    <2>1. PostSenders(k)' \subseteq PostSenders(k) /\ IssuesOf(k)' = IssuesOf(k)
      BY <1>1, SendersShrink DEF IssuesOf
    <2>2. Within(Cardinality(IssuesOf(k)), Waiting("post", k)', PostSenders(k)', lost + 1)
      BY <1>2, <2>1, AccountParts, OneMoreLost DEF Accounts, IssuesCounted
    <2>3. QED
      BY <1>1, <2>1, <2>2 DEF Within
  <1>5. ASSUME NEW k \in Keys
        PROVE  Within(tasks[k], Waiting("create", k), CreateSenders(k), lost)'
    <2>1. CreateSenders(k)' \subseteq CreateSenders(k)
      BY SendersShrink
    <2>2. Within(tasks[k], Waiting("create", k)', CreateSenders(k)', lost + 1)
      BY <1>2, <2>1, AccountParts, OneMoreLost DEF Accounts, TasksCounted
    <2>3. QED
      BY <1>1, <2>2 DEF Within
  <1>6. QED
    BY <1>3, <1>4, <1>5 DEF Accounts, NotesCounted, IssuesCounted, TasksCounted

LEMMA SyncAccounts ==
  ASSUME IInv, TInv, IInv', TInv', Accounts, CreatesUnrecorded,
         NEW p \in Runners, StartSync(p) \/ Sync(p)
  PROVE  Accounts' /\ CreatesUnrecorded'
  <1>1. UNCHANGED reviewVars /\ DOMAIN pc = Runners /\ DOMAIN recorded = Runners /\ DOMAIN sending = Runners
    BY DEF StartSync, Sync, IInv, RunnersFit
  <1>2. CASE BeginSync(p)
    <2>1. /\ Still(p) /\ UNCHANGED <<issues, noted, tasks, late, lost>>
          /\ pc'[p] = "list" /\ recorded'[p] = DOMAIN noted
      BY <1>1, <1>2 DEF BeginSync, Still, serverVars, netVars, BagToSet
    <2>2. \A k \in Keys : IssuesOf(k)' = IssuesOf(k)
      BY <2>1 DEF IssuesOf
    <2>3. Accounts'
      BY <2>1, <2>2, LocalAccounts DEF MayNote, MayPost, MayCreate
    <2>4. QED
      BY <1>1, <2>1, <2>3 DEF CreatesUnrecorded, Key, Still, reviewVars
  <1>3. CASE List(p)
    <2>1. /\ Still(p) /\ UNCHANGED <<issues, noted, tasks, late, lost>> /\ pc[p] = "list"
          /\ pc'[p] = "close" \/ (pc'[p] = "append" /\ sending'[p] = Importable(p))
          /\ Importable(p) \intersect recorded[p] = {}
      BY <1>1, <1>3 DEF List, Answered, Send, Still, serverVars, netVars, Importable
    <2>2. \A k \in Keys : IssuesOf(k)' = IssuesOf(k)
      BY <2>1 DEF IssuesOf
    <2>3. Accounts'
      BY <2>1, <2>2, LocalAccounts DEF MayNote, MayPost, MayCreate
    <2>4. QED
      BY <1>1, <2>1, <2>3 DEF CreatesUnrecorded, Key, Still, reviewVars
  <1>4. CASE ListFails(p) \/ Rebuild(p) \/ EndSync(p)
    <2>1. /\ Still(p) /\ UNCHANGED <<issues, noted, tasks, late, lost>>
          /\ pc'[p] = "close" \/ pc'[p] = "idle"
      BY <1>1, <1>4 DEF ListFails, Rebuild, EndSync, Answered, Still, serverVars, netVars
    <2>2. \A k \in Keys : IssuesOf(k)' = IssuesOf(k)
      BY <2>1 DEF IssuesOf
    <2>3. Accounts'
      BY <2>1, <2>2, LocalAccounts DEF MayNote, MayPost, MayCreate
    <2>4. QED
      BY <1>1, <2>1, <2>3 DEF CreatesUnrecorded, Key, Still, reviewVars
  <1>5. CASE CloseNext(p)
    <2>1. /\ UNCHANGED <<noted, tasks, pc, recorded, sending, late, lost>>
          /\ issues' = issues \/ \E i \in toClose[p] : issues' = [issues EXCEPT ![i].open = FALSE]
      BY <1>5 DEF CloseNext
    <2>2. toClose[p] \subseteq DOMAIN issues /\ ServersFit
      BY DEF IInv, SyncFits
    <2>3. \A k \in Keys : IssuesOf(k)' = IssuesOf(k)
      BY <2>1, <2>2, ClosingKeepsIssues DEF IssuesOf
    <2>4. Still(p)
      BY <2>1 DEF Still
    <2>5. Accounts'
      BY <2>1, <2>3, <2>4, LocalAccounts DEF MayNote, MayPost, MayCreate
    <2>6. QED
      BY <1>1, <2>1, <2>5 DEF CreatesUnrecorded, Key, reviewVars
  <1>6. CASE AppendEvents(p)
    <2>1. /\ Still(p) /\ UNCHANGED <<late, lost>> /\ pc[p] = "append" /\ pc'[p] = "rebuild"
          /\ Execute("append", sending[p])
      BY <1>1, <1>6 DEF AppendEvents, Answered, Still, netVars
    <2>2. Accounts'
      BY <2>1, ServedAccounts DEF MayNote, MayPost, MayCreate
    <2>3. QED
      BY <1>1, <2>1, <2>2 DEF CreatesUnrecorded, Key, Still, reviewVars
  <1>7. QED
    BY <1>2, <1>3, <1>4, <1>5, <1>6 DEF StartSync, Sync, SyncStep

(* After an issue is found or made: only what is not recorded is sent. *)
LEMMA HasIssueSends ==
  ASSUME IInv, NEW p \in Runners, HasIssue(p) \/ Advance(p), UNCHANGED <<plan, recorded>>
  PROVE  /\ Still(p) /\ pc'[p] \in {"find", "notify", "create"} /\ recorded'[p] = recorded[p]
         /\ CreatesUnrecorded => CreatesUnrecorded'
  <1>1. DOMAIN pc = Runners /\ DOMAIN sending = Runners /\ DOMAIN at = Runners
    BY DEF IInv, RunnersFit
  <1>2. CASE Advance(p)
    <2>1. /\ Still(p) /\ pc'[p] \in {"find", "notify"}
          /\ \A q \in Runners \ {p} : at'[q] = at[q]
      BY <1>1, <1>2 DEF Advance, Answered, Still
    <2>2. QED
      BY <2>1 DEF CreatesUnrecorded, Key, Still
  <1>3. CASE Key(p) \notin recorded[p] /\ Send(p, "create", {Key(p)}) /\ UNCHANGED at
    <2>1. Still(p) /\ pc'[p] = "create"
      BY <1>1, <1>3 DEF Send, Still
    <2>2. QED
      BY <1>3, <2>1 DEF CreatesUnrecorded, Key, Still
  <1>4. QED
    BY <1>2, <1>3 DEF HasIssue

LEMMA ReviewAccounts ==
  ASSUME IInv, TInv, IInv', TInv', Accounts, CreatesUnrecorded,
         NEW p \in Runners, StartReview(p) \/ Review(p)
  PROVE  Accounts' /\ CreatesUnrecorded'
  <1>1. /\ DOMAIN pc = Runners /\ DOMAIN recorded = Runners /\ DOMAIN sending = Runners
        /\ DOMAIN at = Runners /\ DOMAIN plan = Runners
    BY DEF IInv, RunnersFit
  <1>2. CASE BeginReview(p) \/ Notify(p)
    <2>1. /\ Still(p) /\ UNCHANGED <<issues, noted, tasks, late, lost>>
          /\ pc'[p] = "idle" \/ (pc'[p] = "find" /\ recorded'[p] = {k \in Keys : tasks[k] > 0})
          /\ \A q \in Runners \ {p} : at'[q] = at[q] /\ plan'[q] = plan[q]
      BY <1>1, <1>2 DEF BeginReview, Notify, Answered, Still, serverVars, netVars
    <2>2. \A k \in Keys : IssuesOf(k)' = IssuesOf(k)
      BY <2>1 DEF IssuesOf
    <2>3. Accounts'
      BY <2>1, <2>2, LocalAccounts DEF MayNote, MayPost, MayCreate
    <2>4. QED
      BY <2>1, <2>3 DEF CreatesUnrecorded, Key, Still
  <1>3. CASE Find(p)
    <2>1. /\ UNCHANGED <<issues, noted, tasks, late, lost, plan, recorded>>
          /\ pc[p] = "find" /\ InReview(p)
      BY <1>3 DEF Find, serverVars, netVars, InReview
    <2>2. \A k \in Keys : IssuesOf(k)' = IssuesOf(k)
      BY <2>1 DEF IssuesOf
    <2>3. CASE HasIssue(p)
      <3>1. /\ Still(p) /\ pc'[p] \in {"find", "notify", "create"} /\ recorded'[p] = recorded[p]
            /\ CreatesUnrecorded'
        BY <2>1, <2>3, HasIssueSends
      <3>2. Accounts'
        BY <2>1, <2>2, <3>1, LocalAccounts DEF MayNote, MayPost, MayCreate
      <3>3. QED
        BY <3>1, <3>2
    <2>4. CASE IssuesOf(Key(p)) = {} /\ Send(p, "post", {Key(p)}) /\ UNCHANGED at
      <3>1. Still(p) /\ pc'[p] = "post" /\ sending'[p] = {Key(p)}
        BY <1>1, <2>1, <2>4 DEF Send, Still
      <3>2. \A k \in Keys : IssuesOf(k) # {} => (MayPost(p, k)' => MayPost(p, k))
        BY <2>4, <3>1 DEF MayPost
      <3>3. Accounts'
        BY <2>1, <2>2, <3>1, <3>2, LocalAccounts DEF MayNote, MayCreate
      <3>4. QED
        BY <2>1, <2>4, <3>1, <3>3 DEF CreatesUnrecorded, Key, Still
    <2>5. QED
      BY <1>3, <2>3, <2>4 DEF Find
  <1>4. CASE PostIssue(p)
    <2>1. /\ UNCHANGED <<late, lost, plan, recorded>> /\ HasIssue(p)
          /\ pc[p] = "post" /\ Execute("post", sending[p])
      BY <1>4 DEF PostIssue, netVars
    <2>2. /\ Still(p) /\ pc'[p] \in {"find", "notify", "create"} /\ recorded'[p] = recorded[p]
          /\ CreatesUnrecorded'
      BY <2>1, HasIssueSends
    <2>3. Accounts'
      BY <2>1, <2>2, ServedAccounts DEF MayNote, MayPost, MayCreate
    <2>4. QED
      BY <2>2, <2>3
  <1>5. CASE CreateTask(p)
    <2>1. /\ UNCHANGED <<late, lost, plan, at>> /\ Still(p) /\ pc[p] = "create" /\ pc'[p] = "refresh"
          /\ recorded'[p] = recorded[p] \union {Key(p)} /\ Execute("create", sending[p])
      BY <1>1, <1>5 DEF CreateTask, Answered, Still, netVars, reviewVars
    <2>2. sending[p] = {Key(p)} /\ Key(p) \notin recorded[p]
      BY <2>1 DEF IInv, ReviewFits, CreatesUnrecorded
    <2>3. Accounts'
      BY <2>1, <2>2, ServedAccounts DEF MayNote, MayPost, MayCreate
    <2>4. QED
      BY <2>1, <2>3 DEF CreatesUnrecorded, Key, Still
  <1>6. CASE Refresh(p)
    <2>1. /\ UNCHANGED <<issues, noted, tasks, late, lost, plan, recorded>>
          /\ pc[p] = "refresh" /\ Advance(p)
      BY <1>6 DEF Refresh, serverVars, netVars
    <2>2. /\ Still(p) /\ pc'[p] \in {"find", "notify", "create"} /\ recorded'[p] = recorded[p]
          /\ CreatesUnrecorded'
      BY <2>1, HasIssueSends
    <2>3. \A k \in Keys : IssuesOf(k)' = IssuesOf(k)
      BY <2>1 DEF IssuesOf
    <2>4. Accounts'
      BY <2>1, <2>2, <2>3, LocalAccounts DEF MayNote, MayPost, MayCreate
    <2>5. QED
      BY <2>2, <2>4
  <1>7. QED
    BY <1>2, <1>3, <1>4, <1>5, <1>6 DEF StartReview, Review, ReviewStep

LEMMA FailureAccounts ==
  ASSUME IInv, TInv, IInv', TInv', Accounts, CreatesUnrecorded,
         NEW p \in Runners, Repeat(p) \/ Fails(p)
  PROVE  Accounts' /\ CreatesUnrecorded'
  <1>1. DOMAIN pc = Runners /\ DOMAIN recorded = Runners /\ DOMAIN sending = Runners
    BY DEF IInv, RunnersFit
  <1>2. CASE Repeat(p)
    <2>1. UNCHANGED <<serverVars, pc, recorded, sending, plan, at>> /\ LoseRequest(p)
      BY <1>2 DEF Repeat, Resend, reviewVars
    <2>2. Still(p)
      BY <2>1 DEF Still
    <2>3. Accounts'
      BY <2>1, <2>2, LostAccounts DEF MayNote, MayPost, MayCreate
    <2>4. QED
      BY <2>1, <2>3 DEF CreatesUnrecorded, Key
  <1>3. CASE Fails(p)
    <2>1. /\ UNCHANGED serverVars /\ Still(p) /\ pc'[p] = "idle"
          /\ LoseRequest(p) \/ UNCHANGED <<late, lost>>
          /\ \A q \in Runners \ {p} : at'[q] = at[q] /\ plan'[q] = plan[q]
      BY <1>1, <1>3 DEF Fails, Abort, Answered, Still, IInv, RunnersFit
    <2>2. UNCHANGED <<noted, tasks>> /\ \A k \in Keys : IssuesOf(k)' = IssuesOf(k)
      BY <2>1 DEF serverVars, IssuesOf
    <2>3. CASE LoseRequest(p)
      BY <2>1, <2>3, LostAccounts DEF MayNote, MayPost, MayCreate, CreatesUnrecorded, Key, Still
    <2>4. CASE UNCHANGED <<late, lost>>
      <3>1. Accounts'
        BY <2>1, <2>2, <2>4, LocalAccounts DEF MayNote, MayPost, MayCreate
      <3>2. QED
        BY <2>1, <3>1 DEF CreatesUnrecorded, Key, Still
    <2>5. QED
      BY <2>1, <2>3, <2>4
  <1>4. QED
    BY <1>2, <1>3

LEMMA EnvironmentAccounts ==
  ASSUME IInv, TInv, IInv', TInv', Accounts, CreatesUnrecorded, Environment
  PROVE  Accounts' /\ CreatesUnrecorded'
  <1>1. CI \in Runners
    BY CIAssumption
  <1>2. ASSUME UNCHANGED <<pc, recorded, sending, plan, at>>
        PROVE  CreatesUnrecorded' /\ Still(CI)
    BY <1>2 DEF CreatesUnrecorded, Key, Still
  <1>3. ASSUME UNCHANGED <<noted, tasks, pc, recorded, sending, plan, at, late, lost>>,
               \A k \in Keys : IssuesOf(k)' = IssuesOf(k)
        PROVE  Accounts' /\ CreatesUnrecorded'
    <2>1. CreatesUnrecorded' /\ Still(CI)
      BY <1>2, <1>3
    <2>2. Accounts'
      BY <1>1, <1>3, <2>1, LocalAccounts DEF MayNote, MayPost, MayCreate
    <2>3. QED
      BY <2>1, <2>2
  <1>4. ASSUME NEW about \in Feedback, OpenIssue(about), UNCHANGED reviewVars
        PROVE  Accounts' /\ CreatesUnrecorded'
    <2>1. issues' = Append(issues, [about |-> about, open |-> TRUE]) /\ about \notin Keys
      BY <1>4, JobsAssumption DEF OpenIssue, Feedback
    <2>2. /\ issues \in Seq(Issue) /\ Len(issues) \in Nat /\ DOMAIN issues = 1..Len(issues)
          /\ DOMAIN issues' = 1..(Len(issues) + 1)
          /\ \A i \in DOMAIN issues : issues'[i] = issues[i]
          /\ issues'[Len(issues) + 1] = [about |-> about, open |-> TRUE]
      BY <2>1 DEF IInv, ServersFit
    <2>3. \A k \in Keys : IssuesOf(k)' = IssuesOf(k)
      BY <2>1, <2>2 DEF IssuesOf
    <2>4. QED
      BY <1>3, <1>4, <2>3 DEF OpenIssue, netVars, reviewVars
  <1>5. ASSUME NEW i \in DOMAIN issues, OwnerCloses(i), UNCHANGED toClose
        PROVE  Accounts' /\ CreatesUnrecorded'
    <2>1. \A k \in Keys : IssuesOf(k)' = IssuesOf(k)
      BY <1>5, ClosingKeepsIssues DEF OwnerCloses, IInv
    <2>2. QED
      BY <1>3, <1>5, <2>1 DEF OwnerCloses, netVars, reviewVars
  <1>6. ASSUME NEW m \in late, ServeLate(m),
               UNCHANGED <<pc, recorded, sending, attempt, lost, faults, toClose, reviewVars>>
        PROVE  Accounts' /\ CreatesUnrecorded'
    BY <1>2, <1>6, LateAccounts DEF reviewVars
  <1>7. QED
    BY <1>4, <1>5, <1>6 DEF Environment

LEMMA AccountsAlways == Spec => [](IInv /\ TInv /\ Accounts /\ CreatesUnrecorded)
  <1>1. ASSUME Init, IInv, TInv PROVE Accounts /\ CreatesUnrecorded
    <2>1. /\ NotesCounted
      <3>1. \A i \in Nat : NoteCopies(i) = 0
        BY <1>1 DEF Init, JobStateInit, NoteCopies, EmptyBag, SetToBag
      <3>2. QED
        BY <1>1, <3>1, AccountParts, NothingYet DEF NotesCounted
    <2>2. IssuesCounted
      <3>1. \A k \in Keys : Cardinality(IssuesOf(k)) = 0
        BY <1>1, FS_EmptySet DEF Init, JobStateInit, IssuesOf
      <3>2. QED
        BY <1>1, <3>1, AccountParts, NothingYet DEF IssuesCounted
    <2>3. TasksCounted
      <3>1. \A k \in Keys : tasks[k] = 0
        BY <1>1 DEF Init, JobStateInit
      <3>2. QED
        BY <1>1, <3>1, AccountParts, NothingYet DEF TasksCounted
    <2>4. CreatesUnrecorded
      BY <1>1 DEF Init, JobStateInit, CreatesUnrecorded
    <2>5. QED
      BY <2>1, <2>2, <2>3, <2>4 DEF Accounts
  <1>2. ASSUME IInv, TInv, IInv', TInv', Accounts, CreatesUnrecorded, [Next]_vars
        PROVE  Accounts' /\ CreatesUnrecorded'
    <2>1. CASE UNCHANGED vars
      <3>1. CI \in Runners /\ UNCHANGED <<noted, tasks, late, lost, pc, recorded, sending>> /\ Still(CI)
        BY <2>1, CIAssumption DEF vars, Still
      <3>2. \A k \in Keys : IssuesOf(k)' = IssuesOf(k)
        BY <2>1 DEF vars, IssuesOf
      <3>3. Accounts'
        BY <1>2, <3>1, <3>2, LocalAccounts DEF MayNote, MayPost, MayCreate
      <3>4. QED
        BY <1>2, <2>1, <3>3 DEF vars, CreatesUnrecorded, Key
    <2>2. QED
      BY <1>2, <2>1, SyncAccounts, ReviewAccounts, FailureAccounts, EnvironmentAccounts DEF Next, Job
  <1>3. QED
    BY <1>1, <1>2, IInvAlways, TInvAlways, PTL DEF Spec

(* However the jobs are repeated, overlap and fail, no issue is imported   *)
(* more often, and no proposal gets more issues or tasks, than there are   *)
(* runners and lost answers together; so one runner makes one copy while   *)
(* no answer is lost.                                                      *)
THEOREM CopiesAlwaysBounded == Spec => []CopiesBounded
  <1>1. ASSUME IInv, TInv, Accounts PROVE CopiesBounded
    <2>1. Cardinality(Runners) \in Nat /\ lost \in Nat
      BY <1>1, JobsAssumption, FS_CardinalityType, AccountParts
    <2>2. ASSUME NEW n \in Nat, NEW kind, NEW x, NEW S, S \subseteq Runners,
                 Within(n, Waiting(kind, x), S, lost)
          PROVE  n <= Cardinality(Runners) + lost
      <3>1. Cardinality(S) \in Nat /\ Cardinality(Waiting(kind, x)) \in Nat
        BY <1>1, <2>2, JobsAssumption, FS_Subset, FS_CardinalityType, AccountParts
      <3>2. QED
        BY <2>1, <2>2, <3>1 DEF Within
    <2>3. ASSUME NEW i \in BagToSet(noted) PROVE noted[i] <= Cardinality(Runners) + lost
      <3>1. i \in Nat /\ NoteCopies(i) = noted[i]
        BY <1>1 DEF TInv, NotedFits, BagToSet, NoteCopies
      <3>2. Within(NoteCopies(i), Waiting("append", i), NoteSenders(i), lost)
        BY <1>1, <3>1 DEF Accounts, NotesCounted
      <3>3. QED
        BY <1>1, <2>2, <3>1, <3>2, AccountParts
    <2>4. ASSUME NEW k \in Keys
          PROVE  /\ Cardinality(IssuesOf(k)) <= Cardinality(Runners) + lost
                 /\ tasks[k] <= Cardinality(Runners) + lost
      <3>1. /\ Within(Cardinality(IssuesOf(k)), Waiting("post", k), PostSenders(k), lost)
            /\ Within(tasks[k], Waiting("create", k), CreateSenders(k), lost)
        BY <1>1 DEF Accounts, IssuesCounted, TasksCounted
      <3>2. QED
        BY <1>1, <2>2, <3>1, AccountParts
    <2>5. QED
      BY <2>3, <2>4 DEF CopiesBounded
  <1>2. QED
    BY <1>1, AccountsAlways, PTL

=============================================================================
