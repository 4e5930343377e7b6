------------------------------ MODULE JobState ------------------------------
(***************************************************************************)
(* What the batch jobs on the private ledger repository share: its GitHub  *)
(* issues, the ledger rows that correspond to them, and the requests that  *)
(* change either.  A runner is the CI runner, whose jobs wait for each     *)
(* other (concurrency group astrolabe-ledger-write), or the shell of       *)
(* somebody who starts the same commands by hand, which waits for nobody.  *)
(*                                                                         *)
(* Both REST clients and the ledger client send a request a second time    *)
(* when the answer to the first is lost, and then give up.  A request      *)
(* given up on goes to late: it may be executed at any time, or never.     *)
(***************************************************************************)
EXTENDS Naturals, Sequences, FiniteSets, Bags

CONSTANTS Runners,      \* where jobs run
          Keys,         \* the proposal keys of a week, one per title
          MaxFeedback,  \* bound on the feedback issues opened by the user
          MaxReviews,   \* bound on the weekly reviews started
          MaxProposals, \* at most this many proposals in a review
          MaxFaults     \* bound on lost answers, errors and killed runners

ASSUME JobsAssumption ==
  /\ MaxFeedback \in Nat /\ MaxReviews \in Nat /\ MaxFaults \in Nat
  /\ IsFiniteSet(Runners) /\ MaxProposals \in Nat \ {0}
  /\ Keys \intersect {"known", "unknown"} = {}

VARIABLES issues,   \* the issues by number: what each is about, is it open
          noted,    \* the feedback events in the ledger: a bag of issue numbers
          tasks,    \* number of task rows with a proposal key
          pc,       \* where the job of a runner is
          recorded, \* what the job found recorded in the ledger at its start
          sending,  \* the issue numbers or the key in the request it sends
          attempt,  \* 0 or 1, of that request
          late,     \* requests given up on
          lost, faults

serverVars == <<issues, noted, tasks>>
netVars == <<late, lost, faults>>

(* A feedback issue is about a concept the ledger knows or one it does not *)
(* (a typing error in the title); an improvement issue carries its key.    *)
Feedback == {"known", "unknown"}

Requests == {"append", "post", "create"}
Places == {"idle", "list", "rebuild", "close", "find", "refresh", "notify"} \union Requests

JobStateTypeOK ==
  /\ issues \in Seq([about : Feedback \union Keys, open : BOOLEAN])
  /\ IsABag(noted) /\ tasks \in [Keys -> Nat]
  /\ pc \in [Runners -> Places]
  /\ recorded \in [Runners -> (SUBSET Nat) \union (SUBSET Keys)]
  /\ sending \in [Runners -> (SUBSET Nat) \union (SUBSET Keys)]
  /\ attempt \in [Runners -> 0..1]
  /\ \A m \in late : m.kind \in Requests /\ m.id \in 1..lost
  /\ lost \in 0..faults /\ faults \in 0..MaxFaults

JobStateInit ==
  /\ issues = << >>
  /\ noted = EmptyBag /\ tasks = [k \in Keys |-> 0]
  /\ pc = [p \in Runners |-> "idle"]
  /\ recorded = [p \in Runners |-> {}] /\ sending = [p \in Runners |-> {}]
  /\ attempt = [p \in Runners |-> 0]
  /\ late = {} /\ lost = 0 /\ faults = 0

OpenIssues == {i \in DOMAIN issues : issues[i].open}
IssuesOf(k) == {i \in DOMAIN issues : issues[i].about = k}

----------------------------------------------------------------------------

(* The servers: an INSERT of feedback events, a new issue, a new task with *)
(* its event.                                                              *)
Execute(kind, what) ==
  \/ /\ kind = "append"
     /\ noted' = noted (+) SetToBag(what)
     /\ UNCHANGED <<issues, tasks>>
  \/ /\ kind = "post"
     /\ \E k \in what : issues' = Append(issues, [about |-> k, open |-> TRUE])
     /\ UNCHANGED <<noted, tasks>>
  \/ /\ kind = "create"
     /\ tasks' = [k \in Keys |-> tasks[k] + (IF k \in what THEN 1 ELSE 0)]
     /\ UNCHANGED <<issues, noted>>

ServeLate(m) ==
  /\ m \in late
  /\ late' = late \ {m}
  /\ Execute(m.kind, m.what)

Send(p, kind, what) ==
  /\ pc' = [pc EXCEPT ![p] = kind]
  /\ sending' = [sending EXCEPT ![p] = what]
  /\ attempt' = [attempt EXCEPT ![p] = 0]

Answered(p, next) ==
  /\ pc' = [pc EXCEPT ![p] = next]
  /\ sending' = [sending EXCEPT ![p] = {}]
  /\ attempt' = [attempt EXCEPT ![p] = 0]

Fault ==
  /\ faults < MaxFaults
  /\ faults' = faults + 1

LoseRequest(p) ==
  /\ late' = late \union {[id |-> lost + 1, kind |-> pc[p], what |-> sending[p]]}
  /\ lost' = lost + 1

(* Mutant of Resend: range(3) instead of range(2). *)
ResendTwice(p) ==
  /\ pc[p] \in Requests
  /\ Fault
  /\ LoseRequest(p)
  /\ attempt' = [attempt EXCEPT ![p] = @ + 1]
  /\ UNCHANGED <<serverVars, pc, recorded, sending>>

(* A transport error, a 5xx or (GitHub) a 429 on the first attempt. *)
Resend(p) ==
  /\ pc[p] \in Requests /\ attempt[p] = 0
  /\ Fault
  /\ LoseRequest(p)
  /\ attempt' = [attempt EXCEPT ![p] = 1]
  /\ UNCHANGED <<serverVars, pc, recorded, sending>>

(* An error ends the job where it stands, and with it the steps after it:  *)
(* a second lost answer, a refused request, a failed rebuild, a failed     *)
(* notification; or the runner is killed.                                  *)
Abort(p) ==
  /\ pc[p] # "idle"
  /\ Fault
  /\ IF pc[p] \in Requests THEN LoseRequest(p) ELSE UNCHANGED <<late, lost>>
  /\ Answered(p, "idle")
  /\ recorded' = [recorded EXCEPT ![p] = {}]
  /\ UNCHANGED serverVars

=============================================================================
