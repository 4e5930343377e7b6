----------------------------- MODULE MorningJob -----------------------------
(***************************************************************************)
(* The daily workflow: collect, select, record the topics as proposed      *)
(* events, rebuild the concepts, archive the report, snapshot the events,  *)
(* export the UI data, publish it and push the files to git.  Its feedback *)
(* steps are FeedbackSync's.  The concurrency group lets one job run at a  *)
(* time.  A job that fails is over; the next run, on the same day or a     *)
(* later one, starts again from what it left in three stores: the ledger,  *)
(* the published artifacts (tables of one server) and the git repository.  *)
(*                                                                         *)
(* A request is sent a second time when its answer is lost.  A request     *)
(* given up on goes to late: it may be executed at any time, or never.     *)
(***************************************************************************)
EXTENDS Dedupe, Layout, Sequences

CONSTANTS MaxTopics,    \* at most this many topics in a report
          MaxDay,       \* bound on the days
          MaxBatches,   \* bound on the reports that record topics
          MaxLost,      \* bound on lost answers and concurrent rebuilds
          MaxFaults     \* bound on these and the failed jobs together

ASSUME MorningAssumption ==
  /\ MaxDay \in Nat \ {0}
  /\ MaxTopics \in Nat /\ MaxBatches \in Nat /\ MaxLost \in Nat /\ MaxFaults \in Nat

VARIABLES log,          \* proposed events, the batch of one INSERT after the other
          tables,       \* the concepts in the derived tables
          reports,      \* daily_reports: the topics of a date
          published,    \* published_artifacts
          repo,         \* the files in git: snapshot and exports
          pc,           \* the step the job is at
          today,        \* the date it works for
          topics,       \* the topics it proposes
          cited,        \* the items they cite
          stars,        \* the concepts it has read or derived
          tree,         \* its files: the checkout, with what it has written
          attempt,      \* 0 or 1, of the request it sends
          late,         \* requests given up on
          lost, faults,
          clean         \* ghost: the last job has not failed, and no late request
                        \* has been executed since it began

serverVars == <<log, tables, reports, published>>
jobVars == <<pc, today, topics, cited, stars, tree, attempt>>
netVars == <<late, lost, faults>>
vars == <<serverVars, repo, jobVars, netVars, clean>>

Days == 1..MaxDay
Requests == {"append", "replace", "report", "publish"}

NoFiles == [events |-> 0, stars |-> {}, new |-> {}, places |-> << >>, index |-> << >>]
NothingPublished == [stars |-> {}, new |-> {}, places |-> << >>, index |-> << >>,
                     pages |-> << >>]

PartialFunctions(S, T) == UNION {[D -> T] : D \in SUBSET S}

Batch == [topics : SUBSET Concepts, cited : SUBSET Items, date : Days, late : BOOLEAN]
Reports == PartialFunctions(Days, SUBSET Concepts)
IsPlaces(p) == DOMAIN p \subseteq Concepts /\ p \in [DOMAIN p -> Nat]

IsFiles(f) ==
  /\ f \in [events : Nat, stars : SUBSET Concepts, new : SUBSET Concepts,
            places : {f.places}, index : Reports]
  /\ IsPlaces(f.places)

(* What a request brings. *)
Fits(kind, what) ==
  /\ kind = "append" =>
       what \in [topics : SUBSET Concepts, cited : SUBSET Items, date : Days]
  /\ kind = "replace" => what \subseteq Concepts
  /\ kind = "report" => what \in [topics : SUBSET Concepts, date : Days]
  /\ kind = "publish" =>
       /\ what \in [stars : SUBSET Concepts, new : SUBSET Concepts,
                    places : {what.places}, index : Reports,
                    page : [date : Days, topics : SUBSET Concepts]]
       /\ IsPlaces(what.places)

TypeOK ==
  /\ log \in Seq(Batch)
  /\ tables \subseteq Concepts
  /\ reports \in Reports
  /\ published \in [stars : SUBSET Concepts, new : SUBSET Concepts,
                    places : {published.places}, index : Reports, pages : Reports]
  /\ IsPlaces(published.places)
  /\ IsFiles(repo) /\ repo.events <= Len(log)
  /\ IsFiles(tree) /\ tree.events <= Len(log)
  /\ pc \in {"idle", "collect", "rebuild", "snapshot", "stars", "export", "persist"}
            \union Requests
  /\ today \in Days
  /\ topics \subseteq Concepts /\ cited \subseteq Items
  /\ stars \subseteq Concepts
  /\ attempt \in 0..1
  /\ \A m \in late : m.kind \in Requests /\ m.id \in 1..lost /\ Fits(m.kind, m.what)
  /\ lost \in 0..MaxLost /\ faults \in 0..MaxFaults
  /\ clean \in BOOLEAN

Init ==
  /\ log = << >> /\ tables = {} /\ reports = << >>
  /\ published = NothingPublished /\ repo = NoFiles
  /\ pc = "idle" /\ today = 1 /\ topics = {} /\ cited = {} /\ stars = {} /\ tree = NoFiles
  /\ attempt = 0 /\ late = {} /\ lost = 0 /\ faults = 0 /\ clean = FALSE

----------------------------------------------------------------------------
(* What the job reads from the ledger. *)

Proposed(events) == UNION {events[i].topics : i \in DOMAIN events}
CitedKeys(batch) == KeysOfAll(batch.cited)

(* Mutant of SeenKeys: the events of the day itself do not count. *)
SeenKeysBefore(asOf) ==
  UNION {CitedKeys(log[i]) : i \in {j \in DOMAIN log : log[j].date < asOf}}

(* Events of a later report date do not count. *)
SeenKeys(asOf) == UNION {CitedKeys(log[i]) : i \in {j \in DOMAIN log : log[j].date <= asOf}}

FirstDate(c) == log[Min({i \in DOMAIN log : c \in log[i].topics})].date

----------------------------------------------------------------------------
(* The requests that write to the server. *)

(* One INSERT of all rows; two upserts by primary key; one function that   *)
(* replaces the derived tables.                                            *)
Execute(kind, what, isLate) ==
  \/ /\ kind = "append"
     /\ log' = Append(log, [topics |-> what.topics, cited |-> what.cited,
                            date |-> what.date, late |-> isLate])
     /\ UNCHANGED <<tables, reports, published>>
  \/ /\ kind = "replace"
     /\ tables' = what
     /\ UNCHANGED <<log, reports, published>>
  \/ /\ kind = "report"
     /\ reports' = Put(reports, what.date, what.topics)
     /\ UNCHANGED <<log, tables, published>>
  \/ /\ kind = "publish"
     /\ published' = [stars |-> what.stars, new |-> what.new, places |-> what.places,
                      index |-> what.index,
                      pages |-> Put(published.pages, what.page.date, what.page.topics)]
     /\ UNCHANGED <<log, tables, reports>>

(* Mutant of Artifacts: the last of the dates instead of the first. *)
ArtifactsOldest(files) ==
  LET oldest == Min(DOMAIN files.index) IN
  [stars |-> files.stars, new |-> files.new, places |-> files.places,
   index |-> files.index, page |-> [date |-> oldest, topics |-> files.index[oldest]]]

(* Map, layout, index, and the page of the newest report only. *)
Artifacts(files) ==
  LET newest == Max(DOMAIN files.index) IN
  [stars |-> files.stars, new |-> files.new, places |-> files.places,
   index |-> files.index, page |-> [date |-> newest, topics |-> files.index[newest]]]

What ==
  CASE pc = "append" -> [topics |-> topics, cited |-> cited, date |-> today]
    [] pc = "report" -> [topics |-> topics, date |-> today]
    [] pc = "replace" -> stars
    [] pc = "publish" -> Artifacts(tree)

Goto(step) == pc' = step /\ attempt' = 0

Ends ==
  /\ Goto("idle")
  /\ topics' = {} /\ cited' = {} /\ stars' = {} /\ tree' = NoFiles

(* The request is executed and answered. *)
Call(kind, next) ==
  /\ pc = kind
  /\ Execute(kind, What, FALSE)
  /\ Goto(next)
  /\ cited' = {} /\ stars' = {}
  /\ UNCHANGED <<repo, today, topics, tree, netVars, clean>>

----------------------------------------------------------------------------
(* The steps of the job. *)

(* By the schedule or by hand, on the day of the last job or the next one. *)
Start ==
  /\ pc = "idle"
  /\ \E d \in {today, today + 1} \intersect Days : today' = d
  /\ tree' = repo
  /\ Goto("collect")
  /\ clean' = TRUE
  /\ UNCHANGED <<serverVars, repo, topics, cited, stars, netVars>>

(* A source that fails, after its one retry, is skipped. *)
Collected == SUBSET Items

(* The triage scores as the model likes, and the items of a chunk whose    *)
(* call fails have no score; of the others the best are kept.              *)
Selections(fresh) == SUBSET fresh

(* The synthesis makes some topics of them, or none.  A topic cites any of *)
(* the items; other URLs it names are ignored.                             *)
Syntheses(top) ==
  {s \in [topics : SUBSET Concepts, cited : SUBSET top] :
     /\ Cardinality(s.topics) <= MaxTopics
     /\ s.topics = {} => s.cited = {}}

Batches == Len(log) + Cardinality({m \in late : m.kind = "append"})

Select ==
  /\ pc = "collect"
  /\ \E found \in Collected :
     \E top \in Selections(Unseen(Deduped(found), SeenKeys(today))) :
       \/ top = {} /\ topics' = {} /\ cited' = {} /\ Goto("report")
       \/ /\ top # {}
          /\ \E s \in Syntheses(top) :
               /\ topics' = s.topics /\ cited' = s.cited
               /\ \/ s.topics = {} /\ Goto("rebuild")
                  \/ s.topics # {} /\ Batches < MaxBatches /\ Goto("append")
  /\ UNCHANGED <<serverVars, repo, today, stars, tree, netVars, clean>>

AppendEvents == Call("append", "rebuild")

(* Mutant of Rebuild: from the events as they were before the append. *)
RebuildStale ==
  /\ pc = "rebuild"
  /\ stars' = IF topics = {} THEN Proposed(log)
              ELSE Proposed(SubSeq(log, 1, Len(log) - 1))
  /\ Goto("replace")
  /\ UNCHANGED <<serverVars, repo, today, topics, cited, tree, netVars, clean>>

(* derive.rebuild, from the events as they are now. *)
Rebuild ==
  /\ pc = "rebuild"
  /\ stars' = Proposed(log)
  /\ Goto("replace")
  /\ UNCHANGED <<serverVars, repo, today, topics, cited, tree, netVars, clean>>

ReplaceDerived == Call("replace", "report")
SaveReport == Call("report", "snapshot")

(* Mutant of Snapshot: the empty line at the end counts as an event. *)
SnapshotOneMore ==
  /\ pc = "snapshot"
  /\ tree' = [tree EXCEPT !.events = Len(log) + 1]
  /\ Goto("stars")
  /\ UNCHANGED <<serverVars, repo, today, topics, cited, stars, netVars, clean>>

Snapshot ==
  /\ pc = "snapshot"
  /\ tree' = [tree EXCEPT !.events = Len(log)]
  /\ Goto("stars")
  /\ UNCHANGED <<serverVars, repo, today, topics, cited, stars, netVars, clean>>

(* The export reads the derived tables, then the reports and the events,   *)
(* and writes its files over those of the checkout.                        *)
ReadStars ==
  /\ pc = "stars"
  /\ stars' = tables
  /\ Goto("export")
  /\ UNCHANGED <<serverVars, repo, today, topics, cited, tree, netVars, clean>>

Export ==
  /\ pc = "export"
  /\ tree' = [events |-> tree.events,
              stars |-> stars,
              new |-> {c \in stars : FirstDate(c) = Max(DOMAIN reports)},
              places |-> BuildLayout(stars, tree.places),
              index |-> reports]
  /\ Goto("publish")
  /\ UNCHANGED <<serverVars, repo, today, topics, cited, stars, netVars, clean>>

(* Mutant of Publish: a day without topics is not published. *)
PublishTopicsOnly ==
  \/ topics # {} /\ Call("publish", "persist")
  \/ /\ pc = "publish" /\ topics = {}
     /\ Goto("persist")
     /\ UNCHANGED <<serverVars, repo, today, topics, cited, stars, tree, netVars, clean>>

Publish == Call("publish", "persist")

(* Commit and push; the notification after it cannot fail the job. *)
Persist ==
  /\ pc = "persist"
  /\ repo' = tree
  /\ Ends
  /\ UNCHANGED <<serverVars, today, netVars, clean>>

----------------------------------------------------------------------------
(* Failures. *)

Fault == faults < MaxFaults /\ faults' = faults + 1

Lose(kind, what) ==
  /\ lost < MaxLost
  /\ lost' = lost + 1
  /\ late' = late \union {[id |-> lost + 1, kind |-> kind, what |-> what]}

(* A transport error or a 5xx on the first attempt. *)
Resend ==
  /\ pc \in Requests /\ attempt = 0
  /\ Fault
  /\ Lose(pc, What)
  /\ attempt' = 1
  /\ UNCHANGED <<serverVars, repo, pc, today, topics, cited, stars, tree, clean>>

(* An error in any step ends the job, and the files it has not pushed are  *)
(* gone: a second lost answer, an LLM error, a refused push, a killed      *)
(* runner.                                                                 *)
Abort ==
  /\ pc # "idle"
  /\ Fault
  /\ UNCHANGED <<late, lost>> \/ (pc \in Requests /\ Lose(pc, What))
  /\ Ends
  /\ clean' = FALSE
  /\ UNCHANGED <<serverVars, repo, today>>

ServeLate(m) ==
  /\ m \in late
  /\ late' = late \ {m}
  /\ Execute(m.kind, m.what, TRUE)
  /\ clean' = FALSE
  /\ UNCHANGED <<repo, jobVars, lost, faults>>

(* A tutor session or an API call rebuilds as well: it has read the events *)
(* and will replace the tables by what it derived from them.               *)
RebuildElsewhere ==
  /\ Fault
  /\ Lose("replace", Proposed(log))
  /\ UNCHANGED <<serverVars, repo, jobVars, clean>>

----------------------------------------------------------------------------

Job ==
  \/ Select \/ AppendEvents \/ Rebuild \/ ReplaceDerived \/ SaveReport
  \/ Snapshot \/ ReadStars \/ Export \/ Publish \/ Persist

Next ==
  \/ Start \/ Job \/ Resend \/ Abort
  \/ \E m \in late : ServeLate(m)
  \/ RebuildElsewhere

(* The schedule starts a job every day, and a job in progress goes on.     *)
Spec == Init /\ [][Next]_vars /\ WF_vars(Start) /\ WF_vars(Job)

----------------------------------------------------------------------------
(* Properties *)

(* No item is reported twice, under any of its keys, on any day, after any *)
(* failure of an earlier run; unless a request whose caller had given up   *)
(* on it was executed after all.                                           *)
ProposedOnce ==
  \A i, j \in DOMAIN log :
     (i < j /\ ~log[i].late /\ ~log[j].late) =>
        CitedKeys(log[i]) \intersect CitedKeys(log[j]) = {}

(* Whatever step a job has failed at, the public data is whole: each star  *)
(* has a place of its own, today's stars are on the map, the newest report *)
(* of the index has its page, and all topics are of events in the ledger.  *)
(* In git, the snapshot holds the events of every report beside it.        *)
PublicIsWhole ==
  /\ DOMAIN published.places = published.stars /\ IsInjective(published.places)
  /\ published.new \subseteq published.stars
  /\ published.index # << >> =>
       LET newest == Max(DOMAIN published.index) IN
       newest \in DOMAIN published.pages /\ published.pages[newest] = published.index[newest]
  /\ UNION Range(published.index) \subseteq Proposed(log)
  /\ UNION Range(repo.index) \subseteq Proposed(SubSeq(log, 1, repo.events))

(* A job that succeeded, with no late request executed since it began,     *)
(* leaves the three stores in agreement, and the topics of its report are  *)
(* on the map.                                                             *)
SuccessIsPublished ==
  (pc = "idle" /\ clean) =>
     /\ published.index = reports /\ repo.index = reports
     /\ published.stars = tables /\ repo.stars = tables
     /\ published.places = repo.places
     /\ repo.events = Len(log)
     /\ reports[today] \subseteq tables
     /\ {c \in reports[today] : FirstDate(c) = today} \subseteq published.new

(* A star that is drawn where git has it stays there when a job publishes. *)
PlacesKept ==
  [][late' = late =>
       \A c \in DOMAIN published.places \intersect DOMAIN published'.places :
          (c \in DOMAIN repo.places /\ repo.places[c] = published.places[c]) =>
             published'.places[c] = published.places[c]]_vars

(* Failures come to an end, and then every day that has a report row is in *)
(* the public index and in git, for good.                                  *)
PublicSettles ==
  <>[](DOMAIN published.index = DOMAIN reports /\ DOMAIN repo.index = DOMAIN reports)

=============================================================================
