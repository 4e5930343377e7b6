# A TLA+ model of astrolabe-core

Astrolabe is a personal learning assistant: a morning job collects papers and
articles, has an LLM choose topics and appends them to a *ledger*; a tutor chats
with the learner and records feedback, tasks and quizzes in the same ledger; and
the ledger's append-only `events` are turned into a map of concepts with their
status and confidence. These modules model the ledger, the functions computed
from it, the budget that everything which calls the flagship model shares, the
batch jobs that keep GitHub issues and the ledger in step, and the daily job from
the collected items to the public map.

All paths below are relative to the repository; `ledger/`, `tutor/` and so on
are under `src/astrolabe/`.

## 1. The system

| part | state it keeps | operations | talks to |
|---|---|---|---|
| Ledger store: `ledger/{store,events,db,backend}.py` (SQLite), `ledger/supabase.py` and `supabase/migrations/*.sql` (Supabase) | tables `events` (append only), `tasks`, `profile`, derived `concepts`/`edges`, `daily_reports`, `llm_usage`, `published_artifacts` | append, record_interview, create_task, complete_task, replace_derived, save/total usage, publish, import_state | called by everything; Supabase over HTTP with one retry per request |
| Derivation: `ledger/derive.py` | none | `derive(events)`, `rebuild` = load, derive, replace | run by every writer after its write |
| Review scheduler: `ledger/review.py` | none | `review_schedule(events, today)`, `due_reviews` | morning job, tutor |
| Flagship budget: `tutor/budget.py`, `WeeklyBudgetGuard` in `weekly_review.py`, `llm/budget.py` | `llm_usage` rows per run id, counters in memory | check before a call, record after it | between LLM client and ledger |
| LLM client and stages: `llm/{client,triage,synthesize,fixtures}.py` | none | one call with a single retry; batches; validation | OpenAI |
| Tutor: `tutor/{engine,tools,runtime,server}.py` | none on the server (the client sends the history) | a turn of at most 8 rounds and 16 tool calls; tools that read and write the ledger | ledger, LLM client; a thread per request locally, a serverless function publicly |
| Morning pipeline: `pipeline/morning.py`, `cli.py morning`, `docs/morning.workflow.yml` | daily report | sync feedback, collect, triage, synthesize, record topics, rebuild, report, save usage | all of the above |
| Feedback: `github_feedback.py` | GitHub issues | import open issues, close imported ones | ledger, GitHub |
| Weekly review: `weekly_review.py` | GitHub issues, tasks | analyse, create issue, create task, notify | ledger, LLM, GitHub, Discord |
| Snapshot, migration: `ledger/{snapshot,migration}.py` | JSONL file | write, restore, migrate | two ledgers |
| Publishing: `publishing.py`, `exporter.py`, `layout.py` | `exports/` in git, `published_artifacts` | export the derived tables and reports, place new concepts on the map, publish map, layout, index and newest page | ledger, the files of the private repository |
| Public API: `public_api/*` | none | authenticate, dispatch | tutor runtime |
| Collectors, rendering, notification, configuration, `anon_guard.py`, CLI | none | I/O and formatting | |

### What is hard

* **Three requests, no transaction.** A write is followed by a rebuild: a read of
  all events, a computation in the *caller*, and a request that replaces the
  derived tables. Each is atomic on its own. Between two callers, between a call
  and a request that arrives late, and around a crash, the tables may lag behind
  the events or go back.
* **Retries of what is not idempotent.** `SupabaseLedger._request` repeats a POST
  once after a transport error or a 5xx, without a request id.
* **Check, then act.** `complete_task` of the SQLite backend reads the status
  before Python's `sqlite3` begins the transaction; the budget guards read the
  usage before a call and write it after.
* **Events out of order.** They are applied in the order of their timestamps and
  arrive in another: imports, restores, several clocks.
* **Two folds over one log.** `derive` and `review_schedule` read the same events
  and must agree.
* **A job over three stores.** The daily job writes the ledger, then the published
  artifacts, then git, and may fail between any two; nothing is rolled back. The next
  run starts from what it finds, on the same day or a later one, and must not report
  an item again, publish half a map or move a star.

`PROJECT.json` lists the hazards at their lines, and the properties that address
each.

### What would make each part correct

* *Ledger*: a task row and its events agree; a task is done once; profile and
  interview events agree; the derived tables are always `derive()` of a past log
  and, when nothing is under way, of the whole log; a caller that gets a success
  sees its own write; an acknowledged write is not hidden again.
* *Derivation*: status, confidence and edges are what the events in order mean,
  independently of arrival; events that say nothing of knowledge change none.
* *Scheduler*: learned concepts are scheduled; intervals grow on success and stay
  within a year; ease stays in its range.
* *Budget*: recorded is what was spent; a cap is passed by a known amount at most;
  turns end.
* *Feedback, weekly review*: rerunning after a failure at any step neither loses nor
  repeats what was done; an issue is closed only after its event is in; a task and a
  notification refer to an issue that exists.
* *Morning, publishing*: no item is reported twice, whatever step an earlier run failed
  at; what the public sees is whole at every moment; a successful run leaves ledger,
  public data and git in agreement; places on the map are stable; after failures the
  public data catches up.
* *Snapshot, migration*: a migration that succeeds has copied everything; a rerun does
  not take a ledger in use out of agreement with its events; the counters stay ahead of
  the ids, so that no later write is refused; a restored file has the profile of the
  last interview.

## 2. Modules

| module | models | state and actions |
|---|---|---|
| `LedgerState` | tables and write transactions common to both backends | `log`, `tasks`, `profile`, `derived` (the length of the log prefix the derived tables were computed from; the function itself is in `Derive`); `AppendNote`, `RecordInterview`, `InsertTask`, `MarkTaskDone`, `ReplaceDerived` |
| `AbstractLedger` | what either backend promises | one atomic `Write` or a `Rebuild` from any past prefix (`Spec`), or from one no older than the current (`FreshSpec`) |
| `SupabaseLedger` | clients of the Supabase backend, the server, and the network between | `pc`, `req` per client: write request, GET, replace request. `stray`: requests a client has given up on and the server may still execute. `Retry`, `GiveUp`, `FailWithoutEffect`, `Crash`, `ReplaceConflict` (two overlapping `replace_derived`, HTTP 409) |
| `SqliteLedger` | connections to one SQLite file in WAL mode | `Write`, `CheckTask`/`UpdateTask` (the two halves of `complete_task`), `Load`, `Replace`, `LockedOrKilled` |
| `Derive` | `derive()` | operators `Effect`, `Ensure`, `MergeEdges`, `ApplyEvent`, `Latest`, `DeriveFrom`: the fold over the events in `(ts, id)` order, as a function of the set of events that takes the latest off at each step |
| `ReviewSchedule` | `review.py` | operators `Graded`, `MarkedKnown`, `Selected`; days are integers, ease in hundredths |
| `Learning` | one log, growing in any order of timestamps, and the two things computed from it | `events`, `tables`, `schedule`; `Record`, `Repeat` (an append sent twice) |
| `ReviewDays` | the review state of one concept over the days | `state`, `today`; `Wait`, `Quiz`, `TaskDone`, `MarkKnown`, `Select` |
| `FlagshipBudget` | the flagship budget of a day | `usage` (rows of `llm_usage`), ghost `spent`, per process the guard's `own` (`_run_used`), TokenBudget's `mem`, estimate, attempt, round; `CheckTutorCap`, `CheckTotalCap`, `CheckMemory`, `Respond`, `CallFails`, `Save`, `MorningProceed`, `SaveLost`, `LateSave`, `Crash` |
| `JobState` | what the batch jobs share: the repository's issues, the ledger rows they correspond to, the requests | `issues`, `noted` (the feedback events: a bag of issue numbers), `tasks` (rows per proposal), `pc`, `recorded`, `sending`, `attempt` per runner, `late`; `Resend`, `Abort`, `ServeLate` |
| `FeedbackSync` | `github_feedback.py`, with the receipt between the workflow's import and close | `toClose`; `OpenIssue`, `BeginSync`, `List`, `ListFails`, `AppendEvents`, `Rebuild`, `CloseNext`, `EndSync` |
| `WeeklyReview` | `run_weekly_review` and its GitHub client | `plan`, `at`, `announced`; `BeginReview`, `Find`, `PostIssue`, `CreateTask`, `Refresh`, `Notify`, `OwnerCloses` |
| `LedgerJobs` | the two together on several runners: the CI runner (one job at a time, the workflows' concurrency group) and shells | composition, `Fails` |
| `LedgerTransfer` | the migration of a SQLite ledger to Supabase beside callers of both, and the profile a restored snapshot gives | `log`, `rows`, `profile` per ledger; of Supabase also `open` (writes that have taken their ids and not committed) and the counters `nextEvent`, `nextTask`; the migration's `pc`, `copy`, `expected`, `state`; `RecordInterview`, `CreateTask`, `CompleteTask`, `Commit`, `RollBack`, `Begin`, `DeriveSource`, `SendEvents`, `CheckTarget`, `CheckDerived`, `ReadState`, `SendState`, `Resend`, `Abort`, `ServeLate`; ghosts `touched`, `sound`, `raced` |
| `Dedupe` | `collect/dedupe.py` | operators `Deduped`, `Unseen`; an item has several keys, two that share one are the same |
| `Layout` | `layout.py` | operators `FreePlace`, `BuildLayout` |
| `MorningJob` | the steps of `docs/morning.workflow.yml` after the feedback: `run_morning`, `snapshot`, `export`, `publish-exports`, `git push` | server: `log` (batches of `proposed` events), `tables`, `reports`, `published`; `repo`, the files in git; the job's `pc`, `today`, `topics`, `cited`, `stars` (what it has read or derived), `tree` (its checkout), `attempt`; `late`. `Start`, `Select`, `AppendEvents`, `Rebuild`, `ReplaceDerived`, `SaveReport`, `Snapshot`, `ReadStars`, `Export`, `Publish`, `Persist`, `Resend`, `Abort`, `ServeLate`, `RebuildElsewhere` |
| `LedgerStateProofs`, `SupabaseLedgerProofs`, `SqliteLedgerProofs`, `LearningProofs`, `FlagshipBudgetProofs`, `LedgerJobsProofs`, `LedgerTransferProofs`, `MorningJobProofs` | proofs | section 4 |
| `MC...` | definitions the `.cfg` files give as values to constants | |

Operators named "Mutant of ..." are plausible bugs of a definition, each kept
before the definition it stands for; nothing uses them. They are the test of the
properties: with the mutant in place of the definition, its property fails.

`SupabaseLedger` and `SqliteLedger` implement one specification: both say
`Abstract == INSTANCE AbstractLedger WITH log <- log, tasks <- tasks, ...`, which
forgets the callers and the network and keeps the tables. A transaction of the
server or the file is an abstract `Write` or `Rebuild`, everything else a stutter.
`Learning` leaves out when rebuilds happen, `SupabaseLedger` what they compute, and
`MorningJob` of both what the stars and reports of a day need.

### Abstractions to know

* `derived` as a number is exact because `derive()` is a function of the set of
  events it was given and a rebuild reads a prefix in commit order (one page of
  1000 rows; paging is not modelled).
* A tool call of the tutor is one call of `SupabaseLedger`; a call whose client
  died is a call with result "error".
* Two `replace_derived` transactions that overlap collide in the model, and one of them
  is rolled back. In the database (READ COMMITTED) they collide only where both insert
  the same keys. When the edges, or both tables, are empty on one side, the concepts of
  one prefix and the edges of another can be committed together; `derived` is one number
  and leaves this out (`ReplaceConflict`).
* An LLM answer may use more than its estimate: `estimate_tokens` takes half the length
  of the prompt, which `llm/budget.py:18` calls safe for English input; Japanese has
  about one token per character. Estimates and usage have bounds of their own,
  `MaxEstimate` and `MaxUse`.
* Scores and ease are integers (percent, hundredths). With Python's floats an
  interval that falls exactly between two days may be rounded down or up;
  `Rounded` has both outcomes.
* In `MorningJob` an item is a number in the order of collection and its keys are a
  constant; the topics of a report cite one set of items together (which topic cites
  which is payload); a concept is on the map once it was proposed (related concepts,
  edges, statuses and texts are payload of the same tables); a report is its set of
  topics. A place is a number: the program searches outwards from an angle, hashed from
  the id, around the concept's placed neighbour, the model upwards from a constant
  `Home`. Both keep a placed star, take the first free place and depend on what is there
  already. `publish-exports --all-reports`, reviews, the HTML and the notification are
  left out. Git and the server are reached by one job at a time (the concurrency group);
  what others do to the tables is `RebuildElsewhere`. `MaxBatches` counts the appends
  that may still arrive late.
* In the feedback and review jobs, an issue's concept is known to the ledger or unknown
  for good (in the program a later topic may make it known, and the issue importable);
  nobody reopens an issue; the weekly review finds its issue among all of them, not
  among the newest hundred; what a rebuild writes is `SupabaseLedger`'s subject.
  `morning` begins with the same sync as the workflow's steps before it; both are
  `Sync`.
* In `LedgerTransfer` a write to SQLite is one step. One to Supabase takes its ids first
  and commits or is rolled back later; a rollback leaves a gap. An import is one step: it
  sees what is committed and waits for a write in flight that holds a key of its own, but
  its `max(id)` does not see the ids in flight, which is what the race over a counter is
  about. Two imports at once are not interleaved: a counter that was reset with a late
  import about counts as `raced`, and an import may fail because of one. A timestamp is
  whole seconds or has a fraction (`fine`), which `load_events` of Supabase cuts off;
  interviews have whole seconds. An interview is its one `interview` event, the reads of
  profile and tasks are one step, and daily reports are left out. Rebuilds and retries of
  callers are `SupabaseLedger`'s subject. Whether two logs give the same concepts is left
  open when the logs differ. A restore is a function of the events: its kill half-way,
  and the later life of a restored file, are not modelled.
* `FlagshipBudget` lets a weekly review and a morning job make as many calls as a
  tutor's turn; in the program their number comes from their stages.

## 3. What is checked

`tlc -workers 2 -config X.cfg M`. Each run finishes within three minutes. Deadlock is
an error in `MorningJob`, whose job can always be started or go on. In the other runs
it is not: those systems stop when their bounded number of calls, turns, events or
days is used up or nobody calls.

| run | shows | bounds |
|---|---|---|
| `SupabaseCallers` | `TasksMatchLog`, `ProfileMatchesLog`, `AttemptInsertsOnce`, `ReplyShowsOwnWrite`, `ImplementsLedger` | 2 clients, 3 calls, 2 faults; interview, create, complete |
| `SupabaseOneCaller` | `QuietMeansFresh`, `FreshUntilFault`: a single caller has fresh tables until something fails; `CallReturns` | 1 client, 3 calls, 2 faults, every operation |
| `SupabaseStaleOverwrite` (violation) | `AckedVisible` fails with two callers and no fault | 2 clients, 2 calls |
| `SqliteThreads` | `RowsMatchLog`, `ReplyShowsOwnWrite`, `ImplementsLedgerOnceDone` | 2 connections, 4 calls, 2 faults |
| `SqliteDoneTwice` (violation) | `TaskDoneOnce` fails with two connections | 3 calls |
| `LearningOrders` | `StatusSpec`, `LearnedIsScheduled`, `EdgesSpec`, `NeutralEvents`, `RetryHarmless` | 2 concepts, every kind, 4 events, 2 instants |
| `ReviewDays` | `Scheduled`, `SettledIntervalsGrow` | every answer sequence within 2 days: all reachable intervals and eases |
| `BudgetSessions` | `RecordedWhenQuiet`, `SpendingBounded` | 2 tutor sessions, a weekly review, 3 turns of 2 rounds, estimates up to 2, usage up to 3 |
| `BudgetFaults` | `RecordedIsSpent`, `TurnEnds` | 2 requests of one session, a morning job, 2 turns, 2 faults, estimate 1, usage up to 2 |
| `LedgerJobs` | `ClosedIsNoted`, `CopiesBounded`, `AnnouncedIsDone`, `ImportedUnlessCrowded` | CI runner and a shell, 1 feedback issue, 2 reviews of up to 2 proposals, one title, page of 2 issues, 2 faults |
| `MorningJob` | `ProposedOnce`, `PublicIsWhole`, `SuccessIsPublished`, `PlacesKept`, `PublicSettles` | 2 items that share a key, 2 concepts whose search begins at the same place, 2 topics, 2 days with any number of jobs on each, 2 batches, 1 lost answer or concurrent rebuild, 2 faults (2.1 million states) |
| `LedgerTransfer` | `SuccessIsCopy`, `RerunKeepsAgreement`, `IdsFree` | 3 writes to two ledgers, 3 migrations, 2 faults (4.1 million states) |

Type invariants (`TypeOK`, `ReviewTypeOK`) are checked besides in the runs whose `.cfg`
lists them, and all of them are proved (section 4).

Why the bounds are enough: the interleavings that matter are those of two callers, one
of them overtaken by the other (more callers add more of the same overtaking); two
faults let both attempts of a request be lost, or a late request meet a crash; the
proofs of section 4 are for any number of either. In `Learning` every rule of `derive`
looks at one concept's earlier status, and four events reach every status and come back
(unknown, queued, learning, learned, review, learned) in every order of two instants and
of ids. In `ReviewDays` the number of answers per day is not bounded, so the state space
of interval and ease is covered whole. The budget's caps are 2 and 4 (3 in
`BudgetFaults`), so one call can reach the tutor's cap and two the total; a call may use
one token more than the greatest estimate. In `LedgerTransfer` two writes make and
finish a task or replace a profile, a third follows a migration, meets it or is in
flight beside an import, and three migrations are one that fails, one that completes it
and one that is repeated; a fourth write with two migrations shows no more (14.4 million
states). In `LedgerJobs` one title is enough: proposals of different titles share
nothing, two with one title (in a review or in two) share everything; a page of 2 issues
is filled by the drafts of the weekly review, which no sync closes, and a review leaves
room for the feedback issue or does not. In `MorningJob` two days suffice because a job
knows of the past only the log, the reports and its files: the second day sees every way
the first can have ended, with reruns on either. Two items with a common key and one of
their own are a duplicate in one collection and one between two days; two concepts with
one home are placed in the order of their ids or of their arrival; one lost request may
be each of the four a job sends, and may be executed in any later job.

Fairness is weak, on the steps of a call or turn that has begun. HTTP and LLM
calls have timeouts (20 s and 120 s, `httpx` and `openai` clients), so a caller
waiting for an answer always goes on, with it or with an error. No fairness is
assumed of starting a call, of the server executing a stray request, or of late
saves. The exceptions are `StartSync(CI)` in `LedgerJobs` and `Start` in `MorningJob`:
the workflow's schedule starts the daily job every day, and the concurrency group makes
it wait for the weekly review rather than cancel it. `PublicSettles` and
`ImportedUnlessCrowded` are about runs in which failures come to an end (`MaxFaults`);
the last failure may come at any time, at any step.

### What the violations say

* **`AckedVisible`** (`SupabaseStaleOverwrite`): A and B both write; A loads, B loads
  later and replaces, A's older tables replace them. B's acknowledged quiz is missing
  from `concepts` until somebody writes again. The same happens to a single caller whose
  replace request times out and is executed late (the same run with `Clients = {c1}` and
  `MaxFaults = 1`). The events are never lost (`ImplementsLedger`).
* **`TaskDoneOnce`** (`SqliteDoneTwice`): two `task_done` events for one task, so its
  delta is added twice and it counts as two reviews. Supabase locks the row.

### What a migration does not promise

`migration.py:1` and `docs/dev-ledger.md:64` call the migration idempotent. These are the
cases in which it is not, each a behaviour of the model and a condition of a property.

* **It refuses timestamps with a fraction of a second, after it has imported them.**
  `migration.py:44` sends the events, `:50` compares those of SQLite, as they were
  written, with those of Supabase, which `supabase.py:177` cuts to the second. The tools
  of a tutor write microseconds (`tutor/tools.py:36`), so a source with a task or a quiz
  of the tutor is refused every time. The target then has the events of tasks and not
  their rows, with no fault and nobody else writing; a second try fails in the same way.
* **Nothing stops writers.** A write to either ledger between the steps of a migration
  can leave the target's rows and events in disagreement, and a request given up on can
  do so after it.
* **A failure between the events and the rows** leaves the same target as a refusal, until
  the next migration succeeds.

`RerunKeepsAgreement` says what is left: SQLite's rows and events always agree, and the
target's do until one of these happens, and again after a migration that succeeds
undisturbed. It covers reruns over a target in use, after gaps in its ids, and refusals
that add nothing. `SuccessIsCopy` is about migrations with nobody writing since they
began.

* **A counter may be put back.** `astrolabe_import_events` reads `max(id)` and sets the
  sequence to it without a lock (`202607190001_m3_ledger.sql:138`; `:329` for tasks). A
  write that has taken its id and not committed is not seen: the counter goes back to
  that id, it is given again, and whichever commits later is refused (a duplicate key).
  `IdsFree` says that the counters are ahead at every other moment, whatever ids were
  lost in rollbacks: a counter is in doubt from an import with a write or another import
  beside it (`raced`) until the next import of that table that has none.

### What the daily job does not promise

`PlacesKept`, `SuccessIsPublished` and `PublicIsWhole` are as strong as the code allows;
these are the cases they leave out, each a behaviour of the model.

* Publishing comes before the push (`docs/morning.workflow.yml:85` and `:88`). When the
  push fails, the next run lays the map out from git, without the places just published,
  and stars that were added meanwhile can take them: a published star moves.
  `layout.py:3` says that existing coordinates are never moved, which is true of the
  *file* it is given. Hence the condition on `repo.places` in `PlacesKept`.
* When publishing fails, the step that saves snapshot, HTML and exports in git is
  skipped; `docs/deployment.md:81` says that the saving is kept.
* A report page is published by the run that makes it the newest. If that run fails to
  publish and the next one is on another day, the index lists the date and its page is
  missing until somebody runs `publish-exports --all-reports` (`publishing.py:74`).
  `PublicIsWhole` asks for the newest page only.
* The concepts of a failed run's events reach the tables with the next rebuild, and a
  rerun that finds nothing new makes none (`pipeline/morning.py:125` is inside
  `if fresh`), replaces the day's report by one without topics (`ledger/store.py`
  documents that) and succeeds.
* A late replace takes concepts off the map for a time; the layout drops their places,
  and they come back elsewhere.
* An append whose caller gave up and which is executed after all reports its items
  again: `ProposedOnce` is about batches that a job saw confirmed (`late` in the log).
* `cli.py:383` tells the user that nothing has reached the ledger (台帳へは未反映) when
  the LLM fails; the feedback that the same command has imported before is in it.

Some things the runs do not refute but a reader of the docs should know. Turns check the
caps with an estimate before they spend, and a call may use more than that: one turn
alone can pass a cap by the rest of a call, and N of them by less than N whole calls
(`SpendingBounded`). Two requests of one session overwrite each other's usage row, and
the guard then allows what was already used (`tutor/budget.py:32`; `BudgetSessions`
gives every session one request at a time, `BudgetFaults` does not). And `derive.py`'s
docstring is wrong twice: a `marked_known` with a confidence in its payload does not
raise the confidence to the default 0.8, and a `chat_note` that names an unknown concept
makes it; `Effect` and `EdgesSpec` follow the code.

## 4. What is proved

Checked by TLAPS, for any sets of clients and operations and any bounds: every safety
invariant and every action property that the passing runs check is a theorem, under the
assumptions named with it.

`SupabaseLedgerProofs`, from `MaxCalls \in Nat`, `MaxFaults \in Nat` and
`Ops \subseteq WriteOps`:

| theorem | states |
|---|---|
| `TypeCorrect` | `Spec => []TypeOK` |
| `TasksAlwaysMatchLog` | task rows and events agree, no task is completed twice |
| `ProfileAlwaysMatchesLog` | the profile is the last interview's, no rebuild cuts an interview |
| `AttemptsInsertOnce` | an attempt of a call inserts its events at most once |
| `RepliesShowOwnWrites` | a successful reply implies that the derived tables contain the event (an action property) |
| `BackendImplementsLedger` | `Spec => Abstract!Spec` |

None of the invariants is inductive alone. `IInv` adds what the requests on the
way are like: which attempt of which call they belong to (`CallsDistinct`,
`FirstAttempts`, `StraysFit`: a stray first attempt belongs to a client that has
moved on to its second, so the same attempt is never twice on the way), that a
loaded prefix is a cut of the log between transactions (`RequestsFit`), that what
the log holds was sent (`LogFits`), and that a client which has loaded has its own
event in what it loaded (`OwnWriteLoaded`). Without `StraysFit` a late request
could insert an attempt a second time; without the cut in `RequestsFit` a late
replace could split an interview. `LedgerStateProofs` proves once how each write
transaction preserves the agreement of tables and log; `SupabaseLedgerProofs` has
one step per action on top of it. `BackendImplementsLedger` maps each server
transaction to an abstract `Write` or `Rebuild` (the prefix of a replace is within
the log by `RequestsFit`) and everything else to a stutter. With one client
(`OneClient`: no two clients differ), `OneCallerStaysFresh` and
`OneCallerFreshUntilFault` add what run `SupabaseOneCaller` checks: `FreshInv` says that
without a fault nothing is stray, the tables are of the whole log before each write, and
a replace carries the whole log; so no rebuild takes the tables back, and what is found
between calls is up to date. The violated `AckedVisible` shows that `OneClient` is needed.

`SqliteLedgerProofs`, from `MaxCalls \in Nat`, `MaxFaults \in Nat`,
`Ops \subseteq WriteOps`: `TypeCorrect`, `RowsAlwaysMatchLog`, `RepliesShowOwnWrites`
and `FileImplementsLedgerOnceDone`, for any number of connections. The invariant says
of each caller past its write that its event is in the log and that what it has loaded
is a cut that holds it (`RequestsFit`), that two callers never work on one call
(`ResultsFit`), and that rows, profile and log agree (`LedgerFits`). `DoneOnce` is not
among its conjuncts, because the code does not keep it: the refinement is of the steps
after which no task is done twice, and the lemma `DoneTwice` shows that an update of a
task already done is never such a step.

`FlagshipBudgetProofs`, from `CapsAssumption` and `ProcsAssumption`: `BudgetTypes` and
`RecordedIsAlwaysSpent` (the ledger never shows more than was used), for any number of
sessions, reviews and morning jobs, any assignment of run ids and any faults. What a
process has counted itself (`OwnIsSpent`) and what a save that was given up on will
write (`LateIsSpent`) is within what the run id has spent, so whichever of them
overwrites the row last, the row stays within it.

`SpendingIsBounded` and `QuietRowsAreComplete` assume besides `OwnRows`: there is a
tutor, there are finitely many run ids, and each tutor turn and weekly review has one of
its own (one request per session at a time, as in run `BudgetSessions`). `NothingFailed`
is what holds until a fault: a guard has counted what its row has or will have
(`RowsFit`), and what is spent, with a whole call for every process past a check that
has not yet got its answer, exceeds the cap by less than a whole call for each process
(`WithinCap`). A step either takes a process past the check, which has then read a total
below the cap, or turns a call into spending, whatever its estimate was (`CapKept`). The
sums are folds over sets; `TotalAdds` gives them a recursion, and needs first that a
function with that recursion exists (`SumsExist`).

`LedgerJobsProofs`, from `JobsAssumption`, `PageAssumption` and `CI \in Runners`:
`ClosedIsAlwaysNoted`, `AnnouncedIsAlwaysDone`, `JobTypes` and `CopiesAlwaysBounded`,
for any finite number of runners at once. `SyncFits`: a receipt names issues whose
events are in the ledger or in the request just being sent, so nothing is closed early
when the job fails there. `ReviewFits`: a review has both effects of every proposal
before the current one, and sends for a task only when its issue exists; `LateFits` says
so of the request it gives up on, which would otherwise make a task without an issue.
That another runner cannot spoil this is `Grows`: the servers only add issues, events
and tasks. How often something is repeated is an account (`Accounts`): the copies that
exist, the requests for one that may still be executed, and the runners that may send
one, are together at most as many as there are runners and lost answers. A job that
sends leaves the last of the three; a lost answer that is sent again pays with itself.
`CreatesUnrecorded` is the step that must not fail: a review about to create a task has
not found it.

`LedgerTransferProofs`, from `TransferAssumption`: `SuccessIsAlwaysCopy`,
`IdsAlwaysFree` and `RerunsKeepAgreement`, for any number of writes, rollbacks,
migrations and faults. `Fits` bounds every id by the number of writes, so that tables
have a largest id and a counter set to it is ahead of them (`LastIdBounds`,
`EventsCounterAhead`). The hard part of the copy is that a state written to the target
leaves no row of an earlier migration behind: `TargetTasks` says that every row of the
target is one of the source's or has an event in the target, so when the two logs are
equal there are no other rows; that rests on `SourceTasks`, on tasks never being taken
back (`StateFits`), and on what the migration has read still being true when nobody has
written (`Undisturbed`). That the check of the events, which compares cut timestamps,
does make the logs equal is `CheckedIsCopy`: after the import (`Imported`) no other event
of the target has an id of the copy. For the agreement, `ApplyAgrees` shows what a write
needs to keep rows and events together (ids of its own, the newest interview),
`OpenTasks` and `SoundFits` that a write in flight still has it when it commits: while
nothing has spoilt the target its counters are ahead, and nothing is in flight during a
migration.

`MorningJobProofs`, from the assumptions of its constants (finite sets of items and
concepts, at least one day), for any items, keys, days, jobs, lost answers and faults:

* `NoItemTwice`. `NotAhead`: what jobs have recorded is of a day not later than today,
  so a selection sees all of it (with events of a later date the filter would let items
  through); `CitedIsNew`: what is about to be recorded shares no key with it, which
  needs that nothing is recorded by a job between the selection and the append.
* `MorningTypes`, `StarsStay`. Both rest on what `BuildLayout` returns for every set of
  concepts and every old layout: a place of its own for each concept, and the old one
  where there was one (`BuildLayoutFacts`). There is always a free place, because among
  one more places than there are stars one is not taken (`FreePlaceIsFree`).
* `PublicIsAlwaysWhole`. `WInv`: not only what is published, but the files in git and in
  the job's checkout are whole, reports and what a request may still write cite only
  topics that are recorded, and a snapshot holds the topics of the reports it is
  exported with (`SnapshotHolds`).
* `SuccessIsAlwaysPublished`. `EInv`: as long as the job is `clean`, every station has
  achieved its part (`Achieved`), and no report is of a day to come.

`LearningProofs`, on `ReviewDays` from `MaxDay \in Nat`: `ReviewTypes`,
`AlwaysScheduled` and `SettledIntervalsAlwaysGrow`. `ReviewTypeOK /\ Scheduled` is
inductive (a re-selection needs that the last review is not in the future, which the
types have). The growth of intervals rests on `RoundedGrows`: rounding a multiple of at
least 1.3 of an interval never goes below it, even when a tie is rounded down.

On `Learning` from the assumptions on its records, for any concepts, instants and number
of events: `LearningTypes`, `StatusIsMeant`, `LearnedIsAlwaysScheduled`,
`EdgesAreDeclared`, `NeutralEventsStayNeutral` and `RetriesAreHarmless`. The invariant
of the steps is short (the events have ids of their own, tables and schedule are what
the log gives); the work is in the two passes over a log, which are lemmas about every
finite set of events. `LogInd` proves something of a log when it holds of the empty one
and of each with its latest event taken off. `ApplyIs` says what one event does to what
is known of a concept and `MergeIs` what it does to the edges. Then `MeaningStep`
compares one turn of the loop with `StatusOf`, which looks only at the events that
matter; `EdgesAre` finds the greatest weight and the first event of an edge; `NeutralIs`
and `CopyIs` compare a log with the one without an event in the middle of it: the latest
event is the same in both, until it is the one in question.

Induction over data is by the smallest counterexample, since no installed prover can
instantiate an induction theorem of the library: the numbers, or the subsets of a finite
set, for which a claim fails are a set, and `NatLessThanWellFounded` or
`FS_StrictSubsetOrderingWellFounded` give it a minimal element. That the recursive
functions of the models (`DeriveFrom`, `ScheduleFrom`, `Deduped`, `Placed`) satisfy their
own equations is proved the same way (`PassExists`).

Only model-checked: liveness (`CallReturns`, `TurnEnds`, `ImportedUnlessCrowded`,
`PublicSettles`), outside TLAPS's reach as is `ENABLED`. The proofs are of the models, so
what section 2 lists as left out is left out of them too.

## 5. Plan

In this order; each with its properties, runs and mutants.

1. `TutorTurn`: rounds, tool calls, limits and errors over `SupabaseLedger`. *What a
   failed turn has written; a repeated turn.*
2. The steps of a restore in `LedgerTransfer` (what a kill leaves, and the ids of the
   tasks that a restored file gives again), daily reports, the pages of `load_events`.
3. `LLMClient`: classification of errors, the triage batches with partial failures.
4. A pair of prefixes for concepts and edges in `SupabaseLedger`, for replaces that
   overlap over an empty table.
5. Proofs: that `LedgerTransfer`'s two ledgers implement `AbstractLedger` while no
   migration runs, and how far `SpendingBounded` extends to sessions with several
   requests at once.

Not modelled and not planned: the parsing, cache and pauses of the collectors,
rendering, notification, configuration, the text filter `anon_guard.py` and
command-line parsing (I/O and formatting), the public API's dispatch and token
verification (stateless), the text of a snapshot (`ledger/snapshot.py:47` splits it at
U+2028 too, which its writer leaves in a line), and the privacy filter of the weekly
review.
