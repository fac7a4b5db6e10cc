# Verification of ATS_Resumaker2

TLA+ models of this repository, the TLC runs that check them on small
instances, and TLAPS proofs of the safety properties that matter most. Paths
below are relative to the repository; `resumaker/` stands for `src/resumaker/`.

The program helps one owner apply for jobs. A FastAPI service edits a SQL
database (SQLite, or hosted libSQL/Turso) and hands long work to a queue: a
thread pool in the same process ("local"), or Cloud Tasks delivering to a worker
service ("cloud"). The worker runs a pipeline of stages over a job posting and
leaves artifacts in a run folder (disk, or a bucket). Scheduled ticks poll job
boards and email digests. An onboarding service finds out where a company posts
its jobs, with a sandboxed agent if need be. No locks or transactions span two
accesses to the database, the artifact store or the mail server, and that is
where the interesting behaviour lies.

## 1. Inventory

| component | state | operations | interacts through | hard |
|---|---|---|---|---|
| Tracker: `resumaker/ingestion/tracker.py`, `apps/api/routers/tracker.py` | table `tracker` (one row per url), run folders | add, capture, set_stage/notes, rematch, remove; run_match_for on a worker | table, artifact store, job queue | stale write-backs, overlapping matches, deletes in flight, redelivery |
| Job queue and worker: `apps/api/jobs/`, `apps/api/routers/worker.py`, `deploy/terraform/triggers.tf` | queued and running jobs | submit_pipeline, submit_tracker_match, run-pipeline, tracker-match, ticks | HTTP deliveries, thread pool | at-least-once, crash, bounded attempts |
| Runs: `apps/api/routers/runs.py`, `resumaker/pipeline/` | table `runs`, `status.json`, `report.json` | start_run, get_progress, get_run, upload_resume; run_pipeline, ProgressReporter | table, run folder | two sources of progress, terminal status |
| Report page: `web/app/(app)/report/[runId]/page.tsx` | poll timers | generate, poll, reattach | runs API | told too early, never told |
| Artifact store: `resumaker/persistence/artifacts.py` | run folders, local and bucket | publish, open, delete_run, purge | worker and API | publish fails silently, stale local copies |
| Mailer: `resumaker/ingestion/notify.py` | table `notified`, the Mailer page's document, the preferences document and each process's copy of it | email_pending, email_new, mark_notified | mail server, scheduler, command line | overlap, failure between send and mark, quiet hours, cap |
| Mailer schedule: `resumaker/ingestion/schedule_sync.py` | Cloud Scheduler job | sync_mailer_frequency | preferences save | two copies of one setting |
| Ingestion: `resumaker/ingestion/service.py`, `scheduler.py` | table `jobs`, watchlist, the adapters' cached tags | ingest_all in two cadences, ingest_company, add, pause, remove | board adapters, digest | deadline, crash before the batch is written, overlapping sweeps, `not modified' |
| Board adapters: `resumaker/providers/sources/` | none but Greenhouse's tag | one listing each, twenty-eight of them | HTTP hosts | paging over a board that changes, refusals, caps |
| Deterministic onboarding: `resumaker/ingestion/onboard.py`, `fingerprint.py` | none | slug probes, careers page, fingerprint | adapters, onboarding service | another company's board under a guessable slug |
| Discovery: `resumaker/ingestion/discovery.py`, `apps/api/routers/discovery.py` | none | filters, facets, counts | table `jobs` | facets against selections, places with several sites |
| Onboarding: `resumaker/onboarding/service.py`, `agent_runner.py` | table `onboarding_runs`, watchlist | start, provide_input, stop, _run, _resume | pool threads, agent runner | stop against a running thread, whole-row overwrites |
| Onboarding agent, sandbox, drafting | containers, a pull request | resolve_via_agent, kill | one call | external |
| Profile store: `resumaker/persistence/profile.py`, `resumaker/enrichment/manager.py`, `apps/api/routers/profile.py` | the profile document, a cache in each process | load_profile, save_profile, update_profile_fact, PATCH /fact, POST /seed, `profile set` | all stages | read-modify-write of a whole document through a stale cache |
| Profile agent: `pocs/profile_agent/`, `apps/api/routers/profile_agent.py` | the conversation's file | message, yes, skip, undo, done, generate, stop | profile store, pool | the file and the document are written apart; stop against a turn and a generation |
| Scraper: `resumaker/providers/scrape/` | none | scrape by handler, structured data, rendered page | HTTP hosts | the fallback's order, the wrong posting of a list |
| Stages: `resumaker/stages/`, `resumaker/ats/` | none | structure, keywords, gap, fit, apply decision, location, sponsorship, tailoring, fact gate, scores | pipeline | boundary values, a model that answers anything |
| LLM stack: `resumaker/providers/llm/`, `resumaker/observability/cost.py`, `persistence/cache.py` | response cache, usage log | complete, check_gemini, record | all stages | check-then-act budget, cache keys |
| Renderers, extension, other pages, command line, observability | little or none | I/O, forms, formatting | | |

What makes each correct:

* **Tracker** - an entry's stage is moved by the owner only; captured text is
  never lost; a shown score has its report; a match ends visibly; a delete
  leaves nothing behind.
* **Runs** - a run gets a terminal status; the page is not told "done" about the
  previous job; a failure is told; polling ends.
* **Mailer** - no posting twice; nothing marked that was not sent or counted;
  the backlog goes out; what the cap left out stays out.
* **Onboarding** - a stop stands; resolved means added; a run leaves "running".
* **Ingestion** - the jobs table holds what boards published and forgets
  nothing; what stays wanted arrives, in its last version; a sweep does not put
  back an older version; a board is not skipped for good.
* **Adapters, discovery, stages, scraper** - each answers what its caller takes
  it to answer, on every input (section 3, Decisions).
* **Profile store and agent** - an acknowledged write is in the document; a
  confirmed proposal is stored once; a stop stands.
* **LLM stack** - the spend stays under the cap; an answer comes from the model
  that was asked.

## 2. Plan

| # | module | about | state |
|---|---|---|---|
| 1 | `TrackerMatch`, `TrackerMatchProofs` | tracker handlers against match workers | done |
| 2 | `RunLifecycle`, `RunLifecycleProofs` | a run as worker, API and report page see it | done |
| 3 | `Mailer`, `MailerProofs` | digest runs | done |
| 4 | `Onboarding`, `OnboardingProofs` | an onboarding run | done |
| 5 | `JobFeed`, `Ingest`, `MCIngest`, `IngestProofs` | what the jobs table promises; sweeps, single ingestions and the watchlist, shown to implement it | done |
| 6 | `ProfileAgent`, `ProfileAgentProofs` | the profile document, its cache and its writers; the chat | done |
| 7 | `Picking`, `Adapters`, `BoardProbe`, `Discovery`, `Sponsorship`, `Assess`, `Location`, `Resume`, `Scraper`, composed by `Decisions` and `MCDecisions`; `SequenceFacts`, `DecisionsProofs` | what depends on its input alone | done |
| 8 | `Outbox` | what the mailer promises, refined by `Mailer` without mishaps; `Ingest` composed with the mailer's arrivals | next |
| 9 | `RunArtifacts` | resume, report and upload of one run folder on several instances; composes 1 and 2 | planned |
| 10 | `LlmStack`, `MailerSchedule` | budget, fallback and response cache; the scheduler's copy of a setting | planned; see section 8 |

A run stays on the smallest instance where two actors of each kind meet: one
url or run, two workers, one or two postings, and three or so events. Theorem
to prove next: that the mailer implements its outbox (8).

## 3. The modules

### TrackerMatch

One action per access to shared state. `AddTracked`, `AddWithoutMatch`,
`CaptureTracked`, `SetStage`, `RematchRead`/`RematchWrite`
(`clear_match_error` reads and then writes a whole row) and
`RemoveRun`/`RemoveTracker` (`remove` cleans the run, then deletes the row) are
the request handlers. `ReadEntry`, `WipeRun`, `MatchSucceeds`/`MatchFails`,
`Publish` and `WriteBack` are `run_match_for` in the order of the code; between
them a worker holds the copy of the entry that it read. `UpsertTracker` is
`ON CONFLICT(url) DO UPDATE`: the stage stays, a non-empty captured text stays,
everything else is overwritten by the writer's copy. `WorkerCrash` and `Finish`
redeliver in the cloud; `ApiRestart` drops requests, and locally the pool.
`IndexRun` is `_index_run`, which logs and swallows a write that fails: a score
can then be written back while no row of the index leads to its report.
A run has two possible ids: the one a capture computes from the page's title and
the one a match derives from the posting.

* Run `tracker`: `OwnerEditsKept`, `CapturedJdKept`, `ReportBehindScore`, the
  types and, under fairness, `MatchSettles` hold.
* Run `tracker_orphan` shows a disagreement with the docstring of `remove`:
  capture, plain re-add, delete leaves the captured folder in the store.
* `ReportBehindScore` speaks of urls without overlapping matches, deletions or
  lost uploads: two overlapping matches of an entry do wipe each other's report,
  and the code claims nothing else. Of the index it speaks only when no match
  failed to be indexed.

### RunLifecycle

`row` is the status in the runs table, `statusFile` the `status.json` that the
API can see (the worker's own disk in the cloud is not the API's), `job` the
queue and its workers, `page` the report page. `StartRun` is
`POST /v1/runs`: reset the row, then submit. A worker goes through
`WipeFolder` (matches), `StartPipeline`, `EndStages`, `IndexRun`,
`FinishReporter`, and in the cloud `CheckRow`/`ForceError`, the two accesses by
which `run_pipeline_endpoint` guarantees a terminal status. `ProgressDone` is
`get_progress`: the file decides if it can be read, else the row. `ReadOutcome`
is the one `getRun` after it; when that request fails the page takes it for no
error and goes on to the documents (view "assumed").

* Run `runs`: in the cloud a run without jobs is not "running"
  (`TerminalStatus`), the page is not told done early
  (`DoneIsNotStaleInCloud`), is told of a failure if it could read the outcome
  (`FailureIsToldInCloud`), and polling ends in both deployments (`PollEnds`),
  with one exception the property names: `get_progress` does not count
  `gated_out` as terminal.
* Runs `runs_stale` and `runs_failure` show that the first two of the page's
  promises fail in the local deployment.

### Mailer

Two drivers, the mailer tick and `notify --send`, each go through `Start`
(the list of jobs), `Skip` or `Compose` (dedupe, quiet hours, cap), `Send` or
`SendFails`, `Mark`. A send may fail after the message has left. `passing` is
what the Mailer page's filter lets through; it and the cap are read anew by every
digest (`EditMailer`). `onTarget` is what the preferences document wants
(`EditPrefs`), and `copy` is what the process of the ticks has cached of it
(`load_preferences` is an `lru_cache`): the edit drops the copy only of the
process that serves it, so it drops the ticks' copy when they run in the API's
process (`shared`, the in-process scheduler) and does not when they are a service
of their own, until an instance is replaced (`NewInstance`).

* Run `mailer`: `OnceWithoutMishap`, `MarkedWasCounted`, `CappedOutStaysOut`,
  `BacklogFlushed` hold. The last excepts ticks that go by preferences edited in
  another process (`Outdated`): nothing obliges a warm instance to be replaced,
  and what is newly wanted may wait for ever. Deadlock is checked.
* Run `mailer_twice`: without the proviso, a posting is emailed twice.

### Onboarding

`state` is the state in the row; a thread has its own copy (`mine`) and writes
it through `_emit`: `Check`, then `Write`. `Load` reads the row, `Search` is the
deterministic resolve, `AgentReports`/`AgentEnds` the agent, `Contract` what
`_apply_agent_contract` makes of its answer, `Resolve`/`Add` is
`_resolve_and_add`. `ProvideInput`, `AnswerCheck`, `AnswerWrite`,
`AnswerSubmit` are `provide_input`; `Stop`, `StopWrite` are `stop`.

* Run `onboarding`: `ResolvedIsAdded`, `StopUndoneOnlyByALateWrite`,
  `RunSettles` hold.
* Run `onboarding_stopped`: a stop that is written before the pool thread
  starts is read by the thread into its own copy, is never noticed again, and
  the company is added.

### JobFeed and Ingest

`JobFeed` is what readers of the jobs table - discovery, the digest, the command
line - rely on: a posting once stored stays, and the version stored is one that
its board published. `Ingest` has the boards (`site`, `listed`), the watchlist
(`boards`, `active`), the table (`jobs`), the tags that the Greenhouse adapter
caches (`etag`) and the ingestions under way (`run`): the fast and the slow
sweep and the ingestion of one company. `BeginSweep`, `Fetch`, `FetchFails`,
`FetchEndsEarly`, `Deadline` and `WriteBatch` are `ingest_all`: everything a
sweep fetched is written in one transaction at its end, although the docstring
of `ingest_all` speaks of completed groups that are persisted as they go.
`BeginManual`, `StoreOne`, `EndManual` are `ingest_company`, which writes board
by board and posting by posting. `AddCompany`, `Onboard` (which lists the board
it probes, and so caches its tag), `SetActive`, `RemoveCompany` are the owner's;
`Crash` loses what a run fetched, `NewInstance` the tags.

A posting's content is a version number and stands for the hash over title,
location and date; the filters are a set of (posting, version) pairs; a tag is
the content it identifies. `mishaps` is history: the boards whose tag may cover
what was not stored, because a run broke off, had narrower filters, set a
posting back, or a probe listed a board of a company that was there already.

* Run `ingest`: `SkippedIsStored` (a board that answers `not modified' hides
  nothing), `NeverSetBackAlone`, `WantedIsStored` (liveness), and `FeedSpec`,
  the refinement of `JobFeed`.

### ProfileAgent

`doc` is the profile document, `cached` the API process's copy of it, `run` the
conversation's file, `at` what each thread holds: the page's turn, generations
in the pool, the owner's editor, a reader. A write is three steps, as in
`apply_proposal` and `update_profile_fact`: `ReadList` takes the list,
`ReadDoc` loads the document and changes the copy, `Put` stores it and clears
the cache. `PutFails` is a write that is refused, or one that is stored and then
not logged (`record_enrichment` raises after `save_profile`): the second is told
as not applied and is in the document. `PatchFact` is `PATCH /fact` on any path,
a field of its own or the whole list; `Seed` is `POST /seed`, which replaces the
document, an existing one by force. A reader is two steps, the query and the
fill. A turn loads the conversation when it begins (`Load`) and saves it when it
ends (`Save`); when the model fails in between (`AnswerFails`) nothing is saved,
and what was applied stays applied. `Stop` is the button's request: it looks at
no state and waits for no turn, so a turn that is under way saves over it;
`StopMessage` is `/stop` typed as a message. `Generate` queues a generation,
which loads whatever the file then says (`GenStart`) and writes "done" over it
at its end.

`stored`, `meant`, `given` and `mishaps` are history. `meant` is the document
that the same writes would have made had each been one step; `mishaps` says why
it may differ: two writers or two turns overlapped ("raced"), a turn that had
written was broken off ("broken"), the command line wrote beside a warm cache
("elsewhere"), an undo put back the list from before a later write that the
conversation does not know of, the owner's or one that was not logged
("reverted"). `given` is the list the owner last wrote and the proposals stored
before it. `Put` clears the cache in the same step as it stores: a copy that is
loaded between the two is the one that was cached before.

* Run `assistant`: the types, `NothingIsLost`, `AppliedAsConfirmed`,
  `StopHolds`. The second and the third speak of behaviours without a mishap, so
  the run ends a behaviour at its first mishap (the constraint `Undisturbed`);
  that state itself is checked too. What is under way after a mishap is covered
  for `StopHolds` and the types by their theorems.
* `StopHolds` says of a stop what the code gives, and that is not the "hard
  stop" of the router's docstring: after it only a turn that had loaded the
  conversation before stores proposals, and only such a turn's save, or the end
  of a generation, puts another state in its place.
* Preferences and house rules (documents of their own, handled alike) and the
  caps on time and money (which end a run the way the cap on turns does) are
  left out.

### Decisions

The parts that keep no state are functions of their input, one module each:

* `Adapters` - the twenty-eight board adapters are records of how they page, when
  they stop, which rows they drop, what a refusal costs, which options they
  need; `Reading` is the loop they share, over a board that changes meanwhile.
* `BoardProbe` - `slug_candidates`, the probes with the board's official name
  (alike, unlike or empty, and empty when the request for it fails), the careers
  page, the fingerprint that the onboarding agent starts from.
* `Discovery` - title levels, US locations and states, the ingestion filters,
  and `discover` with its facets.
* `Sponsorship`, `Assess` - the index over the USCIS files, likelihood and
  verdict; structure, keywords, gap, coverage, fit and `decide_apply` for
  whatever the language model answers.
* `Location` - the metro the resume names. `Resume` - merging and ordering of
  roles, skills, page fit, the fact gate, consistency, the ATS scores, the
  gate of the cover letter. `Scraper` - the tiers of `scrape`.
* `Picking` - what a comprehension over a list gives: the items at chosen
  places, in their order.

Lists are written with recursive functions, sums and picked places rather than
with operators that take an operator, so that the same definitions are checked
and proved about. A page content keeps a category that lost its last skill as a
count of 0, which is no line of the document, where the code deletes the key.

`Decisions` asks one of them one case: a state is a question, and its one step
gives the answer. `MCDecisions` lists the cases; run `decisions` asks all of
them. The properties relate an answer to a definition that does not follow the
algorithm, or to the answer for another input (one more approval, one more site,
one more skill): `StayingIsListed`, `CutKeepsTheFront`, `OwnBoardResolved`,
`FacetsReachable`, `AnotherSiteKeepsIt`, `ApprovalsNeverHurt`,
`RecommendationIsEarned`, `NeverSpoofed`, `TenureChecked`, `BestIsKept`,
`MustHavesSurvive`, `TheNamedPosting`. Where the code has an exception, the
property names it: the paging that misses a posting when one ahead of it is
taken down, the company with a comma in its name that no filter can select, the
employer whose name is part of another's, a location that is in the US by its
last two letters only (`Remote-US` is, `Remote-US; London` is not), a board that
cannot be told for the company's because the host does not answer for its name,
a skill that a category lists twice and that is then shown twice. A fit is
rounded to a tenth before it is compared, half a tenth up or down as the floating
point number lies (`tie_up`): that is why 32.45% of the requirements, and not
32.5%, are what a recommendation needs.

## 4. Runs and bounds

| run | instance | why it is enough |
|---|---|---|
| `tracker` | 1 url, 2 stages, 2 tasks, 2 requests, 3 deliveries, both deployments (0.8 million states) | rows of different urls share no state but the id counter and the pool; two tasks and a request are the most that can hold stale copies of one entry against each other, two requests are a match and what disturbs it; the deployment's own number of deliveries |
| `tracker_orphan` | 3 requests | capture, re-add, delete |
| `runs` | 1 run, 2 jobs, 3 requests, 2 deliveries, both deployments (0.4 million states) | a generation and a match, or two generations, of one run id meet, with a third request after them |
| `runs_stale`, `runs_failure` | the same, 2 requests, local only | the counterexamples need a job before the second request |
| `mailer`, `mailer_twice` | 2 postings, caps 0 and 1, 2 drivers, 2 events (0.7 million states) | a cap of 1 over 2 candidates leaves one out; two events combine an edit, a night, a failure or a crash with another |
| `onboarding` | 2 threads (the pool's size), 3 clicks | two threads of one run need one answer; a stop and a crash fit beside it |
| `onboarding_stopped` | 1 click | the stop |
| `ingest` | 2 companies, a conditional board of 2 postings and a slow board of 1 that ends early, 2 versions, 3 events | the two sweeps and a single ingestion can overlap; a version is passed over and the next one wanted; three events allow an addition, a failure or crash, and an edit |
| `assistant` | 2 facts, one of them a project, 1 generation, 1 field value, 1 list of the owner's, 2 turns, 2 proposals in an answer, 4 messages, 1 mishap; ends at the first mishap (4.6 million states) | two messages to propose and confirm, two more to confirm with something new, undo, generate; a failure or an edit beside them |
| `decisions` | boards of up to 5 rows in pages of 1 or 2; pairs of hosted boards; pairs and triples of postings, roles, requirements; every pair of location markers; contents up to three pages | each case holds the least that lets two rules meet: two rows on one page boundary, two boards under one slug, two roles at one employer |

Bounds appear as constants in guards only: `Tasks`, `Jobs`, `MaxRequests`,
`MaxEvents`, `MaxClicks`, `MaxSays`, `MaxBatch`, `MaxMishaps`, `MaxVersion`
(numbers of things that happen), `MaxAttempts` (3 in `triggers.tf` and in
`tracker`, 2 in the other runs), `MAX_TURNS` (2 in the run), `MaxCalls` (2 in the run), `MaxRunning` (2, as
in the code). In `ProfileAgent`, after a mishap only what is under way goes on,
and the Stop button (`Undisturbed`); the lists the owner writes have one entry
(`OwnerLists`, of the facts in `Lists`). `inbox` counts
0, 1, 2-or-more. `CHECK_DEADLOCK FALSE` stands where the bounded owner may have
nothing left to ask for and the system rests: the conversation is over, no
company is on the watchlist, the question is answered. The mailer never rests.

## 5. Fairness

* A request handler that has read goes on to write (`WF` on the second halves):
  a handler is straight-line code.
* A queued job is started and run to its end (`WF` on a worker's actions): a
  pool thread takes the next item; Cloud Tasks dispatches while attempts are
  left. A stage that hangs is cut off by the request deadline, which is a
  `WorkerCrash`.
* The page polls every two seconds while it is open (`WF` on `Poll` and
  `ReadOutcome`; the second ends the polling whether it can read the row or not).
* The scheduler starts a mailer tick again and again (`WF` on `Start(Tick)`;
  it does as long as the frequency is not "off", which is not modelled), runs go
  on, quiet hours end (`WF` on `Dawn`). Nothing obliges the owner to type a
  command, edit, answer or stop, no crash is obliged to happen or not to, and
  no warm instance has to be replaced.
* The two cron jobs keep starting sweeps (`WF` on `BeginSweep`), a sweep and a
  single ingestion come to their ends (`WF` on `WriteBatch`, `StoreOne`,
  `EndManual`), and a board that is asked again and again answers at last (`WF`
  on `Fetch`). The code shuffles the boards of a sweep, so a deadline does not
  cut the same one each time; deadlines are bounded here like the other events.
  No board has to publish or close, and no company has to be added.
* `ProfileAgent` and `Decisions` have safety properties only.
* An onboarding thread goes on, and an agent that reports progress for ever is
  ended by its time limit (`SF` on `AgentEnds`, because reports interrupt it).

## 6. Proofs

All are of `SafetySpec` (or `Spec` without its fairness), for every value of the
constants under the assumptions named in the modules: the initial stage is one
of the stages, bounds are naturals, caps are naturals, "no row" is not a row,
thread names differ from the names of the requests, every posting has a board
and every board a company.

* `TrackerMatchProofs`: `TypeCorrect`, `OwnerEditsAreKept`, `CapturedJdIsKept`.
  `TypeInv` is inductive with one strengthening, that a running match holds an
  entry: what `WriteBack` upserts is a row only then. The two action properties
  follow from it action by action: every write to the table goes through
  `Merge`, the owner's edit or a deletion, and a deletion with a re-insertion
  changes the id.
* `MailerProofs`: `TypeCorrect`, `NoneIsEmailedTwice`, `MarkedIsCounted`,
  `CappedOutIsNotEmailed`. The inductive invariant: a message under way carries
  candidates only and one that left has them counted (`Composed`), what reached
  the inbox was counted (`Received`), and, while no mishap has happened, at most
  one run is under way (`Alone`), what it is about to send was not marked before
  (`Fresh`), and what was counted is marked or is in the run that sent it and
  marks it next (`InFlight`).
* `OnboardingProofs`: `TypeCorrect`, `ResolvedMeansAdded`,
  `StopsAreUndoneLate`. `ResolvedIsAdded` needs that a *copy* in state resolved
  exists only after the company was added (`CopiesAdded`), that threads and
  requests have a row (`Begun`), and that while a run is stopped every writer past its check that
  would undo the stop was past it when the stop was written (`LateOnly`).
* `RunLifecycleProofs`: `TypeCorrect`, `StatusIsTerminal`,
  `FailuresAreToldInCloud`, `DoneIsFreshInCloud`. A row that is "running" has a
  generation that will settle it unless a job was lost (`Settler`); only
  `start_run` writes "running", and a generation ends with `CheckRow` finding a
  terminal row or `ForceError` writing one. In the cloud the API sees no
  status.json (`NoFile`), and while nothing was lost, redelivered or overlapped
  each run has at most one job (`Alone`). Then a generation that the row does
  not know about yet, or that failed and is not settled, keeps its row "running"
  and its page untold (`OpenIsRunning`), and a failure is in the row or with
  that generation (`FailureIsKnown`, `SuccessIsLatest`). A page whose getRun
  failed is told nothing, and the theorem does not speak of it. The local deployment
  has no such theorem: `runs_stale` and `runs_failure` refute it.

* `IngestProofs`: `TypeCorrect`, `NeverSetBack`, `FeedIsKept`,
  `SkippedBoardsAreStored`. What is listed, fetched or stored was published
  (`Published`), which is the refinement: initial states map to initial states,
  `Publish` to `Publish`, and whatever else changes the table to `Store`. A run
  never holds two versions of a posting, for it forgets a board when it takes
  its rows (`Tidy`); runs that overlap know it (`SharedKnown`); so what a run
  that was alone holds is not older than what is stored (`AloneIsFresh`). For
  `SkippedIsStored`, a board without a mishap whose tag is current and that has
  no rows on the way has its wanted postings stored in the version of the tag,
  or was probed before anything of it was stored (`TagsCover`, from `Newest`,
  `Accounted` and `ProbedFirst`).
* `ProfileAgentProofs`: `TypeCorrect`, `StopsHold`, `NoWriteIsLost`,
  `StoredAsConfirmed`. Types need to know what a thread can be doing (`Shape`)
  and that a stopped conversation has nothing pending (`Quiet`). Then
  who stores a proposal had loaded a conversation that was not stopped
  (`StoresUnstopped`), and who saves over a stop is such a turn of the page or
  the end of a generation (`OverrunsTheStop`): the exception `StopHolds` makes,
  which is why it is no stronger.
  `NothingIsLost` is inductive together with `Kept`: until a mishap
  the cache is empty or current and so is every copy a thread holds (`Sound`),
  at most one turn is active (`Alone`), and each write listed as applied found
  the list that the one before it left, up to the document (`Settled`, with the
  exception of writes from before the list was last written by others). That is
  what makes an undo, a write of the whole old list, remove one entry only. For
  `AppliedAsConfirmed`, `Once`: what waits for its yes is not stored, no two
  waiting proposals are alike, and all are of earlier messages (`Queued`,
  `Waits`, `Aged`); so each `Put` adds a new proposal to `stored` for the entry
  it adds to the list since the owner last wrote it (`Counted`), by the library's facts on cardinalities.

* `DecisionsProofs`, with `SequenceFacts`: see below.

`ReportsBehindScores` in `TrackerMatchProofs` is the theorem of
`ReportBehindScore`, which is not inductive by far: the score is written by a
worker from a copy it read long before, next to handlers that hold copies too.
The invariant `ScoreInv` has these parts. The table: a row is filed under its
own url, ids are unique and below the counter, and the counter tells whether
anything was ever deleted (`CountsRows`, `KeyedByUrl`). While nothing was lost
or deleted, what a request or a worker has read is still there (`HoldersLive`);
without overlapping matches a url has at most one under way (`OneMatchPerUrl`);
a match that has a score to write back keeps its run in the index, unless some
match could not be indexed, and, once published, its report in the folder
(`ResultKept`); and a scored row has its
report, or a match that is under way or queued (`ScoreBacked`), which is the
property as soon as the queue is empty. TLC checked it first on two urls with
two tasks, three requests and two deliveries (13.8 million states).

### The decisions, for every input

The only inductive invariant is `Asked`: a state is a question of the cases, and
what is answered is what the parts compute for it (the lemma `AskedAlways`). Each property
then follows from facts about the operators, for lists of any length and inputs
of any values, of which the cases of the run are examples:

| theorem | argument |
|---|---|
| `StayingListed` | a posting that stays keeps its place, or moves back by one when one is published ahead of it (`PlaceFacts`); the reading is not over before it (`Covered`), so the first page that reaches the place is read with the posting on it (`OnAPage`) |
| `CutListingIsFront` | a refusal ends a search no later and changes no page before it (`RequestsFewer`, `SearchStarts`); dropping repeated keys keeps fronts (`FirstOnlyStarts`), but not over several searches (`ReadingKeys`) |
| `OwnBoardFound` | a probe hits only a board that can be told for the company's (`HitIsKnown`) and hits when there is one, at the earliest slug (`KnownFound`); the fingerprint's first link is the board the careers page gives (`LinkedFirst`) |
| `FacetsTrueToFeed` | a selection shows what the other filters let through and it selects (`ApplySplits`), and a value selected alone the rows it is counted for (`SelectAlone`) |
| `SitesKept` | what a second site adds to names, codes and the first code (`SitesUs`, `SitesStates`) |
| `ApprovalsHelp` | one more approval moves one term of the sums (`ApprovalsMore`), matching does not look at approvals (`SameMatch`), and the bands rise with the sum (`LikelihoodGrows`) |
| `RecommendationEarned` | an item counts only when the profile backs it (`ItemBacked`, `TenthsBacked`), the other scores move the fit by a quarter at most (`FitNearCoverage`), and the decision is by bands of the fit (`DecideShape`) |
| `PlaceNeverSpoofed`, `ScrapeIsNamed` | every plan is of one of four kinds (`PlanOf`); a handler, a list and the domains give the text they are asked for, tier by tier (`BoardIs`, `InListingIs`, `FromDomainsIs`, `DataIs`) |
| `MustHavesStay` | whoever is not among the n best has n others that are not worse (`BestFacts`), counted by places through both rankings (`RankedFacts`, `RankFacts`); more of a text's terms never lower the score (`OverallGrows`) |
| `TenureIsChecked` | a merged role's dates are dates of said roles at its employer and no bullet is dropped, one role at a time (`MergedFacts`); the order by places is one to one and onto (`SortFacts`); such dates are within the employer's span when the roles are (`SpanFacts`) |
| `BestStays` | `FitSoFar` is the invariant of the trimming loop: what was trimmed so far had nothing cheaper left, and there is nothing cheaper later, for a trim only removes; `TrimStep` says what one trim takes |

`SequenceFacts` has the lemmas about picked places, sums over functions, first
occurrences, flattened lists and places of a sorted list. Recursive functions
are `CHOOSE`s to the prover: that one exists is shown by a least counterexample
(`LeastNat`), which needs no induction theorem with an operator for parameter
(`FlatExists`, `AddsUpToExists`, `MergesExist`, `PopsExist`, `TrimsExist`).

The assumptions on the cases (`ListAssumption`, `BoardAssumption`,
`FeedAssumption`, `SponsorAssumption`, `AssessAssumption`, `SkillAssumption`,
`ScrapeAssumption`, `ResumeAssumption`, `FitAssumption`) say what type an input
has - lists are lists, counts are naturals, a role ends no earlier than it
starts - and TLC evaluates them on the cases of the run.

What the attempts found about the statements, each now a case of the run too:

* An adapter that keeps on until an empty page stops early at a page whose
  rows are all unusable. After a posting is published the pages are cut
  elsewhere, so `Undisturbed` speaks of the pages before and after (`Paired`).
* An adapter with several searches (Workday) finds a posting in more than one,
  and when a search is cut short another one's row of it stays: what is left is
  a part by keys, and not a front by rows (`Twice`).
* `rank_skills` keeps by category and name: a skill that a category lists twice
  takes up to two of the `max_items` places and is shown twice, so
  `MustHavesSurvive` bounds the different skills that are shown.

### What stays with TLC

The liveness properties (`MatchSettles`, `PollEnds`, `BacklogFlushed`,
`RunSettles`, `WantedIsStored`), since the prover handles neither fairness nor
`ENABLED`. Every invariant and every action property of the passing runs has a
theorem. There are no `RECURSIVE` operators.

## 7. Findings

1. `tracker_orphan` - a delete can leave a captured folder (`tracker.py:237`).
2. `runs_stale` - locally the page is told done by the `status.json` of an
   earlier job of the run id, in the trace an earlier generation
   (`runs.py:157`).
3. `runs_failure` - locally a failed generation is not told
   (`apps/api/jobs/worker.py:56`).
4. `mailer_twice` - overlapping or interrupted digests email twice
   (`notify.py:180`).
5. `onboarding_stopped` - a stop before the thread starts does not keep the
   company off the watchlist (`onboarding/service.py:34`).

What does hold of them: `DoneIsNotStaleInCloud`, `FailureIsToldInCloud`,
`OnceWithoutMishap`, `StopUndoneOnlyByALateWrite`.

Other behaviours of the models that the owner would not expect have no run of
their own; properties name them as exceptions, and say nothing of them:

* in the cloud a match that ends beside a queued generation makes the page be
  told done (`orchestrator.py:160`, `DoneIsNotStaleInCloud`), and a gated-out run
  is polled for ever (`runs.py:165`, `PollEnds`);
* a match in flight puts a deleted entry back (`ingestion/tracker.py:191`), and a
  worker that dies between the wipe and the put-back loses the screenshot (172);
* a turn of the profile chat, or a generation, saves over a stop
  (`pocs/profile_agent/agent.py:402`), and an undo writes an old list over what
  the owner has put into it since (288);
* a sweep that dies keeps none of its completed groups, against the docstring of
  `ingest_all` (`ingestion/service.py:202`), and a tag cached by a run that stored
  less hides postings for as long as the board does not change
  (`greenhouse.py:62`);
* a role said to go on is not compared with the end of the employment
  (`ats/verify.py:157`), a role may be compared with a namesake's dates (147), and
  true roles at one company that are not written newest first are shown with a
  wrong range (`stages/resume/generate.py:195`);
* the filter does not find a company with a comma in its name
  (`discovery.py:27`), and evidence of one shared word grounds a requirement
  (`stages/gap.py:91`).

## 8. Not modelled

Wording, layout, prompts and everything a language model answers (its answers
are inputs); HTML and JSON parsing; rendering; logs and metrics. And:

* **LLM stack, cost guard** (`providers/llm/`, `observability/cost.py`): a call
  to a service that answers anything or fails, which is how the other modules
  take it. The budget check and the record of the spend are apart, so concurrent
  calls pass the check together (`cost.py:64`), and usage the database refuses
  goes to a file that the cap does not sum (`cost.py:93`); the response cache
  has its key from the call (`llm/cache.py:28`). Nothing in the code or its docs
  promises more, so a property would only restate this.
* **Mailer schedule** (`ingestion/schedule_sync.py:56`): the preferences are
  saved, the scheduler's update may fail and is swallowed; the next save repairs
  it, and nothing reads it back.
* **Onboarding agent, sandbox, drafting, gate; agent runners**: an external
  process behind one call. `Onboarding` has its progress and its contract; how
  a remote run is found and cancelled (`agent_runner.py:112`, `:157`) depends on
  GitHub's API.
* **House rules** (`enrichment/manager.py:97`): written to a file and read from
  a document; two homes of one list without a state machine between them.
* **Uploads and warm copies** (`persistence/artifacts.py:95`,
  `apps/api/routers/runs.py:111`): a worker's own copy of a run folder; planned
  as `RunArtifacts`.
* **ATS simulators, semantic coverage, spelling, the PDF round trip**: scores of
  third-party models and tools.
* **Browser extension, other web pages, other commands**: forms over operations
  that are modelled; the extension's one request is `CaptureTracked`.

`PROJECT.json` lists every component with its status and the hazards met while
reading, including those that no property covers.
