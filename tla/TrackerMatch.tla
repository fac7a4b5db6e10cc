---------------------------- MODULE TrackerMatch ----------------------------
(***************************************************************************)
(* The tracker: the jobs the owner pursues, and the match that is run for  *)
(* each of them off the request.  A request handler edits the tracker      *)
(* table and submits a match; a worker reads the entry, wipes its run      *)
(* folder, runs the pipeline in match-only mode, publishes the folder and  *)
(* writes the whole entry back.  Handlers and workers share the table and  *)
(* the artifact store and take no lock between two of their accesses, so   *)
(* each access (one SQL transaction, one store operation) is one step.     *)
(*                                                                         *)
(* Two deployments are modelled: "local" (a thread pool in the API         *)
(* process, artifacts on its disk) and "cloud" (Cloud Tasks delivers at    *)
(* least once to a worker service, artifacts reach the bucket when they    *)
(* are published).                                                         *)
(*                                                                         *)
(* Abstractions: company, title, location and salary follow the same       *)
(* upsert and decide nothing, so they are left out; `notes' has exactly    *)
(* the treatment of `stage'; fit, recommendation, sponsorship and          *)
(* match_error are written together and are one field, `match'.            *)
(***************************************************************************)
EXTENDS Naturals, FiniteSets

CONSTANTS
    Urls,         \* posting URLs; UNIQUE(url) makes each the key of one entry
    Stages,       \* application stages (TRACKER_STAGES)
    Interested,   \* the stage of a fresh entry
    Tasks,        \* match tasks that can be queued or running at once (bound)
    NoRow,        \* "no such entry"
    MaxRunning,   \* matches running at once: the pool's max_workers, the task
                  \* queue's max_concurrent_dispatches
    MaxRequests,  \* requests the owner makes (bound)
    MaxAttempts   \* deliveries of one Cloud Tasks task (max_attempts)

ASSUME StagesAssumption == Interested \in Stages
ASSUME BoundsAssumption == MaxRequests \in Nat /\ MaxAttempts \in Nat \ {0}

VARIABLES
    mode,      \* the deployment, fixed at start-up
    rows,      \* the tracker table, by url
    nextId,    \* the table's AUTOINCREMENT counter
    store,     \* what the artifact store serves for each run folder of a url
    runs,      \* the run ids of a url that have a row in the runs table
    task,      \* queued and running match tasks
    clearing,  \* the entry a rematch request has read and not yet written back
    removal,   \* the entry a delete request has read and not yet deleted
    requests,  \* requests made so far
    mishaps    \* history: was a task or an upload lost, did two matches of an
               \* entry overlap, did a finished match fail to be indexed?

vars == <<mode, rows, nextId, store, runs, task, clearing, removal, requests, mishaps>>

-----------------------------------------------------------------------------
(* A url has two possible run ids, both ending in a hash of the url: the    *)
(* one a capture computes from the page title alone, and the one a match    *)
(* derives from the posting's company and title when the entry has none.    *)
RunKeys == {"posting", "capture"}
Artifacts == {"report", "screenshot"}
Matches == {"none", "scored", "failed"}     \* none: shown as "matching"
JdTexts == {"", "scraped", "page"}          \* captured_jd: who supplied it

Row == [id: Nat, url: Urls, stage: Stages, run: RunKeys \cup {""},
        match: Matches, jd: JdTexts]

\* None is a value of its own.
ASSUME NoRowAssumption == NoRow \notin Row /\ NoRow \notin [id: Nat, url: Urls]

Steps == {"free", "queued", "read", "wiped", "matched", "published"}
Task == [pc: Steps, id: Nat, entry: Row \cup {NoRow}, shot: BOOLEAN, tries: Nat]
IdleTask == [pc |-> "free", id |-> 0, entry |-> NoRow, shot |-> FALSE, tries |-> 0]

TypeOK ==
    /\ mode \in {"local", "cloud"}
    /\ rows \in [Urls -> Row \cup {NoRow}]
    /\ nextId \in Nat
    /\ store \in [Urls -> [RunKeys -> SUBSET Artifacts]]
    /\ runs \in [Urls -> SUBSET RunKeys]
    /\ task \in [Tasks -> Task]
    /\ clearing \in Row \cup {NoRow}
    /\ removal \in [id: Nat, url: Urls] \cup {NoRow}
    /\ requests \in 0 .. MaxRequests
    /\ mishaps \in SUBSET {"lost", "overlap", "unindexed"}

Running(t) == task[t].pc \notin {"free", "queued"}

\* The type invariant, and what makes it inductive: a running match holds the
\* entry it has read.
TypeInv ==
    /\ TypeOK
    /\ \A t \in Tasks : Running(t) => task[t].entry \in Row

Init ==
    /\ mode \in {"local", "cloud"}
    /\ rows = [u \in Urls |-> NoRow]
    /\ nextId = 1
    /\ store = [u \in Urls |-> [r \in RunKeys |-> {}]]
    /\ runs = [u \in Urls |-> {}]
    /\ task = [t \in Tasks |-> IdleTask]
    /\ clearing = NoRow
    /\ removal = NoRow
    /\ requests = 0
    /\ mishaps = {}

Lost == mishaps' = mishaps \cup {"lost"}

-----------------------------------------------------------------------------
(* The tracker table.                                                       *)

\* Mutant of TrackerEntry: the dataclass default for `stage' is forgotten.
TrackerEntryStageless(u) ==
    [id |-> 0, url |-> u, stage |-> NoRow, run |-> "", match |-> "none", jd |-> ""]

TrackerEntry(u) ==
    [id |-> 0, url |-> u, stage |-> Interested, run |-> "", match |-> "none", jd |-> ""]

\* Mutants of Merge: the conflict clause takes the excluded stage; the
\* captured text is overwritten even by a write that carries none.
MergeTakesStage(old, e) == [e EXCEPT !.id = old.id, !.jd = IF e.jd # "" THEN e.jd ELSE old.jd]
MergeBlanksJd(old, e) == [e EXCEPT !.id = old.id, !.stage = old.stage]

\* What ON CONFLICT(url) DO UPDATE leaves in a row that `e' collides with.
Merge(old, e) ==
    [e EXCEPT !.id = old.id, !.stage = old.stage,
              !.jd = IF e.jd # "" THEN e.jd ELSE old.jd]

UpsertTracker(e) ==
    IF rows[e.url] = NoRow
    THEN /\ rows' = [rows EXCEPT ![e.url] = [e EXCEPT !.id = nextId]]
         /\ nextId' = nextId + 1
    ELSE /\ rows' = [rows EXCEPT ![e.url] = Merge(rows[e.url], e)]
         /\ UNCHANGED nextId

HasId(u, i) == rows[u] # NoRow /\ rows[u].id = i

-----------------------------------------------------------------------------
(* Request handlers.                                                        *)

Request == requests < MaxRequests /\ requests' = requests + 1

\* get_job_queue().submit_tracker_match(id): a task is created, or the call
\* fails (or the process dies) after the entry was written and none is.
SubmitTrackerMatch(i) ==
    \/ /\ \E t \in Tasks :
            /\ task[t].pc = "free"
            /\ task' = [task EXCEPT ![t] = [IdleTask EXCEPT !.pc = "queued", !.id = i]]
       /\ UNCHANGED mishaps
    \/ Lost /\ UNCHANGED task

IdAfterUpsert(u) == IF rows[u] = NoRow THEN nextId ELSE rows[u].id

\* POST /tracker from a watchlist job or a raw url.
AddTracked(u) ==
    /\ UpsertTracker(TrackerEntry(u))
    /\ SubmitTrackerMatch(IdAfterUpsert(u))
    /\ Request
    /\ UNCHANGED <<mode, store, runs, clearing, removal>>

\* POST /tracker with run_match = false: the entry alone.
AddWithoutMatch(u) ==
    /\ UpsertTracker(TrackerEntry(u))
    /\ Request
    /\ UNCHANGED <<mode, store, runs, task, clearing, removal, mishaps>>

\* POST /tracker/capture: the screenshot goes to the folder of the captured
\* run id before the entry that names the folder is written.
CaptureTracked(u) ==
    /\ \/ store' = [store EXCEPT ![u]["capture"] = @ \cup {"screenshot"}]
       \/ UNCHANGED store
    /\ UpsertTracker([TrackerEntry(u) EXCEPT !.run = "capture", !.jd = "page"])
    /\ SubmitTrackerMatch(IdAfterUpsert(u))
    /\ Request
    /\ UNCHANGED <<mode, runs, clearing, removal>>

SetStage(u, s) ==
    /\ rows[u] # NoRow
    /\ rows' = [rows EXCEPT ![u].stage = s]
    /\ Request
    /\ UNCHANGED <<mode, nextId, store, runs, task, clearing, removal, mishaps>>

\* POST /tracker/{id}/rematch, first half: read the entry, forget its error.
RematchRead(u) ==
    /\ clearing = NoRow
    /\ rows[u] # NoRow
    /\ clearing' = [rows[u] EXCEPT !.match = IF @ = "failed" THEN "none" ELSE @]
    /\ Request
    /\ UNCHANGED <<mode, rows, nextId, store, runs, task, removal, mishaps>>

\* Second half: write the whole entry back and submit a match, unless the id
\* no longer exists (the entry was deleted in between: 404).
RematchWrite ==
    /\ clearing # NoRow
    /\ UpsertTracker(clearing)
    /\ clearing' = NoRow
    /\ IF HasId(clearing.url, clearing.id)
       THEN SubmitTrackerMatch(clearing.id)
       ELSE UNCHANGED <<task, mishaps>>
    /\ UNCHANGED <<mode, store, runs, removal, requests>>

\* DELETE /tracker/{id}: read the entry, delete the folder and the index row
\* of the run id it held, ...
RemoveRun(u) ==
    /\ removal = NoRow
    /\ rows[u] # NoRow
    /\ removal' = [id |-> rows[u].id, url |-> u]
    /\ IF rows[u].run # ""
       THEN /\ store' = [store EXCEPT ![u][rows[u].run] = {}]
            /\ runs' = [runs EXCEPT ![u] = @ \ {rows[u].run}]
       ELSE UNCHANGED <<store, runs>>
    /\ Request
    /\ UNCHANGED <<mode, rows, nextId, task, clearing, mishaps>>

\* ... then the entry with that id, whatever it holds by now.
RemoveTracker ==
    /\ removal # NoRow
    /\ rows' = [rows EXCEPT ![removal.url] =
                    IF HasId(removal.url, removal.id) THEN NoRow ELSE @]
    /\ removal' = NoRow
    /\ UNCHANGED <<mode, nextId, store, runs, task, clearing, mishaps, requests>>

-----------------------------------------------------------------------------
(* The worker: run_match_for, one step per access to shared state.          *)

RunId(e) == IF e.run # "" THEN e.run ELSE "posting"

Redeliver(t) ==
    task' = [task EXCEPT ![t] = [IdleTask EXCEPT !.pc = "queued", !.id = task[t].id,
                                                 !.tries = task[t].tries + 1]]

\* The task is over.  Cloud Tasks may miss the 2xx and deliver it again.
Finish(t) ==
    /\ UNCHANGED mishaps
    /\ \/ task' = [task EXCEPT ![t] = IdleTask]
       \/ /\ mode = "cloud"
          /\ task[t].tries + 1 < MaxAttempts
          /\ Redeliver(t)

\* Read the entry by id, and the screenshot of its run folder.
ReadEntry(t) ==
    /\ task[t].pc = "queued"
    /\ Cardinality({x \in Tasks : Running(x)}) < MaxRunning
    /\ \/ \E u \in Urls :
            /\ HasId(u, task[t].id)
            /\ task' = [task EXCEPT ![t].pc = "read", ![t].entry = rows[u],
                    ![t].shot = /\ rows[u].run # ""
                                /\ "screenshot" \in store[u][rows[u].run]]
            /\ IF \E x \in Tasks : Running(x) /\ task[x].entry.url = u
               THEN mishaps' = mishaps \cup {"overlap"}
               ELSE UNCHANGED mishaps
       \/ /\ \A u \in Urls : ~HasId(u, task[t].id)
          /\ Finish(t)
    /\ UNCHANGED <<mode, rows, nextId, store, runs, clearing, removal, requests>>

\* A re-match starts clean: delete the folder of the run id it read.
WipeRun(t) ==
    LET e == task[t].entry IN
    /\ task[t].pc = "read"
    /\ task' = [task EXCEPT ![t].pc = "wiped"]
    /\ store' = IF e.run # "" THEN [store EXCEPT ![e.url][e.run] = {}] ELSE store
    /\ UNCHANGED <<mode, rows, nextId, runs, clearing, removal, requests, mishaps>>

\* What _apply_match leaves in the entry.
Scored(e) == [e EXCEPT !.match = "scored", !.run = RunId(e),
                       !.jd = IF @ = "" THEN "scraped" ELSE @]

\* Mutant of Failed: the error branch records no match_error.
FailedSilently(e) == [e EXCEPT !.match = "none"]

Failed(e) == [e EXCEPT !.match = "failed"]

\* _index_run: a write of the index that fails is logged and swallowed.
IndexRun(u, r) ==
    \/ /\ runs' = [runs EXCEPT ![u] = @ \cup {r}]
       /\ UNCHANGED mishaps
    \/ /\ UNCHANGED runs
       /\ mishaps' = IF r \in runs[u] THEN mishaps ELSE mishaps \cup {"unindexed"}

\* The pipeline succeeds: report.json is on the worker's disk (locally that
\* is the store), then the run is indexed, or not.
MatchSucceeds(t) ==
    LET e == task[t].entry IN
    /\ task[t].pc = "wiped"
    /\ task' = [task EXCEPT ![t].pc = "matched", ![t].entry = Scored(e)]
    /\ IndexRun(e.url, RunId(e))
    /\ store' = IF mode = "local"
                THEN [store EXCEPT ![e.url][RunId(e)] = @ \cup {"report"}]
                ELSE store
    /\ UNCHANGED <<mode, rows, nextId, clearing, removal, requests>>

\* The pipeline reports an error or raises.
MatchFails(t) ==
    /\ task[t].pc = "wiped"
    /\ task' = [task EXCEPT ![t].pc = "matched", ![t].entry = Failed(task[t].entry)]
    /\ UNCHANGED <<mode, rows, nextId, store, runs, clearing, removal, requests, mishaps>>

\* Mutant of Uploads: only the screenshot is put back.
UploadsShotOnly(tk) == IF tk.shot THEN {"screenshot"} ELSE {}

\* What the two publishes of a match put into the store: the report of a
\* match that succeeded, and the screenshot read before the wipe.
Uploads(tk) ==
    (IF tk.entry.match = "scored" THEN {"report"} ELSE {})
    \cup (IF tk.shot THEN {"screenshot"} ELSE {})

\* Publish the folder, then put the screenshot back and publish it too.  An
\* upload that fails is swallowed.
Publish(t) ==
    LET e == task[t].entry IN
    /\ task[t].pc = "matched"
    /\ task' = [task EXCEPT ![t].pc = "published"]
    /\ \/ /\ store' = IF e.run # ""
                      THEN [store EXCEPT ![e.url][e.run] = @ \cup Uploads(task[t])]
                      ELSE store
          /\ UNCHANGED mishaps
       \/ mode = "cloud" /\ Lost /\ UNCHANGED store
    /\ UNCHANGED <<mode, rows, nextId, runs, clearing, removal, requests>>

\* Write the whole entry back, by url.
WriteBack(t) ==
    /\ task[t].pc = "published"
    /\ UpsertTracker(task[t].entry)
    /\ Finish(t)
    /\ UNCHANGED <<mode, store, runs, clearing, removal, requests>>

-----------------------------------------------------------------------------
(* Crashes.                                                                 *)

\* The worker serving a delivery dies or answers 5xx: the task is delivered
\* again until its attempts are used up, then dropped.
WorkerCrash(t) ==
    /\ mode = "cloud"
    /\ Running(t)
    /\ IF task[t].tries + 1 < MaxAttempts
       THEN Redeliver(t) /\ UNCHANGED mishaps
       ELSE task' = [task EXCEPT ![t] = IdleTask] /\ Lost
    /\ UNCHANGED <<mode, rows, nextId, store, runs, clearing, removal, requests>>

\* The API process dies: requests in flight are gone, and locally so are the
\* thread pool and its queue.  (With neither, a restart changes nothing.)
ApiRestart ==
    /\ \/ clearing # NoRow \/ removal # NoRow
       \/ mode = "local" /\ \E t \in Tasks : task[t].pc # "free"
    /\ Lost
    /\ clearing' = NoRow
    /\ removal' = NoRow
    /\ task' = IF mode = "local" THEN [t \in Tasks |-> IdleTask] ELSE task
    /\ UNCHANGED <<mode, rows, nextId, store, runs, requests>>

-----------------------------------------------------------------------------
Owner ==
    \/ \E u \in Urls : AddTracked(u) \/ AddWithoutMatch(u) \/ CaptureTracked(u)
    \/ \E u \in Urls, s \in Stages : SetStage(u, s)
    \/ \E u \in Urls : RematchRead(u) \/ RemoveRun(u)

Handler == RematchWrite \/ RemoveTracker

Worker(t) ==
    \/ ReadEntry(t) \/ WipeRun(t) \/ MatchSucceeds(t) \/ MatchFails(t)
    \/ Publish(t) \/ WriteBack(t)

Next ==
    \/ Owner
    \/ Handler
    \/ \E t \in Tasks : Worker(t) \/ WorkerCrash(t)
    \/ ApiRestart

\* A request handler runs to its end, and a queued task is delivered and run
\* to its end (pool thread, or Cloud Tasks holding the request open).
Fairness ==
    /\ WF_vars(Handler)
    /\ \A t \in Tasks : WF_vars(Worker(t))

SafetySpec == Init /\ [][Next]_vars

Spec == SafetySpec /\ Fairness

-----------------------------------------------------------------------------
(* Properties.                                                              *)

SameEntry(u) == rows[u] # NoRow /\ rows'[u] # NoRow /\ rows'[u].id = rows[u].id

\* "Preserves stage and notes on re-add" (upsert_tracker): as long as an
\* entry lives, only the owner's own edit moves its stage - no match, re-add,
\* capture or rematch that started from an older copy of the entry does.
OwnerEditsKept ==
    [][\A u \in Urls :
          SameEntry(u) /\ ~(\E s \in Stages : SetStage(u, s))
             => rows'[u].stage = rows[u].stage]_vars

\* A stored job description is never blanked while the entry lives, however
\* stale the copy that is written over it.
CapturedJdKept ==
    [][\A u \in Urls : SameEntry(u) /\ rows[u].jd # "" => rows'[u].jd # ""]_vars

\* No request, no task is under way for this url.
Quiet(u) ==
    /\ clearing = NoRow /\ removal = NoRow
    /\ \A t \in Tasks : task[t].pc = "free"

\* Every entry ever added is still there.
NothingRemoved == nextId = 1 + Cardinality({u \in Urls : rows[u] # NoRow})

\* With nothing lost, overlapped or deleted, whatever matches, re-matches,
\* captures and re-adds came between: once they are over, an entry that shows
\* a score has its report in the folder it names, and a row for that run in
\* the index - unless some match could not be indexed, which the code only
\* logs: the report is then there, and nothing in the index leads to it.
ReportBehindScore ==
    \A u \in Urls :
        /\ mishaps \subseteq {"unindexed"} /\ NothingRemoved /\ Quiet(u)
        /\ rows[u] # NoRow /\ rows[u].match = "scored"
        => /\ "report" \in store[u][rows[u].run]
           /\ rows[u].run \in runs[u] \/ "unindexed" \in mishaps

\* A failed match is visibly distinct from one in flight (_apply_match), and
\* none stays in flight: an entry with a queued match is scored, failed or
\* removed in the end - unless the in-process queue died with its process, or
\* Cloud Tasks used up its attempts.
MatchSettles ==
    \A u \in Urls :
        (\E t \in Tasks : task[t].pc = "queued" /\ HasId(u, task[t].id))
            ~> \/ rows[u] = NoRow \/ rows[u].match # "none"
               \/ "lost" \in mishaps

\* "a delete leaves nothing orphaned in storage or the runs table" (remove):
\* an entry deleted while no match is under way, whose own run folder is
\* gone, leaves no folder and no index row of its url behind.  The code does
\* not keep this promise: a plain re-add has blanked the run id by then.
NothingOrphaned ==
    [][\A u \in Urls :
          /\ rows[u] # NoRow /\ rows'[u] = NoRow
          /\ \A t \in Tasks : task[t].pc = "free"
          /\ rows[u].run = "" \/ store[u][rows[u].run] = {}
          => runs[u] = {} /\ \A r \in RunKeys : store[u][r] = {}]_vars

=============================================================================
