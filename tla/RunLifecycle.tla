---------------------------- MODULE RunLifecycle ----------------------------
(* The life of a pipeline run as its clients see it.  A report page starts  *)
(* a generation under the run id of a tracked job and polls its progress;   *)
(* a worker (a pool thread locally, a Cloud Tasks delivery in the cloud)    *)
(* runs the pipeline, which reports through status.json in the run folder   *)
(* and through the row of the run in the runs table.  Tracker matches run   *)
(* under the same ids.  Each access to the row or to the file is one step.  *)
(*                                                                          *)
(* Abstractions: the stages of the pipeline are one step with an outcome;   *)
(* of status.json only "is there" and `done' are kept; scores and timings   *)
(* are left out; removing a tracked job (its folder and row) is in          *)
(* TrackerMatch.                                                            *)
EXTENDS Naturals, FiniteSets

CONSTANTS
    Modes,        \* deployments looked at, a subset of {"local", "cloud"}
    Runs,         \* run ids
    Jobs,         \* jobs that can be queued or running at once (bound)
    MaxRunning,   \* jobs running at once: max_workers, max_concurrent_dispatches
    MaxRequests,  \* generations and matches asked for (bound)
    MaxAttempts   \* deliveries of one Cloud Tasks task

ASSUME ModesAssumption == Modes \subseteq {"local", "cloud"}
ASSUME BoundsAssumption == MaxRequests \in Nat /\ MaxAttempts \in Nat \ {0}

VARIABLES
    mode,        \* the deployment, fixed at start-up
    row,         \* runs table: the status of each run, "none" without a row
    statusFile,  \* status.json where the API looks for it: "none", or `done'
    job,         \* queued and running jobs
    page,        \* what the report page of each run is doing
    failed,      \* history: was the run's latest job a generation that ended in
                 \* error?
    requests,    \* requests made so far
    mishaps      \* history: was a job lost or delivered again, did two jobs of
                 \* a run overlap?

vars == <<mode, row, statusFile, job, page, failed, requests, mishaps>>

-----------------------------------------------------------------------------
Outcomes == {"done", "matched", "gated_out", "error"}

\* queued, (wiped,) started, ended, indexed, finished, unsettled: how far
\* run_match_for or run_pipeline_endpoint has got.
Steps == {"free", "queued", "wiped", "started", "ended", "indexed", "finished", "unsettled"}
Job == [pc: Steps, run: Runs \cup {""}, kind: {"generate", "match"}, gate: BOOLEAN,
        end: Outcomes \cup {""}, tries: Nat]
IdleJob == [pc |-> "free", run |-> "", kind |-> "match", gate |-> FALSE, end |-> "",
            tries |-> 0]

\* What a page can be doing; "assumed": it goes on to the documents although
\* it could not read the outcome.
Views == {"idle", "polling", "ended", "shown", "assumed", "failed"}

TypeOK ==
    /\ mode \in Modes
    /\ row \in [Runs -> Outcomes \cup {"none", "running"}]
    /\ statusFile \in [Runs -> {"none", "running", "done"}]
    /\ job \in [Jobs -> Job]
    /\ \A j \in Jobs : job[j].pc # "free" => job[j].run \in Runs
    /\ page \in [Runs -> Views]
    /\ failed \in [Runs -> BOOLEAN]
    /\ requests \in 0 .. MaxRequests
    /\ mishaps \in SUBSET {"lost", "again", "overlap"}

Init ==
    /\ mode \in Modes
    /\ row = [r \in Runs |-> "none"]
    /\ statusFile = [r \in Runs |-> "none"]
    /\ job = [j \in Jobs |-> IdleJob]
    /\ page = [r \in Runs |-> "idle"]
    /\ failed = [r \in Runs |-> FALSE]
    /\ requests = 0
    /\ mishaps = {}

Happened(m) == mishaps' = mishaps \cup {m}

\* The file the ProgressReporter writes is the one get_progress reads only
\* where both run on one disk.
WriteStatus(r, s) ==
    statusFile' = IF mode = "local" THEN [statusFile EXCEPT ![r] = s] ELSE statusFile

-----------------------------------------------------------------------------
(* Requests.                                                                *)

Request == requests < MaxRequests /\ requests' = requests + 1

JobsOf(r) == {j \in Jobs : job[j].pc # "free" /\ job[j].run = r}

\* submit_pipeline and submit_tracker_match: a job is queued.
Submit(r, kind, gate) ==
    /\ \E j \in Jobs :
          /\ job[j].pc = "free"
          /\ job' = [job EXCEPT ![j] = [IdleJob EXCEPT !.pc = "queued", !.run = r,
                                                       !.kind = kind, !.gate = gate]]
    /\ mishaps' = IF JobsOf(r) # {} THEN mishaps \cup {"overlap"} ELSE mishaps

\* Mutant of ResetStatus: the row keeps the status of the run before.
KeepStatus(r) == IF row[r] = "none" THEN [row EXCEPT ![r] = "running"] ELSE row

\* set_run_status(run_id, "running"): flip the row up front.
ResetStatus(r) == [row EXCEPT ![r] = "running"]

\* POST /v1/runs from the report page, whose button is disabled from the click
\* until it has its answer.  Without a job the answer is an error and the row
\* stays "running".
StartRun(r, gate) ==
    /\ page[r] \notin {"polling", "ended"}
    /\ Request
    /\ row' = ResetStatus(r)
    /\ failed' = [failed EXCEPT ![r] = FALSE]
    /\ \/ Submit(r, "generate", gate) /\ page' = [page EXCEPT ![r] = "polling"]
       \/ Happened("lost") /\ page' = [page EXCEPT ![r] = "failed"] /\ UNCHANGED job
    /\ UNCHANGED <<mode, statusFile>>

\* A tracker match of the posting: it does not touch the row up front.
StartMatch(r) ==
    /\ Request
    /\ Submit(r, "match", FALSE)
    /\ UNCHANGED <<mode, row, statusFile, page, failed>>

-----------------------------------------------------------------------------
(* The worker.                                                              *)

Running(j) == job[j].pc \notin {"free", "queued"}

CanStart == Cardinality({j \in Jobs : Running(j)}) < MaxRunning

Step(j, from, to) == job[j].pc = from /\ job' = [job EXCEPT ![j].pc = to]

Redeliver(j) ==
    /\ job' = [job EXCEPT ![j].pc = "queued", ![j].end = "", ![j].tries = @ + 1]
    /\ Happened("again")

\* The job is over.  Cloud Tasks may miss the 2xx and deliver it again.
JobOver(j) ==
    \/ job' = [job EXCEPT ![j] = IdleJob] /\ UNCHANGED mishaps
    \/ /\ mode = "cloud"
       /\ job[j].tries + 1 < MaxAttempts
       /\ Redeliver(j)

\* A match deletes the folder of its entry's run id, if the entry has one.
WipeFolder(j) ==
    LET r == job[j].run IN
    /\ CanStart
    /\ job[j].kind = "match"
    /\ Step(j, "queued", "wiped")
    /\ WriteStatus(r, "none") \/ UNCHANGED statusFile
    /\ UNCHANGED <<mode, row, page, failed, requests, mishaps>>

\* run_pipeline begins: the reporter writes a fresh status.json.
StartPipeline(j) ==
    /\ \/ job[j].kind = "match" /\ Step(j, "wiped", "started")
       \/ job[j].kind = "generate" /\ CanStart /\ Step(j, "queued", "started")
    /\ WriteStatus(job[j].run, "running")
    /\ UNCHANGED <<mode, row, page, failed, requests, mishaps>>

\* Mutant of Endings: the decision itself becomes the outcome.
EndingsVerbatim(jb) ==
    {"error"} \cup (IF jb.kind = "match" THEN {"matched"}
                    ELSE IF jb.gate THEN {"done", "skip"} ELSE {"done"})

\* How the stages can end: the decision of the apply gate, or an exception.
Endings(jb) ==
    {"error"} \cup (IF jb.kind = "match" THEN {"matched"}
                    ELSE IF jb.gate THEN {"done", "gated_out"} ELSE {"done"})

EndStages(j) ==
    /\ job[j].pc = "started"
    /\ \E o \in Endings(job[j]) :
          /\ job' = [job EXCEPT ![j].pc = "ended", ![j].end = o]
          /\ failed' = [failed EXCEPT ![job[j].run] =
                            job[j].kind = "generate" /\ o = "error"]
    /\ UNCHANGED <<mode, row, statusFile, page, requests, mishaps>>

\* _index_run: the row takes the outcome; a failed write is swallowed.  The
\* error path of run_pipeline does not index.
IndexRun(j) ==
    /\ Step(j, "ended", "indexed")
    /\ \/ job[j].end # "error" /\ row' = [row EXCEPT ![job[j].run] = job[j].end]
       \/ UNCHANGED row
    /\ UNCHANGED <<mode, statusFile, page, failed, requests, mishaps>>

\* reporter.finish(); a pool thread and a match are done with the run then.
FinishReporter(j) ==
    /\ job[j].pc = "indexed"
    /\ WriteStatus(job[j].run, "done")
    /\ IF mode = "cloud" /\ job[j].kind = "generate"
       THEN Step(j, "indexed", "finished") /\ UNCHANGED mishaps
       ELSE JobOver(j)
    /\ UNCHANGED <<mode, row, page, failed, requests>>

\* Mutant of NeedsError: only a reported error is forced into the row.
NeedsErrorIfReported(jb) == jb.end = "error"

NeedsError(jb) ==
    jb.end = "error" \/ row[jb.run] \notin {"done", "matched", "gated_out"}

\* run_pipeline_endpoint reads the row back after publishing, ...
CheckRow(j) ==
    /\ job[j].pc = "finished"
    /\ IF NeedsError(job[j])
       THEN Step(j, "finished", "unsettled") /\ UNCHANGED mishaps
       ELSE JobOver(j)
    /\ UNCHANGED <<mode, row, statusFile, page, failed, requests>>

\* ... and forces a terminal status when it finds none.
ForceError(j) ==
    /\ job[j].pc = "unsettled"
    /\ row' = [row EXCEPT ![job[j].run] = "error"]
    /\ JobOver(j)
    /\ UNCHANGED <<mode, statusFile, page, failed, requests>>

Worker(j) ==
    \/ WipeFolder(j) \/ StartPipeline(j) \/ EndStages(j) \/ IndexRun(j)
    \/ FinishReporter(j) \/ CheckRow(j) \/ ForceError(j)

-----------------------------------------------------------------------------
(* Crashes.                                                                 *)

\* The worker dies: delivered again while attempts are left, then dropped.
WorkerCrash(j) ==
    /\ mode = "cloud"
    /\ Running(j)
    /\ IF job[j].tries + 1 < MaxAttempts
       THEN Redeliver(j)
       ELSE job' = [job EXCEPT ![j] = IdleJob] /\ Happened("lost")
    /\ UNCHANGED <<mode, row, statusFile, page, failed, requests>>

\* Locally the API process takes its pool and queue with it.
ProcessCrash ==
    /\ mode = "local"
    /\ \E j \in Jobs : job[j].pc # "free"
    /\ job' = [j \in Jobs |-> IdleJob]
    /\ Happened("lost")
    /\ UNCHANGED <<mode, row, statusFile, page, failed, requests>>

-----------------------------------------------------------------------------
(* The report page.                                                         *)

\* Mutant of RowDone: an error does not count as an end.
RowDoneUnlessError(r) == row[r] \in {"done", "matched"}

\* What get_progress reports as done from the row alone, ...
RowDone(r) == row[r] \in {"done", "error", "matched"}

\* ... and all its answers: status.json decides if it can be read; a read
\* that meets a reporter's unfinished write falls through to the row.
ProgressDone(r) ==
    IF statusFile[r] = "none" THEN {RowDone(r)}
    ELSE {statusFile[r] = "done"}
         \cup (IF \E j \in JobsOf(r) : Running(j) THEN {RowDone(r)} ELSE {})

\* pollUntilDone: an answer "done" ends the polling, ...
Poll(r) ==
    /\ page[r] = "polling"
    /\ TRUE \in ProgressDone(r)
    /\ page' = [page EXCEPT ![r] = "ended"]
    /\ UNCHANGED <<mode, row, statusFile, job, failed, requests, mishaps>>

\* ... then one getRun tells success from error.  A getRun that fails is
\* caught, and the page goes on to the documents as if it had told success.
ReadOutcome(r) ==
    /\ page[r] = "ended"
    /\ \/ page' = [page EXCEPT ![r] = IF row[r] = "error" THEN "failed" ELSE "shown"]
       \/ page' = [page EXCEPT ![r] = "assumed"]
    /\ UNCHANGED <<mode, row, statusFile, job, failed, requests, mishaps>>

Leave(r) ==
    /\ page[r] # "idle"
    /\ page' = [page EXCEPT ![r] = "idle"]
    /\ UNCHANGED <<mode, row, statusFile, job, failed, requests, mishaps>>

\* Coming back while the run is "running" resumes the polling.
Mount(r) ==
    /\ page[r] = "idle"
    /\ row[r] = "running"
    /\ page' = [page EXCEPT ![r] = "polling"]
    /\ UNCHANGED <<mode, row, statusFile, job, failed, requests, mishaps>>

-----------------------------------------------------------------------------
Next ==
    \/ \E r \in Runs, gate \in BOOLEAN : StartRun(r, gate)
    \/ \E r \in Runs : StartMatch(r)
    \/ \E j \in Jobs : Worker(j) \/ WorkerCrash(j)
    \/ ProcessCrash
    \/ \E r \in Runs : Poll(r) \/ ReadOutcome(r) \/ Leave(r) \/ Mount(r)

SafetySpec == Init /\ [][Next]_vars

\* Queued jobs are run to their end; an open page keeps polling (every two
\* seconds) until it is told.
Fairness ==
    /\ \A j \in Jobs : WF_vars(Worker(j))
    /\ \A r \in Runs : WF_vars(Poll(r)) /\ WF_vars(ReadOutcome(r))

Spec == SafetySpec /\ Fairness

-----------------------------------------------------------------------------
(* Properties.                                                              *)

\* "Guarantee a TERMINAL status" (run_pipeline_endpoint): in the cloud, when
\* no job of a run is left and none was lost, its row is not "running" -
\* however generations, matches and redeliveries of the run interleaved and
\* whichever writes of the row failed.
TerminalStatus ==
    \A r \in Runs :
        mode = "cloud" /\ "lost" \notin mishaps /\ JobsOf(r) = {} => row[r] # "running"

\* A generation that the row does not know about yet.
Awaited(j) ==
    /\ job[j].kind = "generate"
    /\ job[j].pc \in {"queued", "started", "ended"}

ToldDone(r) == page[r] = "polling" /\ page'[r] = "ended"

\* "Without this reset the progress poll sees that terminal status and
\* reports done on the first tick" (start_run): the page is never told "done"
\* while the generation it asked for has yet to run.
DoneIsNotStale ==
    [][\A r \in Runs : ToldDone(r) /\ mishaps = {} => \A j \in JobsOf(r) : ~Awaited(j)]_vars

\* The same, where the reset is all there is: in the cloud.
DoneIsNotStaleInCloud ==
    [][\A r \in Runs :
          ToldDone(r) /\ mishaps = {} /\ mode = "cloud"
             => \A j \in JobsOf(r) : ~Awaited(j)]_vars

\* "`done' ends the loop, then one getRun tells us success vs error": a page
\* that goes on to the documents after that getRun does not hide a generation
\* that failed.  (A page whose getRun itself failed is told nothing.)
FailureIsTold ==
    \A r \in Runs : page[r] = "shown" /\ mishaps = {} => ~failed[r]

\* The same in the cloud, where the row is all there is to read.
FailureIsToldInCloud ==
    \A r \in Runs : page[r] = "shown" /\ mishaps = {} /\ mode = "cloud" => ~failed[r]

\* A page that polls is told in the end, or its owner leaves - unless a job
\* was lost, or the run was gated out where only the row is left to tell:
\* get_progress does not count gated_out as terminal.
PollEnds ==
    \A r \in Runs :
        page[r] = "polling"
            ~> \/ page[r] # "polling"
               \/ "lost" \in mishaps
               \/ mode = "cloud" /\ row[r] = "gated_out"

=============================================================================
