------------------------- MODULE RunLifecycleProofs -------------------------
(* What TLAPS proves about RunLifecycle, for any runs, jobs and bounds: what *)
(* its variables are, that in the cloud a run without jobs is not "running", *)
(* and what the report page is told there.                                   *)
EXTENDS RunLifecycle, TLAPS

-----------------------------------------------------------------------------
(* The inductive invariant.                                                  *)

\* A job whose stages have ended has an outcome.
EndKnown == \A j \in Jobs : job[j].pc = "ended" => job[j].end \in Outcomes

\* In the cloud the API never sees a worker's status.json.
NoFile == mode = "cloud" => \A r \in Runs : statusFile[r] = "none"

Generates(j, r) == job[j].pc # "free" /\ job[j].run = r /\ job[j].kind = "generate"

\* Somebody will settle a row that is "running".
Settler ==
    \A r \in Runs :
        mode = "cloud" /\ "lost" \notin mishaps /\ row[r] = "running"
            => \E j \in Jobs : Generates(j, r)

Calm == mode = "cloud" /\ mishaps = {}

Alone ==
    \A i, j \in Jobs :
        job[i].pc # "free" /\ job[j].pc # "free" /\ job[i].run = job[j].run => i = j

\* A generation that the row does not know about, or that failed.
OpenJob(b) ==
    /\ b.pc # "free" /\ b.kind = "generate"
    /\ b.pc \in {"queued", "started", "ended"} \/ b.end = "error"

Open(j) == OpenJob(job[j])

\* Until such a generation is through, its row is "running" and its page has
\* not been told anything.
OpenIsRunning ==
    \A j \in Jobs : Open(j) =>
        row[job[j].run] = "running" /\ page[job[j].run] \in {"idle", "polling"}

\* A failure is known to the row, or to a job that will write it there.
FailureIsKnown ==
    \A r \in Runs : failed[r] =>
        /\ page[r] # "shown"
        /\ row[r] = "error" \/ \E j \in Jobs : Open(j) /\ job[j].run = r

\* A job that is about to index its success is the run's latest.
SuccessIsLatest ==
    \A j \in Jobs : job[j].pc = "ended" /\ job[j].end # "error" => ~failed[job[j].run]

Inv ==
    /\ TypeOK /\ EndKnown /\ NoFile /\ Settler
    /\ Calm => Alone /\ OpenIsRunning /\ FailureIsKnown /\ SuccessIsLatest

-----------------------------------------------------------------------------
LEMMA IdleJobType == IdleJob \in Job /\ IdleJob.pc = "free"
  BY DEF IdleJob, Job, Steps

LEMMA JobMoves ==
    ASSUME TypeOK, NEW j \in Jobs, NEW b \in Job, job' = [job EXCEPT ![j] = b]
    PROVE  /\ job' \in [Jobs -> Job]
           /\ job'[j] = b
           /\ \A i \in Jobs : i # j => job'[i] = job[i]
  BY DEF TypeOK

LEMMA RequestType ==
    ASSUME TypeOK, Request PROVE requests' \in 0 .. MaxRequests
  <1>1. requests \in 0 .. MaxRequests /\ MaxRequests \in Nat
    BY BoundsAssumption DEF TypeOK
  <1>. QED  BY <1>1 DEF Request

LEMMA StatusType ==
    ASSUME TypeOK, NoFile, NEW r \in Runs, NEW s \in {"none", "running", "done"},
           WriteStatus(r, s)
    PROVE  /\ statusFile' \in [Runs -> {"none", "running", "done"}]
           /\ mode = "cloud" => statusFile' = statusFile
  BY DEF WriteStatus, TypeOK, NoFile

\* In calm, a run that failed is one whose row tells it or whose only job will
\* write it there.
LEMMA FailureHere ==
    ASSUME Inv, Calm, NEW j \in Jobs, job[j].pc # "free", failed[job[j].run]
    PROVE  page[job[j].run] # "shown" /\ (row[job[j].run] = "error" \/ Open(j))
  <1>1. job[j].run \in Runs
    BY DEF Inv, TypeOK
  <1>2. /\ page[job[j].run] # "shown"
        /\ row[job[j].run] = "error" \/ \E i \in Jobs : Open(i) /\ job[i].run = job[j].run
    BY <1>1 DEF Inv, FailureIsKnown
  <1>3. ASSUME NEW i \in Jobs, Open(i), job[i].run = job[j].run
        PROVE  i = j
    BY <1>3 DEF Inv, Alone, Open, OpenJob
  <1>. QED  BY <1>2, <1>3

-----------------------------------------------------------------------------
(* One job of run r moves on: x is what the row says then, f whether the     *)
(* run failed.                                                               *)
LEMMA WorkerStep ==
    ASSUME Inv, NEW j \in Jobs, NEW b \in Job, NEW r \in Runs, NEW f \in BOOLEAN,
           NEW x \in Outcomes \cup {"none", "running"},
           job[j].pc # "free", r = job[j].run,
           job' = [job EXCEPT ![j] = b],
           b.pc # "free" => b.run = r /\ b.kind = job[j].kind,
           b.pc = "ended" => b.end \in Outcomes,
           row' = [row EXCEPT ![r] = x],
           x = "running" => row[r] = "running",
           failed' = [failed EXCEPT ![r] = f],
           UNCHANGED <<mode, page, requests>>,
           statusFile' \in [Runs -> {"none", "running", "done"}],
           mode = "cloud" => statusFile' = statusFile,
           mishaps' \in SUBSET {"lost", "again", "overlap"},
           mishaps \subseteq mishaps',
           mode = "cloud" /\ x = "running" /\ job[j].kind = "generate" /\ b.pc = "free"
               => "lost" \in mishaps',
           Calm /\ mishaps' = {} =>
               /\ OpenJob(b) => Open(j) /\ x = row[r]
               /\ f => page[r] # "shown" /\ (x = "error" \/ OpenJob(b))
               /\ b.pc = "ended" /\ b.end # "error" => ~f
    PROVE  Inv'
  <1>1. /\ job' \in [Jobs -> Job]
        /\ job'[j] = b
        /\ \A i \in Jobs : i # j => job'[i] = job[i]
    BY JobMoves DEF Inv
  <1>2. /\ row' \in [Runs -> Outcomes \cup {"none", "running"}]
        /\ row'[r] = x
        /\ \A q \in Runs : q # r => row'[q] = row[q]
    BY DEF Inv, TypeOK
  <1>3. /\ failed' \in [Runs -> BOOLEAN]
        /\ failed'[r] = f
        /\ \A q \in Runs : q # r => failed'[q] = failed[q]
    BY DEF Inv, TypeOK
  <1>4. TypeOK' /\ EndKnown' /\ NoFile'
    BY <1>1, <1>2, <1>3 DEF Inv, TypeOK, EndKnown, NoFile
  <1>5. Settler'
    <2>. SUFFICES ASSUME NEW q \in Runs, mode = "cloud", "lost" \notin mishaps',
                         row'[q] = "running"
                  PROVE  \E i \in Jobs : Generates(i, q)'
      BY DEF Settler
    <2>1. row[q] = "running" /\ "lost" \notin mishaps
      BY <1>2
    <2>2. PICK i \in Jobs : Generates(i, q)
      BY <2>1 DEF Inv, Settler
    <2>3. CASE i # j
      BY <2>2, <2>3, <1>1 DEF Generates
    <2>4. CASE i = j
      BY <2>2, <2>4, <1>1, <1>2 DEF Generates
    <2>. QED  BY <2>3, <2>4
  <1>6. ASSUME Calm'
        PROVE  Alone' /\ OpenIsRunning' /\ FailureIsKnown' /\ SuccessIsLatest'
    <2>1. Calm /\ mishaps' = {}
      BY <1>6 DEF Calm
    <2>2. /\ OpenJob(b) => Open(j) /\ x = row[r]
          /\ f => page[r] # "shown" /\ (x = "error" \/ OpenJob(b))
          /\ b.pc = "ended" /\ b.end # "error" => ~f
      BY <2>1
    <2>3. Alone /\ OpenIsRunning /\ FailureIsKnown /\ SuccessIsLatest
      BY <2>1 DEF Inv
    <2>4. \A i \in Jobs : i # j /\ job[i].pc # "free" =>
              job[i].run # r /\ job[i].run \in Runs
      BY <2>3 DEF Alone, Inv, TypeOK
    <2>5. Alone'
      BY <1>1, <2>3 DEF Alone
    <2>6. OpenIsRunning'
      <3>. SUFFICES ASSUME NEW i \in Jobs, Open(i)'
                    PROVE  /\ row'[job'[i].run] = "running"
                           /\ page[job'[i].run] \in {"idle", "polling"}
        BY DEF OpenIsRunning
      <3>1. CASE i = j
        <4>1. OpenJob(b)
          BY <3>1, <1>1 DEF Open
        <4>. QED  BY <3>1, <4>1, <1>1, <1>2, <2>2, <2>3 DEF OpenIsRunning, OpenJob
      <3>2. CASE i # j
        <4>1. Open(i) /\ job'[i] = job[i]
          BY <3>2, <1>1 DEF Open
        <4>2. job[i].pc # "free"
          BY <4>1 DEF Open, OpenJob
        <4>. QED  BY <3>2, <4>1, <4>2, <1>2, <2>3, <2>4 DEF OpenIsRunning
      <3>. QED  BY <3>1, <3>2
    <2>7. FailureIsKnown'
      <3>. SUFFICES ASSUME NEW q \in Runs, failed'[q]
                    PROVE  /\ page[q] # "shown"
                           /\ \/ row'[q] = "error"
                              \/ \E i \in Jobs : Open(i)' /\ job'[i].run = q
        BY DEF FailureIsKnown
      <3>1. CASE q = r
        <4>1. OpenJob(b) => Open(j)' /\ job'[j].run = r
          BY <1>1 DEF Open, OpenJob
        <4>. QED  BY <3>1, <4>1, <1>2, <1>3, <2>2
      <3>2. CASE q # r
        <4>1. /\ page[q] # "shown"
              /\ row[q] = "error" \/ \E i \in Jobs : Open(i) /\ job[i].run = q
          BY <3>2, <1>3, <2>3 DEF FailureIsKnown
        <4>2. ASSUME NEW i \in Jobs, Open(i), job[i].run = q
              PROVE  Open(i)' /\ job'[i].run = q
          BY <3>2, <4>2, <1>1 DEF Open
        <4>. QED  BY <3>2, <4>1, <4>2, <1>2
      <3>. QED  BY <3>1, <3>2
    <2>8. SuccessIsLatest'
      BY <1>1, <1>3, <2>2, <2>3, <2>4 DEF SuccessIsLatest
    <2>. QED  BY <2>5, <2>6, <2>7, <2>8
  <1>. QED  BY <1>4, <1>5, <1>6 DEF Inv
-----------------------------------------------------------------------------
(* The actions.                                                              *)

\* What is left of a job after a step that frees it or queues it again.
Freed(j, b) == b = IdleJob /\ UNCHANGED mishaps

Again(j, b) ==
    /\ b.pc = "queued" /\ b.run = job[j].run /\ b.kind = job[j].kind
    /\ Happened("again")

LEMMA RequeuedType ==
    ASSUME NEW a \in Job, NEW n \in Nat
    PROVE  [a EXCEPT !.pc = "queued", !.end = "", !.tries = n] \in Job
  BY DEF Job, Steps

LEMMA RedeliverStep ==
    ASSUME TypeOK, NEW j \in Jobs, Redeliver(j)
    PROVE  \E b \in Job : job' = [job EXCEPT ![j] = b] /\ Again(j, b)
  <1>. DEFINE n == job[j].tries + 1
              b == [job[j] EXCEPT !.pc = "queued", !.end = "", !.tries = n]
  <1>1. job[j] \in Job
    BY DEF TypeOK
  <1>2. n \in Nat
    <2>1. job[j].tries \in Nat
      BY <1>1 DEF Job
    <2>. QED  BY <2>1
  <1>3. job' = [job EXCEPT ![j] = b]
    BY DEF Redeliver, TypeOK
  <1>. HIDE DEF n
  <1>4. b \in Job
    BY <1>1, <1>2, RequeuedType
  <1>5. b.pc = "queued" /\ b.run = job[j].run /\ b.kind = job[j].kind
    BY <1>1 DEF Job
  <1>. HIDE DEF b
  <1>. QED  BY <1>3, <1>4, <1>5 DEF Redeliver, Again

LEMMA JobOverStep ==
    ASSUME TypeOK, NEW j \in Jobs, JobOver(j)
    PROVE  \E b \in Job : job' = [job EXCEPT ![j] = b] /\ (Freed(j, b) \/ Again(j, b))
  <1>1. CASE Redeliver(j)
    BY <1>1, RedeliverStep
  <1>2. CASE job' = [job EXCEPT ![j] = IdleJob] /\ UNCHANGED mishaps
    BY <1>2, IdleJobType DEF Freed
  <1>. QED  BY <1>1, <1>2 DEF JobOver

\* A step that only moves a job along leaves its other fields alone.
LEMMA StepMoves ==
    ASSUME TypeOK, NEW j \in Jobs, NEW from, NEW to \in Steps, Step(j, from, to)
    PROVE  \E b \in Job :
              /\ job' = [job EXCEPT ![j] = b]
              /\ job[j].pc = from /\ b.pc = to /\ b.run = job[j].run
              /\ b.kind = job[j].kind /\ b.end = job[j].end
  <1>. DEFINE b == [job[j] EXCEPT !.pc = to]
  <1>1. job[j] \in Job
    BY DEF TypeOK
  <1>2. /\ b \in Job /\ b.pc = to /\ b.run = job[j].run
        /\ b.kind = job[j].kind /\ b.end = job[j].end
    BY <1>1 DEF Job
  <1>3. job' = [job EXCEPT ![j] = b] /\ job[j].pc = from
    BY DEF Step
  <1>. HIDE DEF b
  <1>. QED  BY <1>2, <1>3

\* What a job step starts from, and what it may leave unchanged.
LEMMA BeforeStep ==
    ASSUME Inv, NEW j \in Jobs, job[j].pc # "free"
    PROVE  /\ job[j].run \in Runs
           /\ row[job[j].run] \in Outcomes \cup {"none", "running"}
           /\ failed[job[j].run] \in BOOLEAN
           /\ row = [row EXCEPT ![job[j].run] = row[job[j].run]]
           /\ failed = [failed EXCEPT ![job[j].run] = failed[job[j].run]]
           /\ statusFile \in [Runs -> {"none", "running", "done"}]
           /\ mishaps \in SUBSET {"lost", "again", "overlap"}
  BY DEF Inv, TypeOK

\* A step of a job that writes neither its row nor its outcome.
LEMMA QuietStep ==
    ASSUME Inv, NEW j \in Jobs, NEW b \in Job,
           job[j].pc # "free",
           job' = [job EXCEPT ![j] = b],
           b.pc # "free" => b.run = job[j].run /\ b.kind = job[j].kind,
           b.pc # "ended",
           UNCHANGED <<mode, row, failed, page, requests>>,
           statusFile' \in [Runs -> {"none", "running", "done"}],
           mode = "cloud" => statusFile' = statusFile,
           mishaps' \in SUBSET {"lost", "again", "overlap"},
           mishaps \subseteq mishaps',
           mode = "cloud" /\ row[job[j].run] = "running" /\ job[j].kind = "generate"
               /\ b.pc = "free" => "lost" \in mishaps',
           mishaps' = {} => (OpenJob(b) <=> Open(j))
    PROVE  Inv'
  <1>. DEFINE r == job[j].run
              x == row[r]
              f == failed[r]
  <1>1. /\ r \in Runs /\ x \in Outcomes \cup {"none", "running"} /\ f \in BOOLEAN
        /\ row' = [row EXCEPT ![r] = x]
        /\ failed' = [failed EXCEPT ![r] = f]
    BY BeforeStep
  <1>2. Calm /\ f => page[r] # "shown" /\ (x = "error" \/ Open(j))
    BY FailureHere
  <1>3. x = row[r] /\ r = job[j].run
    OBVIOUS
  <1>. HIDE DEF r, x, f
  <1>. QED  BY <1>1, <1>2, <1>3, WorkerStep, ZenonT(30)

LEMMA WipeInv ==
    ASSUME Inv, NEW j \in Jobs, WipeFolder(j) PROVE Inv'
  <1>1. PICK b \in Job :
          /\ job' = [job EXCEPT ![j] = b]
          /\ job[j].pc = "queued" /\ b.pc = "wiped" /\ b.run = job[j].run
          /\ b.kind = job[j].kind /\ b.end = job[j].end
    BY StepMoves DEF WipeFolder, Inv, Steps
  <1>2. job[j].pc # "free" /\ job[j].kind = "match"
    BY <1>1 DEF WipeFolder
  <1>3. /\ statusFile' \in [Runs -> {"none", "running", "done"}]
        /\ mode = "cloud" => statusFile' = statusFile
    BY <1>2, BeforeStep, StatusType DEF WipeFolder, Inv
  <1>4. ~OpenJob(b) /\ ~Open(j)
    BY <1>1, <1>2 DEF Open, OpenJob
  <1>5. UNCHANGED <<mode, row, page, failed, requests, mishaps>>
    BY DEF WipeFolder
  <1>. QED
    BY <1>1, <1>2, <1>3, <1>4, <1>5, BeforeStep, QuietStep

LEMMA StartInv ==
    ASSUME Inv, NEW j \in Jobs, StartPipeline(j) PROVE Inv'
  <1>1. PICK b \in Job :
          /\ job' = [job EXCEPT ![j] = b]
          /\ job[j].pc \in {"queued", "wiped"} /\ b.pc = "started" /\ b.run = job[j].run
          /\ b.kind = job[j].kind /\ b.end = job[j].end
          /\ job[j].pc = "wiped" => job[j].kind = "match"
    BY StepMoves DEF StartPipeline, Inv, Steps
  <1>2. job[j].pc # "free"
    BY <1>1
  <1>3. /\ statusFile' \in [Runs -> {"none", "running", "done"}]
        /\ mode = "cloud" => statusFile' = statusFile
    BY <1>2, BeforeStep, StatusType DEF StartPipeline, Inv
  <1>4. OpenJob(b) <=> Open(j)
    BY <1>1 DEF Open, OpenJob
  <1>5. UNCHANGED <<mode, row, page, failed, requests, mishaps>>
    BY DEF StartPipeline
  <1>. QED
    BY <1>1, <1>2, <1>3, <1>4, <1>5, BeforeStep, QuietStep

\* The run has failed from here on if and only if its generation has.
LEMMA EndInv ==
    ASSUME Inv, NEW j \in Jobs, EndStages(j) PROVE Inv'
  <1>1. PICK o \in Endings(job[j]) :
          /\ job' = [job EXCEPT ![j].pc = "ended", ![j].end = o]
          /\ failed' = [failed EXCEPT ![job[j].run] =
                            job[j].kind = "generate" /\ o = "error"]
    BY DEF EndStages
  <1>. DEFINE b == [job[j] EXCEPT !.pc = "ended", !.end = o]
              f == job[j].kind = "generate" /\ o = "error"
  <1>2. o \in Outcomes /\ job[j] \in Job
    BY DEF Endings, Outcomes, Inv, TypeOK
  <1>3. /\ b \in Job /\ b.pc = "ended" /\ b.end = o /\ b.run = job[j].run
        /\ b.kind = job[j].kind
    BY <1>2 DEF Job, Steps
  <1>4. job' = [job EXCEPT ![j] = b] /\ failed' = [failed EXCEPT ![job[j].run] = f]
    BY <1>1, <1>2 DEF Inv, TypeOK
  <1>5. f \in BOOLEAN /\ (f <=> job[j].kind = "generate" /\ o = "error")
    OBVIOUS
  <1>6. job[j].pc = "started"
    BY DEF EndStages
  <1>. HIDE DEF b, f
  <1>7. OpenJob(b) => Open(j)
    BY <1>3, <1>6 DEF Open, OpenJob
  <1>8. f => OpenJob(b) /\ Open(j)
    BY <1>3, <1>5, <1>6 DEF Open, OpenJob
  <1>9. Calm /\ Open(j) => page[job[j].run] # "shown"
    BY DEF Inv, OpenIsRunning
  <1>10. b.end # "error" => ~f
    BY <1>3, <1>5
  <1>. QED
    BY <1>2, <1>3, <1>4, <1>5, <1>6, <1>7, <1>8, <1>9, <1>10, BeforeStep, WorkerStep
    DEF EndStages

\* In calm the job that indexes its success is the only one of its run, and its
\* run has not failed.
LEMMA IndexInv ==
    ASSUME Inv, NEW j \in Jobs, IndexRun(j) PROVE Inv'
  <1>1. PICK b \in Job :
          /\ job' = [job EXCEPT ![j] = b]
          /\ job[j].pc = "ended" /\ b.pc = "indexed" /\ b.run = job[j].run
          /\ b.kind = job[j].kind /\ b.end = job[j].end
    BY StepMoves DEF IndexRun, Inv, Steps
  <1>2. job[j].pc # "free" /\ b.pc # "free" /\ b.pc # "ended"
    BY <1>1
  <1>3. UNCHANGED <<mode, statusFile, page, failed, requests, mishaps>>
    BY DEF IndexRun
  <1>4. CASE UNCHANGED row /\ job[j].end = "error"
    <2>1. OpenJob(b) <=> Open(j)
      BY <1>1, <1>4 DEF Open, OpenJob
    <2>. QED  BY <1>1, <1>2, <1>3, <1>4, <2>1, BeforeStep, QuietStep
  <1>5. CASE job[j].end # "error"
    <2>. DEFINE r == job[j].run
                f == failed[r]
    <2>1. PICK x \in {row[r], job[j].end} : row' = [row EXCEPT ![r] = x]
      BY <1>2, BeforeStep DEF IndexRun
    <2>2. job[j].end \in {"done", "matched", "gated_out"}
      BY <1>1, <1>5 DEF Inv, EndKnown, Outcomes
    <2>3. /\ r \in Runs /\ f \in BOOLEAN
          /\ x \in Outcomes \cup {"none", "running"}
          /\ failed' = [failed EXCEPT ![r] = f]
          /\ x = "running" => row[r] = "running"
      BY <1>2, <1>3, <2>1, <2>2, BeforeStep DEF Outcomes
    <2>4. ~OpenJob(b)
      BY <1>1, <1>5 DEF OpenJob
    <2>5. Calm => ~f
      BY <1>1, <1>5 DEF Inv, SuccessIsLatest
    <2>6. /\ statusFile' \in [Runs -> {"none", "running", "done"}]
          /\ mishaps' \in SUBSET {"lost", "again", "overlap"} /\ mishaps \subseteq mishaps'
      BY <1>2, <1>3, BeforeStep
    <2>7. r = job[j].run
      OBVIOUS
    <2>. HIDE DEF r, f
    <2>. QED  BY <1>1, <1>2, <1>3, <2>1, <2>3, <2>4, <2>5, <2>6, <2>7, WorkerStep, ZenonT(30)
  <1>6. UNCHANGED row \/ job[j].end # "error"
    BY DEF IndexRun
  <1>. QED  BY <1>4, <1>5, <1>6

\* A job that is over has nothing left to tell.
LEMMA OverInv ==
    ASSUME Inv, NEW j \in Jobs, job[j].pc # "free", JobOver(j), ~Open(j),
           UNCHANGED <<mode, row, failed, page, requests>>,
           statusFile' \in [Runs -> {"none", "running", "done"}],
           mode = "cloud" => statusFile' = statusFile,
           mode = "cloud" /\ job[j].kind = "generate" => row[job[j].run] # "running"
    PROVE  Inv'
  <1>1. PICK b \in Job : job' = [job EXCEPT ![j] = b] /\ (Freed(j, b) \/ Again(j, b))
    BY JobOverStep DEF Inv
  <1>2. CASE Freed(j, b)
    <2>1. b.pc = "free" /\ ~OpenJob(b) /\ UNCHANGED mishaps
      BY <1>2, IdleJobType DEF Freed, OpenJob
    <2>. QED  BY <1>1, <2>1, BeforeStep, QuietStep
  <1>3. CASE Again(j, b)
    <2>1. /\ b.pc = "queued" /\ b.run = job[j].run /\ b.kind = job[j].kind
          /\ mishaps' = mishaps \cup {"again"}
      BY <1>3 DEF Again, Happened
    <2>. QED  BY <1>1, <2>1, BeforeStep, QuietStep
  <1>. QED  BY <1>1, <1>2, <1>3

LEMMA FinishInv ==
    ASSUME Inv, NEW j \in Jobs, FinishReporter(j) PROVE Inv'
  <1>1. job[j].pc = "indexed" /\ UNCHANGED <<mode, row, page, failed, requests>>
    BY DEF FinishReporter
  <1>2. job[j].pc # "free"
    BY <1>1
  <1>3. /\ statusFile' \in [Runs -> {"none", "running", "done"}]
        /\ mode = "cloud" => statusFile' = statusFile
    BY <1>2, BeforeStep, StatusType DEF FinishReporter, Inv
  <1>4. CASE mode = "cloud" /\ job[j].kind = "generate"
    <2>1. Step(j, "indexed", "finished") /\ UNCHANGED mishaps
      BY <1>4 DEF FinishReporter
    <2>2. PICK b \in Job :
            /\ job' = [job EXCEPT ![j] = b]
            /\ b.pc = "finished" /\ b.run = job[j].run
            /\ b.kind = job[j].kind /\ b.end = job[j].end
      BY <2>1, StepMoves DEF Inv, Steps
    <2>3. OpenJob(b) <=> Open(j)
      BY <1>1, <2>2 DEF Open, OpenJob
    <2>. QED  BY <1>1, <1>2, <1>3, <2>1, <2>2, <2>3, BeforeStep, QuietStep
  <1>5. CASE ~(mode = "cloud" /\ job[j].kind = "generate")
    <2>1. JobOver(j)
      BY <1>5 DEF FinishReporter
    <2>2. CASE ~Open(j)
      BY <1>1, <1>2, <1>3, <1>5, <2>1, <2>2, OverInv
    <2>3. CASE Open(j)
      <3>1. mode # "cloud"
        BY <1>5, <2>3 DEF Open, OpenJob
      <3>2. PICK b \in Job : job' = [job EXCEPT ![j] = b] /\ Freed(j, b)
        BY <2>1, <3>1, IdleJobType DEF JobOver, Freed
      <3>3. b.pc = "free" /\ UNCHANGED mishaps
        BY <3>2, IdleJobType DEF Freed
      <3>4. UNCHANGED <<row, failed, page>> /\ mode' # "cloud"
        BY <1>1, <3>1
      <3>5. job' \in [Jobs -> Job] /\ job'[j] = b /\ \A i \in Jobs : i # j => job'[i] = job[i]
        BY <3>2, JobMoves DEF Inv
      <3>. QED
        BY <1>1, <1>3, <3>3, <3>4, <3>5
        DEF Inv, TypeOK, EndKnown, NoFile, Settler, Calm
    <2>. QED  BY <2>2, <2>3
  <1>. QED  BY <1>4, <1>5

LEMMA CheckInv ==
    ASSUME Inv, NEW j \in Jobs, CheckRow(j) PROVE Inv'
  <1>1. job[j].pc = "finished" /\ UNCHANGED <<mode, row, statusFile, page, failed, requests>>
    BY DEF CheckRow
  <1>2. job[j].pc # "free"
    BY <1>1
  <1>3. CASE NeedsError(job[j])
    <2>1. Step(j, "finished", "unsettled") /\ UNCHANGED mishaps
      BY <1>3 DEF CheckRow
    <2>2. PICK b \in Job :
            /\ job' = [job EXCEPT ![j] = b]
            /\ b.pc = "unsettled" /\ b.run = job[j].run
            /\ b.kind = job[j].kind /\ b.end = job[j].end
      BY <2>1, StepMoves DEF Inv, Steps
    <2>3. OpenJob(b) <=> Open(j)
      BY <1>1, <2>2 DEF Open, OpenJob
    <2>. QED  BY <1>1, <1>2, <2>1, <2>2, <2>3, BeforeStep, QuietStep
  <1>4. CASE ~NeedsError(job[j])
    <2>1. JobOver(j)
      BY <1>4 DEF CheckRow
    <2>2. ~Open(j) /\ row[job[j].run] # "running"
      BY <1>1, <1>4 DEF NeedsError, Open, OpenJob
    <2>. QED  BY <1>1, <1>2, <2>1, <2>2, BeforeStep, OverInv
  <1>. QED  BY <1>3, <1>4

\* The row says "error" from here on; nobody else has anything to say about it.
LEMMA ForceInv ==
    ASSUME Inv, NEW j \in Jobs, ForceError(j) PROVE Inv'
  <1>. DEFINE r == job[j].run
              f == failed[r]
  <1>1. /\ job[j].pc = "unsettled" /\ JobOver(j)
        /\ row' = [row EXCEPT ![r] = "error"]
        /\ UNCHANGED <<mode, statusFile, page, failed, requests>>
    BY DEF ForceError
  <1>2. job[j].pc # "free"
    BY <1>1
  <1>3. /\ r \in Runs /\ f \in BOOLEAN /\ failed' = [failed EXCEPT ![r] = f]
        /\ statusFile' \in [Runs -> {"none", "running", "done"}]
        /\ mishaps \in SUBSET {"lost", "again", "overlap"}
    BY <1>1, <1>2, BeforeStep
  <1>4. "error" \in Outcomes \cup {"none", "running"}
    BY DEF Outcomes
  <1>5. Calm /\ f => page[r] # "shown"
    BY <1>2, FailureHere
  <1>6. PICK b \in Job : job' = [job EXCEPT ![j] = b] /\ (Freed(j, b) \/ Again(j, b))
    BY <1>1, JobOverStep DEF Inv
  <1>7. r = job[j].run
    OBVIOUS
  <1>. HIDE DEF r, f
  <1>8. CASE Freed(j, b)
    <2>1. b.pc = "free" /\ ~OpenJob(b) /\ UNCHANGED mishaps
      BY <1>8, IdleJobType DEF Freed, OpenJob
    <2>. QED  BY <1>1, <1>2, <1>3, <1>4, <1>5, <1>6, <1>7, <2>1, WorkerStep
  <1>9. CASE Again(j, b)
    <2>1. /\ b.pc = "queued" /\ b.run = job[j].run /\ b.kind = job[j].kind
          /\ mishaps' = mishaps \cup {"again"}
      BY <1>9 DEF Again, Happened
    <2>. QED  BY <1>1, <1>2, <1>3, <1>4, <1>6, <1>7, <2>1, WorkerStep
  <1>. QED  BY <1>6, <1>8, <1>9

\* A job that crashes is delivered again or lost; both are remembered.
LEMMA WorkerCrashInv ==
    ASSUME Inv, NEW j \in Jobs, WorkerCrash(j) PROVE Inv'
  <1>1. job[j].pc # "free" /\ UNCHANGED <<mode, row, statusFile, page, failed, requests>>
    BY DEF WorkerCrash, Running
  <1>2. CASE Redeliver(j)
    <2>1. PICK b \in Job : job' = [job EXCEPT ![j] = b] /\ Again(j, b)
      BY <1>2, RedeliverStep DEF Inv
    <2>2. /\ b.pc = "queued" /\ b.run = job[j].run /\ b.kind = job[j].kind
          /\ mishaps' = mishaps \cup {"again"}
      BY <2>1 DEF Again, Happened
    <2>. QED  BY <1>1, <2>1, <2>2, BeforeStep, QuietStep
  <1>3. CASE job' = [job EXCEPT ![j] = IdleJob] /\ Happened("lost")
    <2>1. mishaps' = mishaps \cup {"lost"}
      BY <1>3 DEF Happened
    <2>. QED  BY <1>1, <1>3, <2>1, IdleJobType, BeforeStep, QuietStep
  <1>. QED  BY <1>2, <1>3 DEF WorkerCrash

-----------------------------------------------------------------------------
(* Requests, the end of the API process, and the page.                       *)

LEMMA SubmitStep ==
    ASSUME Inv, NEW r \in Runs, NEW kind \in {"generate", "match"},
           \E gate \in BOOLEAN : Submit(r, kind, gate)
    PROVE  \E j \in Jobs, b \in Job :
              /\ job[j].pc = "free" /\ job' = [job EXCEPT ![j] = b]
              /\ b.pc = "queued" /\ b.run = r /\ b.kind = kind /\ b.end = ""
              /\ mishaps \subseteq mishaps'
              /\ mishaps' \in SUBSET {"lost", "again", "overlap"}
              /\ mishaps' = {} =>
                    \A i \in Jobs : job[i].pc # "free" => job[i].run # r
  <1>1. PICK j \in Jobs, gate \in BOOLEAN :
          /\ job[j].pc = "free"
          /\ job' = [job EXCEPT ![j] = [IdleJob EXCEPT !.pc = "queued", !.run = r,
                                                       !.kind = kind, !.gate = gate]]
    BY DEF Submit
  <1>. DEFINE b == [IdleJob EXCEPT !.pc = "queued", !.run = r, !.kind = kind,
                                   !.gate = gate]
  <1>2. /\ b \in Job /\ b.pc = "queued" /\ b.run = r /\ b.kind = kind
        /\ b.end = ""
    BY DEF IdleJob, Job, Steps
  <1>3. job' = [job EXCEPT ![j] = b]
    BY <1>1
  <1>. HIDE DEF b
  <1>4. /\ mishaps \subseteq mishaps'
        /\ mishaps' \in SUBSET {"lost", "again", "overlap"}
    BY DEF Submit, Inv, TypeOK
  <1>5. ASSUME mishaps' = {}, NEW i \in Jobs, job[i].pc # "free" PROVE job[i].run # r
    BY <1>5 DEF Submit, JobsOf
  <1>. QED  BY <1>1, <1>2, <1>3, <1>4, <1>5

\* Who finds the posting without a job takes a run that everything known so far
\* is over for.
LEMMA StartMatchInv ==
    ASSUME Inv, NEW r \in Runs, StartMatch(r) PROVE Inv'
  <1>1. PICK j \in Jobs, b \in Job :
          /\ job[j].pc = "free" /\ job' = [job EXCEPT ![j] = b]
          /\ b.pc = "queued" /\ b.run = r /\ b.kind = "match" /\ b.end = ""
          /\ mishaps \subseteq mishaps'
          /\ mishaps' \in SUBSET {"lost", "again", "overlap"}
          /\ mishaps' = {} => \A i \in Jobs : job[i].pc # "free" => job[i].run # r
    <2>1. \E gate \in BOOLEAN : Submit(r, "match", gate)
      BY DEF StartMatch
    <2>. QED  BY <2>1, SubmitStep, ZenonT(30)
  <1>2. /\ job' \in [Jobs -> Job] /\ job'[j] = b
        /\ \A i \in Jobs : i # j => job'[i] = job[i]
    BY <1>1, JobMoves DEF Inv
  <1>3. UNCHANGED <<mode, row, statusFile, page, failed>> /\ requests' \in 0 .. MaxRequests
    BY RequestType DEF StartMatch, Inv
  <1>4. TypeOK' /\ EndKnown' /\ NoFile'
    BY <1>1, <1>2, <1>3 DEF Inv, TypeOK, EndKnown, NoFile
  <1>5. Settler'
    <2>1. \A i \in Jobs, q \in Runs : Generates(i, q) => Generates(i, q)'
      BY <1>1, <1>2 DEF Generates
    <2>2. "lost" \notin mishaps' => "lost" \notin mishaps
      BY <1>1
    <2>. QED  BY <1>3, <2>1, <2>2 DEF Inv, Settler
  <1>6. ASSUME Calm'
        PROVE  Alone' /\ OpenIsRunning' /\ FailureIsKnown' /\ SuccessIsLatest'
    <2>1. Calm /\ \A i \in Jobs : job[i].pc # "free" => job[i].run # r
      BY <1>1, <1>3, <1>6 DEF Calm
    <2>2. Alone'
      BY <1>1, <1>2, <2>1 DEF Inv, Alone
    <2>3. \A i \in Jobs : Open(i)' <=> i # j /\ Open(i)
      BY <1>1, <1>2 DEF Open, OpenJob
    <2>4. ~Open(j)
      BY <1>1 DEF Open, OpenJob
    <2>5. OpenIsRunning'
      BY <1>2, <1>3, <2>1, <2>3 DEF Inv, OpenIsRunning
    <2>6. FailureIsKnown'
      BY <1>2, <1>3, <2>1, <2>3, <2>4 DEF Inv, FailureIsKnown
    <2>7. SuccessIsLatest'
      BY <1>1, <1>2, <1>3, <2>1 DEF Inv, SuccessIsLatest
    <2>. QED  BY <2>2, <2>5, <2>6, <2>7
  <1>. QED  BY <1>4, <1>5, <1>6 DEF Inv

LEMMA StartRunInv ==
    ASSUME Inv, NEW r \in Runs, \E gate \in BOOLEAN : StartRun(r, gate) PROVE Inv'
  <1>1. /\ row' = [row EXCEPT ![r] = "running"]
        /\ failed' = [failed EXCEPT ![r] = FALSE]
        /\ UNCHANGED <<mode, statusFile>> /\ requests' \in 0 .. MaxRequests
    BY RequestType DEF StartRun, ResetStatus, Inv
  <1>2. /\ row' \in [Runs -> Outcomes \cup {"none", "running"}] /\ row'[r] = "running"
        /\ \A q \in Runs : q # r => row'[q] = row[q]
    BY <1>1 DEF Inv, TypeOK
  <1>3. /\ failed' \in [Runs -> BOOLEAN] /\ ~failed'[r]
        /\ \A q \in Runs : q # r => failed'[q] = failed[q]
    BY <1>1 DEF Inv, TypeOK
  <1>4. CASE /\ \E gate \in BOOLEAN : Submit(r, "generate", gate)
             /\ page' = [page EXCEPT ![r] = "polling"]
    <2>1. PICK j \in Jobs, b \in Job :
            /\ job[j].pc = "free" /\ job' = [job EXCEPT ![j] = b]
            /\ b.pc = "queued" /\ b.run = r /\ b.kind = "generate" /\ b.end = ""
            /\ mishaps \subseteq mishaps'
            /\ mishaps' \in SUBSET {"lost", "again", "overlap"}
            /\ mishaps' = {} => \A i \in Jobs : job[i].pc # "free" => job[i].run # r
      BY <1>4, SubmitStep, ZenonT(30)
    <2>2. /\ job' \in [Jobs -> Job] /\ job'[j] = b
          /\ \A i \in Jobs : i # j => job'[i] = job[i]
      BY <2>1, JobMoves DEF Inv
    <2>3. /\ page' \in [Runs -> Views]
          /\ page'[r] = "polling" /\ \A q \in Runs : q # r => page'[q] = page[q]
      BY <1>4 DEF Inv, TypeOK, Views
    <2>4. TypeOK' /\ EndKnown' /\ NoFile'
      <3>1. \A i \in Jobs :
              /\ job'[i].pc # "free" => job'[i].run \in Runs
              /\ job'[i].pc = "ended" => job'[i].end \in Outcomes
        BY <2>1, <2>2 DEF Inv, TypeOK, EndKnown
      <3>2. UNCHANGED <<mode, statusFile>> /\ requests' \in 0 .. MaxRequests
        BY <1>1
      <3>3. EndKnown'
        BY <3>1 DEF EndKnown
      <3>4. NoFile'
        BY <3>2 DEF Inv, NoFile
      <3>5. mode' \in Modes /\ statusFile' \in [Runs -> {"none", "running", "done"}]
        BY <3>2 DEF Inv, TypeOK
      <3>6. /\ row' \in [Runs -> Outcomes \cup {"none", "running"}]
            /\ failed' \in [Runs -> BOOLEAN]
            /\ job' \in [Jobs -> Job]
            /\ page' \in [Runs -> Views]
            /\ mishaps' \in SUBSET {"lost", "again", "overlap"}
        BY <1>2, <1>3, <2>1, <2>2, <2>3
      <3>7. \A i \in Jobs : job'[i].pc # "free" => job'[i].run \in Runs
        BY <3>1
      <3>8. TypeOK'
        BY <3>2, <3>5, <3>6, <3>7 DEF TypeOK
      <3>. QED  BY <3>3, <3>4, <3>8
    <2>5. Settler'
      <3>1. Generates(j, r)'
        BY <2>1, <2>2 DEF Generates
      <3>2. \A i \in Jobs, q \in Runs : Generates(i, q) => Generates(i, q)'
        BY <2>1, <2>2 DEF Generates
      <3>3. "lost" \notin mishaps' => "lost" \notin mishaps
        BY <2>1
      <3>. QED  BY <1>1, <1>2, <3>1, <3>2, <3>3 DEF Inv, Settler
    <2>6. ASSUME Calm'
          PROVE  Alone' /\ OpenIsRunning' /\ FailureIsKnown' /\ SuccessIsLatest'
      <3>1. Calm /\ \A i \in Jobs : job[i].pc # "free" => job[i].run # r
        BY <1>1, <2>1, <2>6 DEF Calm
      <3>2. Alone'
        BY <2>1, <2>2, <3>1 DEF Inv, Alone
      <3>3. \A i \in Jobs : i # j => (Open(i)' <=> Open(i))
        BY <2>2 DEF Open
      <3>4. \A i \in Jobs : Open(i) => i # j /\ job[i].run # r /\ job[i].run \in Runs
        BY <2>1, <3>1 DEF Open, OpenJob, Inv, TypeOK
      <3>5. OpenIsRunning'
        <4>1. row'[job'[j].run] = "running" /\ page'[job'[j].run] = "polling"
          BY <1>2, <2>1, <2>2, <2>3
        <4>2. ASSUME NEW i \in Jobs, i # j, Open(i)'
              PROVE  /\ row'[job'[i].run] = "running"
                     /\ page'[job'[i].run] \in {"idle", "polling"}
          <5>1. Open(i) /\ job'[i] = job[i]
            BY <2>2, <3>3, <4>2
          <5>2. row[job[i].run] = "running" /\ page[job[i].run] \in {"idle", "polling"}
            BY <3>1, <5>1 DEF Inv, OpenIsRunning
          <5>. QED  BY <1>2, <2>3, <3>4, <5>1, <5>2
        <4>. QED  BY <4>1, <4>2 DEF OpenIsRunning
      <3>6. FailureIsKnown'
        <4>. SUFFICES ASSUME NEW q \in Runs, failed'[q]
                      PROVE  /\ page'[q] # "shown"
                             /\ \/ row'[q] = "error"
                                \/ \E i \in Jobs : Open(i)' /\ job'[i].run = q
          BY DEF FailureIsKnown
        <4>1. q # r /\ failed[q]
          BY <1>3
        <4>2. /\ page[q] # "shown"
              /\ row[q] = "error" \/ \E i \in Jobs : Open(i) /\ job[i].run = q
          BY <3>1, <4>1 DEF Inv, FailureIsKnown
        <4>3. ASSUME NEW i \in Jobs, Open(i), job[i].run = q
              PROVE  Open(i)' /\ job'[i].run = q
          BY <2>2, <3>3, <3>4, <4>3
        <4>. QED  BY <1>2, <2>3, <4>1, <4>2, <4>3
      <3>7. SuccessIsLatest'
        <4>1. job'[j].pc # "ended"
          BY <2>1, <2>2
        <4>2. \A i \in Jobs : i # j /\ job[i].pc = "ended" =>
                  job[i].run # r /\ job[i].run \in Runs
          BY <3>1 DEF Inv, TypeOK
        <4>. QED  BY <1>3, <2>2, <3>1, <4>1, <4>2 DEF Inv, SuccessIsLatest
      <3>. QED  BY <3>2, <3>5, <3>6, <3>7
    <2>. QED  BY <2>4, <2>5, <2>6 DEF Inv
  <1>5. CASE Happened("lost") /\ page' = [page EXCEPT ![r] = "failed"] /\ UNCHANGED job
    <2>1. /\ "lost" \in mishaps' /\ ~Calm'
          /\ mishaps' \in SUBSET {"lost", "again", "overlap"}
      BY <1>5 DEF Happened, Calm, Inv, TypeOK
    <2>2. page' \in [Runs -> Views]
      BY <1>5 DEF Inv, TypeOK, Views
    <2>3. TypeOK' /\ EndKnown' /\ NoFile'
      BY <1>1, <1>2, <1>3, <1>5, <2>1, <2>2 DEF Inv, TypeOK, EndKnown, NoFile
    <2>4. Settler'
      BY <2>1 DEF Settler
    <2>. QED  BY <2>1, <2>3, <2>4 DEF Inv
  <1>. QED  BY <1>4, <1>5 DEF StartRun

LEMMA ProcessCrashInv ==
    ASSUME Inv, ProcessCrash PROVE Inv'
  <1>1. /\ mode' # "cloud" /\ job' = [j \in Jobs |-> IdleJob]
        /\ mishaps' = mishaps \cup {"lost"}
        /\ UNCHANGED <<mode, row, statusFile, page, failed, requests>>
    BY DEF ProcessCrash, Happened
  <1>2. job' \in [Jobs -> Job] /\ \A j \in Jobs : job'[j].pc = "free"
    BY <1>1, IdleJobType
  <1>. QED  BY <1>1, <1>2 DEF Inv, TypeOK, EndKnown, NoFile, Settler, Calm

\* The page of one run is told, shows, is left or comes back.
LEMMA PageInv ==
    ASSUME Inv, NEW r \in Runs, Poll(r) \/ ReadOutcome(r) \/ Leave(r) \/ Mount(r)
    PROVE  Inv'
  <1>1. PICK s \in Views :
          /\ page' = [page EXCEPT ![r] = s]
          /\ \/ Poll(r) /\ s = "ended"
             \/ /\ page[r] = "ended"
                /\ s = "assumed" \/ s = IF row[r] = "error" THEN "failed" ELSE "shown"
             \/ s \in {"idle", "polling"}
    BY DEF Poll, ReadOutcome, Leave, Mount, Views
  <1>2. UNCHANGED <<mode, row, statusFile, job, failed, requests, mishaps>>
    BY DEF Poll, ReadOutcome, Leave, Mount
  <1>3. /\ page' \in [Runs -> Views]
        /\ page'[r] = s /\ \A q \in Runs : q # r => page'[q] = page[q]
    BY <1>1 DEF Inv, TypeOK
  <1>4. TypeOK' /\ EndKnown' /\ NoFile' /\ Settler'
    BY <1>2, <1>3 DEF Inv, TypeOK, EndKnown, NoFile, Settler, Generates
  <1>5. ASSUME Calm'
        PROVE  Alone' /\ OpenIsRunning' /\ FailureIsKnown' /\ SuccessIsLatest'
    <2>1. Calm /\ Alone /\ OpenIsRunning /\ FailureIsKnown /\ SuccessIsLatest
      BY <1>2, <1>5 DEF Calm, Inv
    <2>2. \A i \in Jobs : (Open(i)' <=> Open(i)) /\ job'[i] = job[i]
      BY <1>2 DEF Open
    <2>3. Alone' /\ SuccessIsLatest'
      BY <1>2, <2>1 DEF Alone, SuccessIsLatest
    <2>4. Poll(r) => row[r] # "running"
      BY <2>1 DEF Poll, ProgressDone, RowDone, Calm, Inv, NoFile
    <2>5. s \notin {"idle", "polling"} =>
              \A i \in Jobs : Open(i) => job[i].run # r
      BY <1>1, <2>1, <2>4 DEF OpenIsRunning
    <2>6. OpenIsRunning'
      <3>. SUFFICES ASSUME NEW i \in Jobs, Open(i)
                    PROVE  /\ row[job[i].run] = "running"
                           /\ page'[job[i].run] \in {"idle", "polling"}
        BY <1>2, <2>2 DEF OpenIsRunning
      <3>1. job[i].run \in Runs
        BY DEF Open, OpenJob, Inv, TypeOK
      <3>. QED  BY <1>3, <2>1, <2>5, <3>1 DEF OpenIsRunning
    <2>7. FailureIsKnown'
      <3>. SUFFICES ASSUME NEW q \in Runs, failed[q]
                    PROVE  /\ page'[q] # "shown"
                           /\ \/ row[q] = "error"
                              \/ \E i \in Jobs : Open(i) /\ job[i].run = q
        BY <1>2, <2>2 DEF FailureIsKnown
      <3>1. /\ page[q] # "shown"
            /\ row[q] = "error" \/ \E i \in Jobs : Open(i) /\ job[i].run = q
        BY <2>1 DEF FailureIsKnown
      <3>2. q = r => s # "shown"
        BY <1>1, <2>5, <3>1
      <3>. QED  BY <1>3, <3>1, <3>2
    <2>. QED  BY <2>3, <2>6, <2>7
  <1>. QED  BY <1>4, <1>5 DEF Inv

-----------------------------------------------------------------------------
LEMMA InitInv == Init => Inv
  <1>. SUFFICES ASSUME Init PROVE Inv
    OBVIOUS
  <1>1. job \in [Jobs -> Job] /\ \A j \in Jobs : job[j].pc = "free"
    BY IdleJobType DEF Init
  <1>2. TypeOK
    BY <1>1, BoundsAssumption DEF Init, TypeOK, Views
  <1>3. EndKnown /\ NoFile /\ Settler
    BY <1>1 DEF Init, EndKnown, NoFile, Settler
  <1>4. Alone /\ OpenIsRunning /\ FailureIsKnown /\ SuccessIsLatest
    BY <1>1 DEF Init, Alone, OpenIsRunning, Open, OpenJob, FailureIsKnown, SuccessIsLatest
  <1>. QED  BY <1>2, <1>3, <1>4 DEF Inv

LEMMA NextInv == Inv /\ [Next]_vars => Inv'
  <1>. SUFFICES ASSUME Inv, [Next]_vars PROVE Inv'
    OBVIOUS
  <1>1. ASSUME NEW r \in Runs, NEW gate \in BOOLEAN, StartRun(r, gate) PROVE Inv'
    BY <1>1, StartRunInv
  <1>2. ASSUME NEW r \in Runs, StartMatch(r) PROVE Inv'
    BY <1>2, StartMatchInv
  <1>3. ASSUME NEW j \in Jobs, Worker(j) PROVE Inv'
    BY <1>3, WipeInv, StartInv, EndInv, IndexInv, FinishInv, CheckInv, ForceInv DEF Worker
  <1>4. ASSUME NEW j \in Jobs, WorkerCrash(j) PROVE Inv'
    BY <1>4, WorkerCrashInv
  <1>5. CASE ProcessCrash
    BY <1>5, ProcessCrashInv
  <1>6. ASSUME NEW r \in Runs, Poll(r) \/ ReadOutcome(r) \/ Leave(r) \/ Mount(r) PROVE Inv'
    BY <1>6, PageInv
  <1>7. CASE UNCHANGED vars
    BY <1>7 DEF vars, Inv, TypeOK, EndKnown, NoFile, Settler, Generates, Calm, Alone,
                OpenIsRunning, Open, FailureIsKnown, SuccessIsLatest
  <1>. QED  BY <1>1, <1>2, <1>3, <1>4, <1>5, <1>6, <1>7 DEF Next

-----------------------------------------------------------------------------
(* The theorems.                                                             *)

LEMMA Invariance == SafetySpec => []Inv
  BY InitInv, NextInv, PTL DEF SafetySpec

\* The variables have their types: the row of a run holds one of the statuses
\* the code writes, a job that is not over has a run.
THEOREM TypeCorrect == SafetySpec => []TypeOK
  <1>1. Inv => TypeOK
    BY DEF Inv
  <1>. QED  BY <1>1, Invariance, PTL

\* In the cloud the row of a run that no job is left of, none of them lost, does
\* not say "running": run_pipeline_endpoint settles it, whatever overlapped and
\* whichever write of the row failed.
THEOREM StatusIsTerminal == SafetySpec => []TerminalStatus
  <1>1. Inv => TerminalStatus
    BY DEF Inv, Settler, Generates, TerminalStatus, JobsOf
  <1>. QED  BY <1>1, Invariance, PTL

\* In the cloud, without overlaps, losses and redeliveries, a report page whose
\* getRun was answered does not show documents over a generation that failed.
THEOREM FailuresAreToldInCloud == SafetySpec => []FailureIsToldInCloud
  <1>1. Inv => FailureIsToldInCloud
    BY DEF Inv, Calm, FailureIsKnown, FailureIsToldInCloud
  <1>. QED  BY <1>1, Invariance, PTL

\* Only an answer to the poll ends the polling.
LEMMA OnlyPollTells ==
    ASSUME Inv, Next, NEW r \in Runs, ToldDone(r) PROVE Poll(r)
  <1>1. /\ page[r] = "polling" /\ page'[r] = "ended"
        /\ page \in [Runs -> Views]
    BY DEF ToldDone, Inv, TypeOK
  <1>2. ASSUME NEW q \in Runs, NEW gate \in BOOLEAN, StartRun(q, gate) PROVE FALSE
    BY <1>1, <1>2 DEF StartRun
  <1>3. ASSUME NEW q \in Runs, StartMatch(q) PROVE FALSE
    BY <1>1, <1>3 DEF StartMatch
  <1>4. ASSUME NEW j \in Jobs, Worker(j) \/ WorkerCrash(j) PROVE FALSE
    BY <1>1, <1>4 DEF Worker, WipeFolder, StartPipeline, EndStages, IndexRun,
                      FinishReporter, CheckRow, ForceError, WorkerCrash
  <1>5. CASE ProcessCrash
    BY <1>1, <1>5 DEF ProcessCrash
  <1>6. ASSUME NEW q \in Runs, Poll(q) PROVE Poll(r)
    BY <1>1, <1>6 DEF Poll
  <1>7. ASSUME NEW q \in Runs, ReadOutcome(q) \/ Leave(q) \/ Mount(q) PROVE FALSE
    BY <1>1, <1>7 DEF ReadOutcome, Leave, Mount
  <1>. QED  BY <1>2, <1>3, <1>4, <1>5, <1>6, <1>7 DEF Next

\* In the cloud, without overlaps, losses and redeliveries, a page is not told
\* "done" while the generation it asked for has yet to run: the reset of the row
\* in start_run is enough there.
THEOREM DoneIsFreshInCloud == SafetySpec => DoneIsNotStaleInCloud
  <1>. DEFINE Fresh ==
                 \A r \in Runs :
                     ToldDone(r) /\ mishaps = {} /\ mode = "cloud"
                         => \A j \in JobsOf(r) : ~Awaited(j)
  <1>1. Inv /\ [Next]_vars => [Fresh]_vars
    <2>. SUFFICES ASSUME Inv, Next, NEW r \in Runs, ToldDone(r), mishaps = {},
                         mode = "cloud", NEW j \in JobsOf(r), Awaited(j)
                  PROVE  FALSE
      OBVIOUS
    <2>1. Poll(r)
      BY OnlyPollTells
    <2>2. row[r] # "running"
      BY <2>1 DEF Poll, ProgressDone, RowDone, Inv, NoFile
    <2>3. j \in Jobs /\ Open(j) /\ job[j].run = r
      BY DEF JobsOf, Awaited, Open, OpenJob
    <2>. QED  BY <2>2, <2>3 DEF Inv, Calm, OpenIsRunning
  <1>2. DoneIsNotStaleInCloud <=> [][Fresh]_vars
    BY DEF DoneIsNotStaleInCloud
  <1>. HIDE DEF Fresh
  <1>. QED  BY <1>1, <1>2, Invariance, PTL DEF SafetySpec

=============================================================================
