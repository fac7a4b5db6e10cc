------------------------- MODULE TrackerMatchProofs -------------------------
(* What TLAPS proves about TrackerMatch, for every set of urls, stages and  *)
(* tasks and every value of the bounds.                                     *)
EXTENDS TrackerMatch, FiniteSetTheorems, TLAPS

-----------------------------------------------------------------------------
(* The upsert.                                                              *)

LEMMA MergeType ==
    ASSUME NEW old \in Row, NEW e \in Row
    PROVE  /\ Merge(old, e) \in Row
           /\ Merge(old, e).id = old.id
           /\ Merge(old, e).url = e.url
           /\ Merge(old, e).stage = old.stage
           /\ old.jd # "" => Merge(old, e).jd # ""
  BY DEF Merge, Row

LEMMA EntryType == ASSUME NEW u \in Urls PROVE TrackerEntry(u) \in Row
  BY StagesAssumption DEF TrackerEntry, Row, RunKeys, Matches, JdTexts

LEMMA CapturedType ==
    ASSUME NEW u \in Urls
    PROVE  [TrackerEntry(u) EXCEPT !.run = "capture", !.jd = "page"] \in Row
  BY StagesAssumption DEF TrackerEntry, Row, RunKeys, Matches, JdTexts

\* An upsert leaves a well-formed table; an entry that was there stays, with
\* its id and its stage, and its job description is not blanked.
LEMMA UpsertEffect ==
    ASSUME TypeOK, NEW e \in Row, UpsertTracker(e)
    PROVE  /\ rows' \in [Urls -> Row \cup {NoRow}]
           /\ nextId' \in Nat
           /\ \A u \in Urls : rows[u] # NoRow =>
                /\ rows'[u] # NoRow
                /\ rows'[u].stage = rows[u].stage
                /\ rows[u].jd # "" => rows'[u].jd # ""
  <1>0. /\ rows \in [Urls -> Row \cup {NoRow}]
        /\ nextId \in Nat
        /\ e.url \in Urls
    BY DEF TypeOK, Row
  <1>1. CASE rows[e.url] = NoRow
    <2>. DEFINE new == [e EXCEPT !.id = nextId]
    <2>1. new \in Row
      BY <1>0 DEF Row
    <2>2. rows' = [rows EXCEPT ![e.url] = new] /\ nextId' = nextId + 1
      BY <1>1 DEF UpsertTracker
    <2>. HIDE DEF new
    <2>3. rows' \in [Urls -> Row \cup {NoRow}] /\ nextId' \in Nat
      BY <1>0, <2>1, <2>2
    <2>4. ASSUME NEW u \in Urls, rows[u] # NoRow  PROVE rows'[u] = rows[u]
      BY <1>0, <1>1, <2>2, <2>4
    <2>. QED  BY <2>3, <2>4
  <1>2. CASE rows[e.url] # NoRow
    <2>. DEFINE new == Merge(rows[e.url], e)
    <2>1. rows[e.url] \in Row
      BY <1>0, <1>2
    <2>2. rows' = [rows EXCEPT ![e.url] = new] /\ nextId' = nextId
      BY <1>2 DEF UpsertTracker
    <2>3. /\ new \in Row
          /\ new.stage = rows[e.url].stage
          /\ rows[e.url].jd # "" => new.jd # ""
      BY <2>1, MergeType
    <2>. HIDE DEF new
    <2>4. rows' \in [Urls -> Row \cup {NoRow}] /\ nextId' \in Nat
      BY <1>0, <2>2, <2>3
    <2>5. ASSUME NEW u \in Urls, rows[u] # NoRow
          PROVE  /\ rows'[u] # NoRow
                 /\ rows'[u].stage = rows[u].stage
                 /\ rows[u].jd # "" => rows'[u].jd # ""
      <3>1. CASE u = e.url
        BY <1>0, <2>2, <2>3, <3>1, NoRowAssumption
      <3>2. CASE u # e.url
        BY <1>0, <2>2, <2>5, <3>2
      <3>. QED  BY <3>1, <3>2
    <2>. QED  BY <2>4, <2>5
  <1>. QED  BY <1>1, <1>2

-----------------------------------------------------------------------------
(* The task queue.                                                          *)

LEMMA IdleTaskType == IdleTask \in Task
  BY DEF IdleTask, Task, Steps

LEMMA SubmitType ==
    ASSUME TypeOK, NEW i \in Nat, SubmitTrackerMatch(i)
    PROVE  task' \in [Tasks -> Task] /\ mishaps' \in SUBSET {"lost", "overlap", "unindexed"}
  <1>1. CASE Lost /\ UNCHANGED task
    BY <1>1 DEF Lost, TypeOK
  <1>2. ASSUME NEW t \in Tasks,
               task' = [task EXCEPT ![t] = [IdleTask EXCEPT !.pc = "queued", !.id = i]],
               UNCHANGED mishaps
        PROVE  task' \in [Tasks -> Task] /\ mishaps' \in SUBSET {"lost", "overlap", "unindexed"}
    <2>1. [IdleTask EXCEPT !.pc = "queued", !.id = i] \in Task
      BY DEF IdleTask, Task, Steps
    <2>. QED  BY <1>2, <2>1 DEF TypeOK
  <1>. QED  BY <1>1, <1>2 DEF SubmitTrackerMatch

LEMMA RedeliverType ==
    ASSUME TypeOK, NEW t \in Tasks, Redeliver(t)
    PROVE  task' \in [Tasks -> Task]
  <1>1. task[t].id \in Nat /\ task[t].tries + 1 \in Nat
    BY DEF TypeOK, Task
  <1>2. ASSUME NEW i \in Nat, NEW n \in Nat
        PROVE  [IdleTask EXCEPT !.pc = "queued", !.id = i, !.tries = n] \in Task
    BY DEF IdleTask, Task, Steps
  <1>3. [IdleTask EXCEPT !.pc = "queued", !.id = task[t].id, !.tries = task[t].tries + 1]
            \in Task
    BY <1>1, <1>2
  <1>. QED  BY <1>3 DEF Redeliver, TypeOK

LEMMA FinishType ==
    ASSUME TypeOK, NEW t \in Tasks, Finish(t)
    PROVE  task' \in [Tasks -> Task] /\ mishaps' \in SUBSET {"lost", "overlap", "unindexed"}
  <1>1. CASE task' = [task EXCEPT ![t] = IdleTask]
    BY <1>1, IdleTaskType DEF Finish, TypeOK
  <1>2. CASE Redeliver(t)
    BY <1>2, RedeliverType DEF Finish, TypeOK
  <1>. QED  BY <1>1, <1>2 DEF Finish

LEMMA MatchType ==
    ASSUME NEW e \in Row
    PROVE  /\ Scored(e) \in Row
           /\ Failed(e) \in Row
           /\ RunId(e) \in RunKeys
           /\ e.url \in Urls /\ e.run \in RunKeys \cup {""}
  BY DEF Scored, Failed, RunId, Row, RunKeys, Matches, JdTexts

-----------------------------------------------------------------------------
(* Requests keep the type invariant.                                        *)

LEMMA RequestType ==
    ASSUME TypeOK, Request PROVE requests' \in 0 .. MaxRequests
  BY BoundsAssumption DEF Request, TypeOK

LEMMA IdType ==
    ASSUME TypeOK, NEW u \in Urls PROVE IdAfterUpsert(u) \in Nat
  BY DEF TypeOK, IdAfterUpsert, Row

LEMMA AddTrackedType ==
    ASSUME TypeOK, NEW u \in Urls, AddTracked(u) PROVE TypeOK'
  <1>1. rows' \in [Urls -> Row \cup {NoRow}] /\ nextId' \in Nat
    BY EntryType, UpsertEffect DEF AddTracked
  <1>2. task' \in [Tasks -> Task] /\ mishaps' \in SUBSET {"lost", "overlap", "unindexed"}
    BY IdType, SubmitType DEF AddTracked
  <1>. QED  BY <1>1, <1>2, RequestType DEF AddTracked, TypeOK

LEMMA AddWithoutMatchType ==
    ASSUME TypeOK, NEW u \in Urls, AddWithoutMatch(u) PROVE TypeOK'
  <1>1. rows' \in [Urls -> Row \cup {NoRow}] /\ nextId' \in Nat
    BY EntryType, UpsertEffect DEF AddWithoutMatch
  <1>. QED  BY <1>1, RequestType DEF AddWithoutMatch, TypeOK

LEMMA StoreType ==
    ASSUME TypeOK, NEW u \in Urls, NEW r \in RunKeys, NEW A \in SUBSET Artifacts
    PROVE  /\ [store EXCEPT ![u][r] = A] \in [Urls -> [RunKeys -> SUBSET Artifacts]]
           /\ store[u][r] \in SUBSET Artifacts
  BY DEF TypeOK

LEMMA CaptureTrackedType ==
    ASSUME TypeOK, NEW u \in Urls, CaptureTracked(u) PROVE TypeOK'
  <1>1. rows' \in [Urls -> Row \cup {NoRow}] /\ nextId' \in Nat
    BY CapturedType, UpsertEffect DEF CaptureTracked
  <1>2. task' \in [Tasks -> Task] /\ mishaps' \in SUBSET {"lost", "overlap", "unindexed"}
    BY IdType, SubmitType DEF CaptureTracked
  <1>3. store' \in [Urls -> [RunKeys -> SUBSET Artifacts]]
    BY DEF CaptureTracked, TypeOK, RunKeys, Artifacts
  <1>. QED  BY <1>1, <1>2, <1>3, RequestType DEF CaptureTracked, TypeOK

LEMMA SetStageType ==
    ASSUME TypeOK, NEW u \in Urls, NEW s \in Stages, SetStage(u, s) PROVE TypeOK'
  <1>1. rows[u] \in Row
    BY DEF TypeOK, SetStage
  <1>2. [rows[u] EXCEPT !.stage = s] \in Row
    BY <1>1 DEF Row
  <1>3. rows' = [rows EXCEPT ![u] = [rows[u] EXCEPT !.stage = s]]
    BY DEF SetStage
  <1>4. rows' \in [Urls -> Row \cup {NoRow}]
    BY <1>2, <1>3 DEF TypeOK
  <1>. QED  BY <1>4, RequestType DEF SetStage, TypeOK

LEMMA RematchReadType ==
    ASSUME TypeOK, NEW u \in Urls, RematchRead(u) PROVE TypeOK'
  <1>1. rows[u] \in Row
    BY DEF TypeOK, RematchRead
  <1>2. clearing' \in Row
    BY <1>1 DEF RematchRead, Row, Matches
  <1>. QED  BY <1>2, RequestType DEF RematchRead, TypeOK

LEMMA RematchWriteType ==
    ASSUME TypeOK, RematchWrite PROVE TypeOK'
  <1>1. clearing \in Row /\ clearing.id \in Nat
    BY DEF RematchWrite, TypeOK, Row
  <1>2. rows' \in [Urls -> Row \cup {NoRow}] /\ nextId' \in Nat
    BY <1>1, UpsertEffect DEF RematchWrite
  <1>3. task' \in [Tasks -> Task] /\ mishaps' \in SUBSET {"lost", "overlap", "unindexed"}
    BY <1>1, SubmitType DEF RematchWrite, TypeOK
  <1>. QED  BY <1>2, <1>3 DEF RematchWrite, TypeOK

LEMMA RemoveRunType ==
    ASSUME TypeOK, NEW u \in Urls, RemoveRun(u) PROVE TypeOK'
  <1>1. rows[u] \in Row /\ rows[u].id \in Nat /\ rows[u].run \in RunKeys \cup {""}
    BY DEF TypeOK, RemoveRun, Row
  <1>2. removal' \in [id: Nat, url: Urls]
    BY <1>1 DEF RemoveRun
  <1>3. /\ store' \in [Urls -> [RunKeys -> SUBSET Artifacts]]
        /\ runs' \in [Urls -> SUBSET RunKeys]
    <2>1. CASE rows[u].run = ""
      BY <2>1 DEF RemoveRun, TypeOK
    <2>2. CASE rows[u].run # ""
      <3>1. rows[u].run \in RunKeys
        BY <1>1, <2>2
      <3>2. store' = [store EXCEPT ![u][rows[u].run] = {}]
        BY <2>2 DEF RemoveRun
      <3>3. runs' = [runs EXCEPT ![u] = runs[u] \ {rows[u].run}]
        BY <2>2 DEF RemoveRun
      <3>. QED  BY <3>1, <3>2, <3>3, StoreType DEF TypeOK
    <2>. QED  BY <2>1, <2>2
  <1>. QED  BY <1>2, <1>3, RequestType DEF RemoveRun, TypeOK

LEMMA RemoveTrackerType ==
    ASSUME TypeOK, RemoveTracker PROVE TypeOK'
  BY DEF RemoveTracker, TypeOK

-----------------------------------------------------------------------------
(* So do the worker's steps and the crashes.                                *)

LEMMA ReadEntryType ==
    ASSUME TypeOK, NEW t \in Tasks, ReadEntry(t) PROVE TypeOK'
  <1>1. CASE \E u \in Urls :
            /\ HasId(u, task[t].id)
            /\ task' = [task EXCEPT ![t].pc = "read", ![t].entry = rows[u],
                    ![t].shot = /\ rows[u].run # ""
                                /\ "screenshot" \in store[u][rows[u].run]]
            /\ IF \E x \in Tasks : Running(x) /\ task[x].entry.url = u
               THEN mishaps' = mishaps \cup {"overlap"}
               ELSE UNCHANGED mishaps
    <2>1. PICK u \in Urls :
            /\ HasId(u, task[t].id)
            /\ task' = [task EXCEPT ![t].pc = "read", ![t].entry = rows[u],
                    ![t].shot = /\ rows[u].run # ""
                                /\ "screenshot" \in store[u][rows[u].run]]
            /\ mishaps' \in {mishaps, mishaps \cup {"overlap"}}
      BY <1>1
    <2>2. task[t] \in Task /\ rows[u] \in Row
      BY <2>1 DEF TypeOK, HasId
    <2>3. ASSUME NEW e \in Row, NEW b \in BOOLEAN
          PROVE  [task[t] EXCEPT !.pc = "read", !.entry = e, !.shot = b] \in Task
      BY <2>2 DEF Task, Steps
    <2>4. ASSUME NEW b \in BOOLEAN,
                 task' = [task EXCEPT ![t].pc = "read", ![t].entry = rows[u], ![t].shot = b]
          PROVE  task' \in [Tasks -> Task]
      <3>1. task' = [task EXCEPT ![t] =
                        [task[t] EXCEPT !.pc = "read", !.entry = rows[u], !.shot = b]]
        BY <2>4, <2>2 DEF TypeOK
      <3>. QED  BY <2>2, <2>3, <3>1 DEF TypeOK
    <2>. DEFINE shot == rows[u].run # "" /\ "screenshot" \in store[u][rows[u].run]
    <2>5. shot \in BOOLEAN
      OBVIOUS
    <2>6. task' \in [Tasks -> Task]
      BY <2>1, <2>4, <2>5
    <2>. QED  BY <2>1, <2>6 DEF ReadEntry, TypeOK
  <1>2. CASE Finish(t)
    BY <1>2, FinishType DEF ReadEntry, TypeOK
  <1>. QED  BY <1>1, <1>2 DEF ReadEntry

LEMMA WipeRunType ==
    ASSUME TypeOK, NEW t \in Tasks, task[t].entry \in Row, WipeRun(t) PROVE TypeOK'
  <1>. DEFINE e == task[t].entry
  <1>1. e \in Row
    OBVIOUS
  <1>2. e.url \in Urls /\ e.run \in RunKeys \cup {""}
    BY <1>1, MatchType
  <1>3. task' \in [Tasks -> Task]
    BY ZenonT(30) DEF WipeRun, TypeOK, Task, Steps
  <1>4. store' \in [Urls -> [RunKeys -> SUBSET Artifacts]]
    BY <1>2, StoreType DEF WipeRun, TypeOK
  <1>. QED  BY <1>3, <1>4 DEF WipeRun, TypeOK

LEMMA MatchSucceedsType ==
    ASSUME TypeOK, NEW t \in Tasks, task[t].entry \in Row, MatchSucceeds(t) PROVE TypeOK'
  <1>. DEFINE e == task[t].entry
             done == Scored(e)
  <1>1. e \in Row /\ task[t] \in Task
    BY DEF TypeOK
  <1>2. e.url \in Urls /\ RunId(e) \in RunKeys /\ done \in Row
    BY <1>1, MatchType
  <1>3. task' = [task EXCEPT ![t] = [task[t] EXCEPT !.pc = "matched", !.entry = done]]
    BY <1>1 DEF MatchSucceeds, TypeOK
  <1>. HIDE DEF done, e
  <1>4. [task[t] EXCEPT !.pc = "matched", !.entry = done] \in Task
    BY <1>1, <1>2 DEF Task, Steps
  <1>5. task' \in [Tasks -> Task]
    BY <1>3, <1>4 DEF TypeOK
  <1>6. IndexRun(e.url, RunId(e))
    BY DEF MatchSucceeds, e
  <1>7. runs' \in [Urls -> SUBSET RunKeys] /\ mishaps' \in SUBSET {"lost", "overlap", "unindexed"}
    <2>1. mishaps' \in {mishaps, mishaps \cup {"unindexed"}}
      BY <1>6 DEF IndexRun
    <2>2. runs' \in {runs, [runs EXCEPT ![e.url] = runs[e.url] \cup {RunId(e)}]}
      BY <1>6 DEF IndexRun
    <2>3. runs' \in [Urls -> SUBSET RunKeys]
      BY <1>2, <2>2 DEF TypeOK
    <2>. QED  BY <2>1, <2>3 DEF TypeOK
  <1>8. store' \in [Urls -> [RunKeys -> SUBSET Artifacts]]
    <2>1. CASE mode = "local"
      <3>1. store' = [store EXCEPT ![e.url][RunId(e)] = store[e.url][RunId(e)] \cup {"report"}]
        BY <2>1 DEF MatchSucceeds, e
      <3>2. store[e.url][RunId(e)] \cup {"report"} \in SUBSET Artifacts
        BY <1>2, StoreType DEF Artifacts
      <3>. QED  BY <1>2, <3>1, <3>2, StoreType
    <2>2. CASE mode # "local"
      BY <2>2 DEF MatchSucceeds, TypeOK
    <2>. QED  BY <2>1, <2>2
  <1>. QED  BY <1>5, <1>7, <1>8 DEF MatchSucceeds, TypeOK

LEMMA MatchFailsType ==
    ASSUME TypeOK, NEW t \in Tasks, task[t].entry \in Row, MatchFails(t) PROVE TypeOK'
  <1>. DEFINE done == Failed(task[t].entry)
  <1>1. task[t] \in Task /\ done \in Row
    BY MatchType DEF TypeOK
  <1>2. task' = [task EXCEPT ![t] = [task[t] EXCEPT !.pc = "matched", !.entry = done]]
    BY <1>1 DEF MatchFails, TypeOK
  <1>. HIDE DEF done
  <1>3. [task[t] EXCEPT !.pc = "matched", !.entry = done] \in Task
    BY <1>1 DEF Task, Steps
  <1>. QED  BY <1>2, <1>3, ZenonT(30) DEF MatchFails, TypeOK

LEMMA PublishType ==
    ASSUME TypeOK, NEW t \in Tasks, task[t].entry \in Row, Publish(t) PROVE TypeOK'
  <1>. DEFINE e == task[t].entry
             up == Uploads(task[t])
  <1>1. e.url \in Urls /\ e.run \in RunKeys \cup {""}
    BY MatchType
  <1>2. up \in SUBSET Artifacts
    BY DEF Uploads, Artifacts
  <1>3. task' \in [Tasks -> Task]
    BY ZenonT(30) DEF Publish, TypeOK, Task, Steps
  <1>4. mishaps' \in SUBSET {"lost", "overlap", "unindexed"}
    BY DEF Publish, Lost, TypeOK
  <1>5. store' \in {store, [store EXCEPT ![e.url][e.run] = store[e.url][e.run] \cup up]}
        /\ (e.run = "" => store' = store)
    BY DEF Publish
  <1>. HIDE DEF e, up
  <1>6. store' \in [Urls -> [RunKeys -> SUBSET Artifacts]]
    <2>1. CASE e.run = ""
      BY <1>5, <2>1 DEF TypeOK
    <2>2. CASE e.run # ""
      <3>0. e.run \in RunKeys
        BY <1>1, <2>2
      <3>1. store[e.url][e.run] \cup up \in SUBSET Artifacts
        BY <1>1, <1>2, <3>0, StoreType
      <3>2. [store EXCEPT ![e.url][e.run] = store[e.url][e.run] \cup up]
                \in [Urls -> [RunKeys -> SUBSET Artifacts]]
        BY <1>1, <3>0, <3>1, StoreType
      <3>. QED  BY <1>5, <3>2 DEF TypeOK
    <2>. QED  BY <2>1, <2>2
  <1>. QED  BY <1>3, <1>4, <1>6 DEF Publish, TypeOK

LEMMA WriteBackType ==
    ASSUME TypeOK, NEW t \in Tasks, task[t].entry \in Row, WriteBack(t) PROVE TypeOK'
  <1>1. rows' \in [Urls -> Row \cup {NoRow}] /\ nextId' \in Nat
    BY UpsertEffect DEF WriteBack
  <1>2. task' \in [Tasks -> Task] /\ mishaps' \in SUBSET {"lost", "overlap", "unindexed"}
    BY FinishType DEF WriteBack
  <1>. QED  BY <1>1, <1>2 DEF WriteBack, TypeOK

LEMMA WorkerCrashType ==
    ASSUME TypeOK, NEW t \in Tasks, WorkerCrash(t) PROVE TypeOK'
  <1>1. task' \in [Tasks -> Task]
    BY RedeliverType, IdleTaskType DEF WorkerCrash, TypeOK
  <1>. QED  BY <1>1 DEF WorkerCrash, Lost, TypeOK

LEMMA ApiRestartType ==
    ASSUME TypeOK, ApiRestart PROVE TypeOK'
  <1>1. task' \in [Tasks -> Task]
    BY IdleTaskType DEF ApiRestart, TypeOK
  <1>. QED  BY <1>1 DEF ApiRestart, Lost, TypeOK

-----------------------------------------------------------------------------
(* A running match holds the entry it has read: a step leaves a task alone, *)
(* starts it over, or gives it an entry.                                    *)

SettlesTask(t) ==
    \/ task'[t] = task[t]
    \/ task'[t].pc \in {"free", "queued"}
    \/ task'[t].entry \in Row

LEMMA IdleSettles ==
    ASSUME TypeOK, NEW t \in Tasks, NEW v, v.pc \in {"free", "queued"},
           task' = [task EXCEPT ![t] = v]
    PROVE  \A x \in Tasks : SettlesTask(x)
  BY DEF SettlesTask, TypeOK

LEMMA SubmitSettles ==
    ASSUME TypeOK, NEW i, SubmitTrackerMatch(i)
    PROVE  \A x \in Tasks : SettlesTask(x)
  <1>1. CASE UNCHANGED task
    BY <1>1 DEF SettlesTask
  <1>. DEFINE v == [IdleTask EXCEPT !.pc = "queued", !.id = i]
  <1>2. v.pc = "queued"
    BY DEF IdleTask
  <1>3. ASSUME NEW t \in Tasks, task' = [task EXCEPT ![t] = v]
        PROVE  \A x \in Tasks : SettlesTask(x)
    <2>. HIDE DEF v
    <2>. QED  BY <1>2, <1>3 DEF SettlesTask, TypeOK
  <1>. QED  BY <1>1, <1>3 DEF SubmitTrackerMatch

LEMMA FinishSettles ==
    ASSUME TypeOK, NEW t \in Tasks,
           task' = [task EXCEPT ![t] = IdleTask] \/ Redeliver(t)
    PROVE  \A x \in Tasks : SettlesTask(x)
  <1>. DEFINE v == [IdleTask EXCEPT !.pc = "queued", !.id = task[t].id,
                                    !.tries = task[t].tries + 1]
  <1>1. IdleTask.pc = "free" /\ v.pc = "queued"
    BY DEF IdleTask
  <1>2. task' = [task EXCEPT ![t] = IdleTask] \/ task' = [task EXCEPT ![t] = v]
    BY DEF Redeliver
  <1>. HIDE DEF v
  <1>. QED  BY <1>1, <1>2, IdleSettles

LEMMA HolderSettles ==
    ASSUME TypeOK, NEW t \in Tasks,
           task'[t].entry \in Row,
           \A x \in Tasks \ {t} : task'[x] = task[x]
    PROVE  \A x \in Tasks : SettlesTask(x)
  BY DEF SettlesTask

LEMMA WorkerSettles ==
    ASSUME TypeInv, NEW t \in Tasks, Worker(t)
    PROVE  \A x \in Tasks : SettlesTask(x)
  <1>0. TypeOK /\ task[t] \in Task /\ (Running(t) => task[t].entry \in Row)
    BY DEF TypeInv, TypeOK
  <1>1. CASE ReadEntry(t)
    <2>1. CASE Finish(t)
      BY <1>0, <2>1, FinishSettles DEF Finish
    <2>2. ASSUME NEW u \in Urls, NEW b, HasId(u, task[t].id),
                 task' = [task EXCEPT ![t].pc = "read", ![t].entry = rows[u], ![t].shot = b]
          PROVE  \A x \in Tasks : SettlesTask(x)
      <3>1. rows[u] \in Row
        BY <1>0, <2>2 DEF TypeOK, HasId
      <3>2. task'[t].entry = rows[u] /\ \A x \in Tasks \ {t} : task'[x] = task[x]
        BY <1>0, <2>2 DEF TypeOK, Task
      <3>. QED  BY <1>0, <3>1, <3>2, HolderSettles
    <2>. QED  BY <1>1, <2>1, <2>2 DEF ReadEntry
  <1>2. CASE WipeRun(t)
    BY <1>0, <1>2, HolderSettles DEF WipeRun, Running, TypeOK, Task
  <1>3. CASE MatchSucceeds(t)
    <2>1. Scored(task[t].entry) \in Row
      BY <1>0, <1>3, MatchType DEF MatchSucceeds, Running
    <2>. QED  BY <1>0, <1>3, <2>1, HolderSettles DEF MatchSucceeds, TypeOK, Task
  <1>4. CASE MatchFails(t)
    <2>1. Failed(task[t].entry) \in Row
      BY <1>0, <1>4, MatchType DEF MatchFails, Running
    <2>. QED  BY <1>0, <1>4, <2>1, HolderSettles DEF MatchFails, TypeOK, Task
  <1>5. CASE Publish(t)
    BY <1>0, <1>5, HolderSettles DEF Publish, Running, TypeOK, Task
  <1>6. CASE WriteBack(t)
    BY <1>0, <1>6, FinishSettles DEF WriteBack, Finish
  <1>. QED  BY <1>1, <1>2, <1>3, <1>4, <1>5, <1>6 DEF Worker

LEMMA NextSettles ==
    ASSUME TypeInv, [Next]_vars
    PROVE  \A x \in Tasks : SettlesTask(x)
  <1>0. TypeOK
    BY DEF TypeInv
  <1>1. CASE UNCHANGED task
    BY <1>1 DEF SettlesTask
  <1>2. ASSUME NEW u \in Urls, AddTracked(u) \/ CaptureTracked(u)
        PROVE  \A x \in Tasks : SettlesTask(x)
    BY <1>0, <1>2, SubmitSettles DEF AddTracked, CaptureTracked
  <1>3. CASE RematchWrite
    BY <1>0, <1>1, <1>3, SubmitSettles DEF RematchWrite
  <1>4. ASSUME NEW t \in Tasks, Worker(t)  PROVE \A x \in Tasks : SettlesTask(x)
    BY <1>4, WorkerSettles
  <1>5. ASSUME NEW t \in Tasks, WorkerCrash(t)  PROVE \A x \in Tasks : SettlesTask(x)
    BY <1>0, <1>5, FinishSettles DEF WorkerCrash
  <1>6. CASE ApiRestart
    <2>1. \A x \in Tasks : task'[x] = task[x] \/ task'[x] = IdleTask
      BY <1>6 DEF ApiRestart
    <2>. QED  BY <2>1 DEF SettlesTask, IdleTask
  <1>7. CASE \E u \in Urls, s \in Stages :
            AddWithoutMatch(u) \/ SetStage(u, s) \/ RematchRead(u) \/ RemoveRun(u)
    BY <1>1, <1>7 DEF AddWithoutMatch, SetStage, RematchRead, RemoveRun
  <1>8. CASE RemoveTracker \/ UNCHANGED vars
    BY <1>1, <1>8 DEF RemoveTracker, vars
  <1>. QED
    BY <1>2, <1>3, <1>4, <1>5, <1>6, <1>7, <1>8, StagesAssumption
    DEF Next, Owner, Handler

-----------------------------------------------------------------------------
(* The theorems.                                                            *)

LEMMA InitType == Init => TypeInv
  <1>. SUFFICES ASSUME Init PROVE TypeInv
    OBVIOUS
  <1>1. \A t \in Tasks : task[t] = IdleTask
    BY DEF Init
  <1>2. TypeOK
    BY <1>1, IdleTaskType, BoundsAssumption DEF Init, TypeOK, RunKeys, Artifacts
  <1>. QED  BY <1>1, <1>2 DEF TypeInv, Running, IdleTask

LEMMA WorkerType ==
    ASSUME TypeInv, NEW t \in Tasks, Worker(t) PROVE TypeOK'
  <1>1. TypeOK /\ (Running(t) => task[t].entry \in Row)
    BY DEF TypeInv
  <1>2. CASE ReadEntry(t)
    BY <1>1, <1>2, ReadEntryType
  <1>3. CASE WipeRun(t)
    BY <1>1, <1>3, WipeRunType DEF WipeRun, Running
  <1>4. CASE MatchSucceeds(t)
    BY <1>1, <1>4, MatchSucceedsType DEF MatchSucceeds, Running
  <1>5. CASE MatchFails(t)
    BY <1>1, <1>5, MatchFailsType DEF MatchFails, Running
  <1>6. CASE Publish(t)
    BY <1>1, <1>6, PublishType DEF Publish, Running
  <1>7. CASE WriteBack(t)
    BY <1>1, <1>7, WriteBackType DEF WriteBack, Running
  <1>. QED  BY <1>2, <1>3, <1>4, <1>5, <1>6, <1>7 DEF Worker

LEMMA NextType ==
    ASSUME TypeInv, [Next]_vars PROVE TypeOK'
  <1>0. TypeOK
    BY DEF TypeInv
  <1>1. ASSUME NEW u \in Urls, AddTracked(u) \/ AddWithoutMatch(u) \/ CaptureTracked(u)
        PROVE  TypeOK'
    BY <1>0, <1>1, AddTrackedType, AddWithoutMatchType, CaptureTrackedType
  <1>2. ASSUME NEW u \in Urls, NEW s \in Stages, SetStage(u, s) PROVE TypeOK'
    BY <1>0, <1>2, SetStageType
  <1>3. ASSUME NEW u \in Urls, RematchRead(u) \/ RemoveRun(u) PROVE TypeOK'
    BY <1>0, <1>3, RematchReadType, RemoveRunType
  <1>4. CASE RematchWrite \/ RemoveTracker
    BY <1>0, <1>4, RematchWriteType, RemoveTrackerType
  <1>5. ASSUME NEW t \in Tasks, Worker(t) PROVE TypeOK'
    BY <1>5, WorkerType
  <1>6. ASSUME NEW t \in Tasks, WorkerCrash(t) PROVE TypeOK'
    BY <1>0, <1>6, WorkerCrashType
  <1>7. CASE ApiRestart
    BY <1>0, <1>7, ApiRestartType
  <1>8. CASE UNCHANGED vars
    BY <1>0, <1>8 DEF vars, TypeOK
  <1>. QED
    BY <1>1, <1>2, <1>3, <1>4, <1>5, <1>6, <1>7, <1>8 DEF Next, Owner, Handler

LEMMA InductiveType == TypeInv /\ [Next]_vars => TypeInv'
  <1>. SUFFICES ASSUME TypeInv, [Next]_vars PROVE TypeInv'
    OBVIOUS
  <1>1. TypeOK'
    BY NextType
  <1>2. \A x \in Tasks : SettlesTask(x)
    BY NextSettles
  <1>. QED  BY <1>1, <1>2 DEF SettlesTask, TypeInv, Running

\* Whatever the sets of urls, stages and tasks and the bounds: every table,
\* folder, snapshot and task keeps its type, and a running match holds an
\* entry (tracker.py, run_match_for and its callers).
THEOREM TypeCorrect == SafetySpec => []TypeInv
  <1>. QED  BY InitType, InductiveType, PTL DEF SafetySpec

-----------------------------------------------------------------------------
\* What one step may do to the entry of a url: nothing but the owner's edit
\* moves its stage, and its job description is never blanked.
KeepsEntry(u) ==
    SameEntry(u) =>
        /\ (\E s \in Stages : SetStage(u, s)) \/ rows'[u].stage = rows[u].stage
        /\ rows[u].jd # "" => rows'[u].jd # ""

LEMMA UpsertKeeps ==
    ASSUME TypeOK, NEW e \in Row, UpsertTracker(e) PROVE \A u \in Urls : KeepsEntry(u)
  BY UpsertEffect DEF KeepsEntry, SameEntry

LEMMA UnchangedKeeps ==
    ASSUME UNCHANGED rows PROVE \A u \in Urls : KeepsEntry(u)
  BY DEF KeepsEntry, SameEntry

LEMMA WorkerKeeps ==
    ASSUME TypeInv, NEW t \in Tasks, Worker(t) PROVE \A u \in Urls : KeepsEntry(u)
  <1>1. CASE WriteBack(t)
    <2>1. TypeOK /\ task[t].entry \in Row
      BY <1>1 DEF WriteBack, TypeInv, Running
    <2>. QED  BY <1>1, <2>1, UpsertKeeps DEF WriteBack
  <1>2. CASE ~WriteBack(t)
    BY <1>2, UnchangedKeeps
    DEF Worker, ReadEntry, WipeRun, MatchSucceeds, MatchFails, Publish
  <1>. QED  BY <1>1, <1>2

LEMMA SetStageKeeps ==
    ASSUME TypeOK, NEW v \in Urls, NEW s \in Stages, SetStage(v, s)
    PROVE  \A u \in Urls : KeepsEntry(u)
  <1>. SUFFICES ASSUME NEW u \in Urls, SameEntry(u) PROVE KeepsEntry(u)
    BY DEF KeepsEntry
  <1>1. rows[v] \in Row /\ rows' = [rows EXCEPT ![v] = [rows[v] EXCEPT !.stage = s]]
    BY DEF SetStage, TypeOK
  <1>2. CASE u = v
    <2>1. rows'[u].jd = rows[u].jd
      BY <1>1, <1>2 DEF TypeOK, Row
    <2>. QED  BY <1>2, <2>1 DEF KeepsEntry
  <1>3. CASE u # v
    <2>1. rows'[u] = rows[u]
      BY <1>1, <1>3 DEF TypeOK
    <2>. QED  BY <2>1 DEF KeepsEntry
  <1>. QED  BY <1>2, <1>3

LEMMA NextKeeps ==
    ASSUME TypeInv, [Next]_vars PROVE \A u \in Urls : KeepsEntry(u)
  <1>0. TypeOK
    BY DEF TypeInv
  <1>1. ASSUME NEW u \in Urls, AddTracked(u) \/ AddWithoutMatch(u)
        PROVE  \A v \in Urls : KeepsEntry(v)
    BY <1>0, <1>1, EntryType, UpsertKeeps DEF AddTracked, AddWithoutMatch
  <1>2. ASSUME NEW u \in Urls, CaptureTracked(u) PROVE \A v \in Urls : KeepsEntry(v)
    BY <1>0, <1>2, CapturedType, UpsertKeeps DEF CaptureTracked
  <1>3. ASSUME NEW u \in Urls, NEW s \in Stages, SetStage(u, s)
        PROVE  \A v \in Urls : KeepsEntry(v)
    BY <1>0, <1>3, SetStageKeeps
  <1>4. ASSUME NEW u \in Urls, RematchRead(u) \/ RemoveRun(u)
        PROVE  \A v \in Urls : KeepsEntry(v)
    BY <1>4, UnchangedKeeps DEF RematchRead, RemoveRun
  <1>5. CASE RematchWrite
    BY <1>0, <1>5, UpsertKeeps DEF RematchWrite, TypeOK
  <1>6. CASE RemoveTracker
    BY <1>0, <1>6 DEF RemoveTracker, TypeOK, KeepsEntry, SameEntry
  <1>7. ASSUME NEW t \in Tasks, Worker(t) PROVE \A v \in Urls : KeepsEntry(v)
    BY <1>7, WorkerKeeps
  <1>8. ASSUME NEW t \in Tasks, WorkerCrash(t) PROVE \A v \in Urls : KeepsEntry(v)
    BY <1>8, UnchangedKeeps DEF WorkerCrash
  <1>9. CASE ApiRestart \/ UNCHANGED vars
    BY <1>9, UnchangedKeeps DEF ApiRestart, vars
  <1>. QED
    BY <1>1, <1>2, <1>3, <1>4, <1>5, <1>6, <1>7, <1>8, <1>9 DEF Next, Owner, Handler

\* "Preserves stage and notes on re-add" (db.py, upsert_tracker): however many
\* matches, re-adds, captures and rematches write back an older copy of an
\* entry, only the owner's own edit moves its stage.
THEOREM OwnerEditsAreKept == SafetySpec => OwnerEditsKept
  <1>1. TypeInv /\ [Next]_vars =>
          [\A u \in Urls :
              SameEntry(u) /\ ~(\E s \in Stages : SetStage(u, s))
                 => rows'[u].stage = rows[u].stage]_vars
    BY NextKeeps DEF KeepsEntry
  <1>. QED  BY <1>1, TypeCorrect, PTL DEF SafetySpec, OwnerEditsKept

\* The captured_jd clause of upsert_tracker (db.py): a job description that
\* an entry holds is never blanked by a write that carries none.
THEOREM CapturedJdIsKept == SafetySpec => CapturedJdKept
  <1>1. TypeInv /\ [Next]_vars =>
          [\A u \in Urls : SameEntry(u) /\ rows[u].jd # "" => rows'[u].jd # ""]_vars
    BY NextKeeps DEF KeepsEntry
  <1>. QED  BY <1>1, TypeCorrect, PTL DEF SafetySpec, CapturedJdKept

-----------------------------------------------------------------------------
(* A score has its report behind it: the inductive invariant.               *)

Present == {u \in Urls : rows[u] # NoRow}

\* The id counter is ahead of the entries, by more than one once an entry has
\* been deleted.
CountsRows == IsFiniteSet(Present) /\ 1 + Cardinality(Present) <= nextId

\* A row is filed under its own url, and its id is no other row's.
KeyedByUrl ==
    \A u \in Urls : rows[u] # NoRow =>
        /\ rows[u].url = u
        /\ rows[u].id < nextId
        /\ \A v \in Urls : HasId(v, rows[u].id) => v = u

Unremoved == mishaps \subseteq {"unindexed"} /\ NothingRemoved
Calm == Unremoved /\ removal = NoRow

\* Nothing has been removed: what a request or a match has read is there.
HoldersLive ==
    Unremoved =>
        /\ removal # NoRow => HasId(removal.url, removal.id)
        /\ clearing # NoRow => HasId(clearing.url, clearing.id)
        /\ \A t \in Tasks : Running(t) => HasId(task[t].entry.url, task[t].id)

OneMatchPerUrl ==
    "overlap" \notin mishaps =>
        \A s, t \in Tasks :
            Running(s) /\ Running(t) /\ task[s].entry.url = task[t].entry.url => s = t

\* The run is in the index, or some run could not be put there.
Indexed(u, r) == r \in runs[u] \/ "unindexed" \in mishaps

\* A match that has a score to write back keeps its run in the index, and its
\* report in the folder once that is published.
ResultKept ==
    Calm =>
        \A t \in Tasks :
            LET e == task[t].entry IN
            task[t].pc \in {"matched", "published"} /\ e.match = "scored" =>
                /\ e.run \in RunKeys /\ Indexed(e.url, e.run)
                /\ task[t].pc = "published" => "report" \in store[e.url][e.run]

\* A match of this url is under way or will be.
Pending(u) ==
    \E t \in Tasks :
        \/ task[t].pc = "queued" /\ HasId(u, task[t].id)
        \/ Running(t) /\ task[t].entry.url = u

Backed(u) ==
    /\ rows[u].run \in RunKeys /\ Indexed(u, rows[u].run)
    /\ "report" \in store[u][rows[u].run]

ScoreBacked ==
    Calm =>
        \A u \in Urls :
            rows[u] # NoRow /\ rows[u].match = "scored" => Backed(u) \/ Pending(u)

Table == TypeInv /\ CountsRows /\ KeyedByUrl

ScoreInv ==
    Table /\ HoldersLive /\ OneMatchPerUrl /\ ResultKept /\ ScoreBacked

-----------------------------------------------------------------------------
(* What a step does to the table.                                           *)

\* No row goes away or changes its id, and the id counter keeps its distance
\* from the number of rows.
Grows ==
    /\ CountsRows' /\ KeyedByUrl'
    /\ NothingRemoved' => NothingRemoved
    /\ \A u \in Urls : rows[u] # NoRow => rows'[u] # NoRow /\ rows'[u].id = rows[u].id

\* The row an upsert leaves under the url.
LEMMA UpsertRow ==
    ASSUME TypeOK, KeyedByUrl, NEW e \in Row, UpsertTracker(e)
    PROVE  \E r \in Row :
              /\ rows' = [rows EXCEPT ![e.url] = r]
              /\ r.url = e.url /\ r.run = e.run /\ r.match = e.match
              /\ IF rows[e.url] = NoRow
                 THEN r.id = nextId /\ nextId' = nextId + 1
                 ELSE r.id = rows[e.url].id /\ nextId' = nextId
  <1>0. /\ rows \in [Urls -> Row \cup {NoRow}] /\ nextId \in Nat /\ e.url \in Urls
    BY DEF TypeOK, Row
  <1>1. CASE rows[e.url] = NoRow
    <2>. DEFINE new == [e EXCEPT !.id = nextId]
    <2>1. /\ new \in Row /\ new.id = nextId
          /\ new.url = e.url /\ new.run = e.run /\ new.match = e.match
      BY <1>0 DEF Row
    <2>2. rows' = [rows EXCEPT ![e.url] = new] /\ nextId' = nextId + 1
      BY <1>1 DEF UpsertTracker
    <2>. HIDE DEF new
    <2>. QED  BY <1>1, <2>1, <2>2
  <1>2. CASE rows[e.url] # NoRow
    <2>. DEFINE new == Merge(rows[e.url], e)
    <2>1. rows[e.url] \in Row
      BY <1>0, <1>2
    <2>2. new.run = e.run /\ new.match = e.match
      BY <2>1 DEF Merge, Row
    <2>3. new \in Row /\ new.id = rows[e.url].id /\ new.url = e.url
      BY <2>1, MergeType
    <2>4. rows' = [rows EXCEPT ![e.url] = new] /\ nextId' = nextId
      BY <1>2 DEF UpsertTracker
    <2>. HIDE DEF new
    <2>. QED  BY <1>2, <2>2, <2>3, <2>4
  <1>. QED  BY <1>1, <1>2

LEMMA UpsertGrows ==
    ASSUME TypeOK, CountsRows, KeyedByUrl, NEW e \in Row, UpsertTracker(e)
    PROVE  Grows
  <1>0. /\ rows \in [Urls -> Row \cup {NoRow}] /\ nextId \in Nat /\ e.url \in Urls
    BY DEF TypeOK, Row
  <1>1. PICK r \in Row :
              /\ rows' = [rows EXCEPT ![e.url] = r]
              /\ r.url = e.url /\ r.run = e.run /\ r.match = e.match
              /\ IF rows[e.url] = NoRow
                 THEN r.id = nextId /\ nextId' = nextId + 1
                 ELSE r.id = rows[e.url].id /\ nextId' = nextId
    BY UpsertRow
  <1>2. r # NoRow /\ rows'[e.url] = r /\ \A v \in Urls \ {e.url} : rows'[v] = rows[v]
    BY <1>0, <1>1, NoRowAssumption
  <1>3. Present' = Present \cup {e.url}
    BY <1>0, <1>2 DEF Present
  <1>4. /\ Cardinality(Present) \in Nat /\ IsFiniteSet(Present')
        /\ Cardinality(Present') =
              IF e.url \in Present THEN Cardinality(Present) ELSE Cardinality(Present) + 1
    BY <1>3, FS_AddElement, FS_CardinalityType DEF CountsRows
  <1>5. (e.url \in Present) = (rows[e.url] # NoRow)
    BY <1>0 DEF Present
  <1>6. CountsRows'
    BY <1>0, <1>1, <1>4, <1>5 DEF CountsRows
  <1>7. NothingRemoved' => NothingRemoved
    BY <1>0, <1>1, <1>4, <1>5 DEF NothingRemoved, Present
  <1>8. \A u \in Urls : rows[u] # NoRow => rows'[u] # NoRow /\ rows'[u].id = rows[u].id
    BY <1>1, <1>2
  <1>9. KeyedByUrl'
    <2>. SUFFICES ASSUME NEW u \in Urls, rows'[u] # NoRow
                  PROVE  /\ rows'[u].url = u /\ rows'[u].id < nextId'
                         /\ \A v \in Urls :
                              rows'[v] # NoRow /\ rows'[v].id = rows'[u].id => v = u
      BY DEF KeyedByUrl, HasId
    <2>0. \A v \in Urls : rows[v] # NoRow => rows[v].id \in Nat
      BY <1>0 DEF Row
    <2>1. \A v \in Urls : rows[v] # NoRow =>
              /\ rows[v].url = v /\ rows[v].id < nextId
              /\ \A w \in Urls : rows[w] # NoRow /\ rows[w].id = rows[v].id => w = v
      BY DEF KeyedByUrl, HasId
    <2>2. rows'[u].url = u /\ rows'[u].id < nextId'
      BY <1>0, <1>1, <1>2, <2>0, <2>1
    <2>3. ASSUME NEW v \in Urls, rows'[v] # NoRow, rows'[v].id = rows'[u].id
          PROVE  v = u
      BY <1>0, <1>1, <1>2, <2>0, <2>1, <2>3
    <2>. QED  BY <2>2, <2>3
  <1>. QED  BY <1>6, <1>7, <1>8, <1>9 DEF Grows

LEMMA SetStageGrows ==
    ASSUME TypeOK, CountsRows, KeyedByUrl, NEW u \in Urls, NEW s \in Stages, SetStage(u, s)
    PROVE  /\ Grows
           /\ \A v \in Urls : /\ rows'[v] # NoRow <=> rows[v] # NoRow
                              /\ rows'[v] # NoRow => /\ rows'[v].run = rows[v].run
                                                     /\ rows'[v].match = rows[v].match
  <1>0. rows \in [Urls -> Row \cup {NoRow}] /\ nextId \in Nat /\ rows[u] \in Row
    BY DEF TypeOK, SetStage
  <1>. DEFINE r == [rows[u] EXCEPT !.stage = s]
  <1>1. /\ r \in Row /\ r.id = rows[u].id /\ r.url = rows[u].url
        /\ r.run = rows[u].run /\ r.match = rows[u].match
    BY <1>0 DEF Row
  <1>2. rows' = [rows EXCEPT ![u] = r] /\ nextId' = nextId
    BY DEF SetStage
  <1>. HIDE DEF r
  <1>3. \A v \in Urls : /\ rows'[v] # NoRow <=> rows[v] # NoRow
                        /\ rows'[v] # NoRow => /\ rows'[v].run = rows[v].run
                                               /\ rows'[v].match = rows[v].match
                                               /\ rows'[v].id = rows[v].id
                                               /\ rows'[v].url = rows[v].url
    BY <1>0, <1>1, <1>2, NoRowAssumption DEF SetStage
  <1>4. Present' = Present
    BY <1>3 DEF Present
  <1>5. CountsRows' /\ (NothingRemoved' => NothingRemoved)
    BY <1>2, <1>4 DEF CountsRows, NothingRemoved, Present
  <1>6. KeyedByUrl'
    BY <1>2, <1>3 DEF KeyedByUrl, HasId
  <1>. QED  BY <1>3, <1>5, <1>6 DEF Grows

LEMMA SameTableGrows ==
    ASSUME CountsRows, KeyedByUrl, UNCHANGED <<rows, nextId>> PROVE Grows
  <1>1. CountsRows' /\ (NothingRemoved' => NothingRemoved)
    BY DEF CountsRows, NothingRemoved, Present
  <1>2. KeyedByUrl'
    BY DEF KeyedByUrl, HasId
  <1>. QED  BY <1>1, <1>2 DEF Grows

\* A delete takes a row away, and the counter tells for ever.
LEMMA RemoveTable ==
    ASSUME TypeOK, CountsRows, KeyedByUrl, RemoveTracker
    PROVE  /\ CountsRows' /\ KeyedByUrl'
           /\ HoldersLive => ~Unremoved'
  <1>0. /\ rows \in [Urls -> Row \cup {NoRow}] /\ nextId \in Nat
        /\ nextId' = nextId /\ mishaps' = mishaps
        /\ removal # NoRow /\ removal.url \in Urls
    BY DEF TypeOK, RemoveTracker
  <1>1. /\ \A v \in Urls \ {removal.url} : rows'[v] = rows[v]
        /\ rows'[removal.url] =
              IF HasId(removal.url, removal.id) THEN NoRow ELSE rows[removal.url]
    BY <1>0 DEF RemoveTracker
  <1>2. KeyedByUrl'
    BY <1>0, <1>1 DEF KeyedByUrl, HasId
  <1>3. CASE HasId(removal.url, removal.id)
    <2>1. removal.url \in Present /\ Present' = Present \ {removal.url}
      BY <1>0, <1>1, <1>3 DEF Present, HasId
    <2>2. /\ Cardinality(Present) \in Nat /\ IsFiniteSet(Present')
          /\ Cardinality(Present') = Cardinality(Present) - 1
      BY <2>1, FS_RemoveElement, FS_CardinalityType DEF CountsRows
    <2>3. CountsRows'
      BY <1>0, <2>2 DEF CountsRows
    <2>4. nextId' # 1 + Cardinality(Present')
      BY <1>0, <2>2 DEF CountsRows
    <2>. QED  BY <1>2, <2>3, <2>4 DEF Unremoved, NothingRemoved, Present
  <1>4. CASE ~HasId(removal.url, removal.id)
    <2>1. Present' = Present
      BY <1>0, <1>1, <1>4 DEF Present
    <2>2. CountsRows' /\ (Unremoved' => Unremoved)
      BY <1>0, <2>1 DEF CountsRows, Unremoved, NothingRemoved, Present
    <2>. QED  BY <1>0, <1>2, <1>4, <2>2 DEF HoldersLive
  <1>. QED  BY <1>3, <1>4

LEMMA NextGrows ==
    ASSUME Table, [Next]_vars
    PROVE  Grows \/ RemoveTracker
  <1>0. TypeOK /\ CountsRows /\ KeyedByUrl
    BY DEF Table, TypeInv
  <1>1. ASSUME NEW u \in Urls, AddTracked(u) \/ AddWithoutMatch(u) PROVE Grows
    BY <1>0, <1>1, EntryType, UpsertGrows DEF AddTracked, AddWithoutMatch
  <1>2. ASSUME NEW u \in Urls, CaptureTracked(u) PROVE Grows
    BY <1>0, <1>2, CapturedType, UpsertGrows DEF CaptureTracked
  <1>3. ASSUME NEW u \in Urls, NEW s \in Stages, SetStage(u, s) PROVE Grows
    BY <1>0, <1>3, SetStageGrows
  <1>4. ASSUME NEW u \in Urls, RematchRead(u) \/ RemoveRun(u) PROVE Grows
    BY <1>0, <1>4, SameTableGrows DEF RematchRead, RemoveRun
  <1>5. CASE RematchWrite
    BY <1>0, <1>5, UpsertGrows DEF RematchWrite, TypeOK
  <1>6. ASSUME NEW t \in Tasks, WriteBack(t) PROVE Grows
    <2>1. task[t].entry \in Row
      BY <1>6 DEF Table, TypeInv, WriteBack, Running
    <2>. QED  BY <1>0, <1>6, <2>1, UpsertGrows DEF WriteBack
  <1>7. ASSUME NEW t \in Tasks, Worker(t), ~WriteBack(t) PROVE Grows
    BY <1>0, <1>7, SameTableGrows
    DEF Worker, ReadEntry, WipeRun, MatchSucceeds, MatchFails, Publish
  <1>8. ASSUME NEW t \in Tasks, WorkerCrash(t) PROVE Grows
    BY <1>0, <1>8, SameTableGrows DEF WorkerCrash
  <1>9. CASE ApiRestart \/ UNCHANGED vars
    BY <1>0, <1>9, SameTableGrows DEF ApiRestart, vars
  <1>. QED
    BY <1>1, <1>2, <1>3, <1>4, <1>5, <1>6, <1>7, <1>8, <1>9 DEF Next, Owner, Handler

\* The history only grows.
LEMMA MishapsGrow ==
    ASSUME TypeOK, [Next]_vars PROVE mishaps \subseteq mishaps'
  <1>1. ASSUME NEW i, SubmitTrackerMatch(i) PROVE mishaps \subseteq mishaps'
    BY <1>1 DEF SubmitTrackerMatch, Lost
  <1>2. ASSUME NEW t, Finish(t) PROVE mishaps \subseteq mishaps'
    BY <1>2 DEF Finish
  <1>3. CASE Owner
    BY <1>1, <1>3
    DEF Owner, AddTracked, AddWithoutMatch, CaptureTracked, SetStage, RematchRead, RemoveRun
  <1>4. CASE Handler
    BY <1>1, <1>4 DEF Handler, RematchWrite, RemoveTracker
  <1>5. ASSUME NEW t \in Tasks, Worker(t) PROVE mishaps \subseteq mishaps'
    <2>1. CASE ReadEntry(t)
      BY <1>2, <2>1 DEF ReadEntry
    <2>2. CASE WipeRun(t) \/ MatchSucceeds(t) \/ MatchFails(t) \/ Publish(t)
      BY <2>2 DEF WipeRun, MatchSucceeds, IndexRun, MatchFails, Publish, Lost
    <2>3. CASE WriteBack(t)
      BY <1>2, <2>3 DEF WriteBack
    <2>. QED  BY <1>5, <2>1, <2>2, <2>3 DEF Worker
  <1>6. ASSUME NEW t \in Tasks, WorkerCrash(t) PROVE mishaps \subseteq mishaps'
    BY <1>6 DEF WorkerCrash, Lost
  <1>7. CASE ApiRestart \/ UNCHANGED vars
    BY <1>7 DEF ApiRestart, Lost, vars
  <1>. QED  BY <1>3, <1>4, <1>5, <1>6, <1>7 DEF Next

\* What the rest of the proof needs of the table: as long as nothing is
\* removed, a row keeps its id.
LEMMA UnremovedStep ==
    ASSUME Table, HoldersLive, [Next]_vars
    PROVE  /\ CountsRows' /\ KeyedByUrl'
           /\ Unremoved' =>
                /\ Unremoved
                /\ \A u \in Urls : rows[u] # NoRow => rows'[u] # NoRow /\ rows'[u].id = rows[u].id
  <1>0. TypeOK /\ CountsRows /\ KeyedByUrl
    BY DEF Table, TypeInv
  <1>1. CASE RemoveTracker
    BY <1>0, <1>1, RemoveTable
  <1>2. CASE Grows
    BY <1>0, <1>2, MishapsGrow DEF Grows, Unremoved
  <1>. QED  BY <1>1, <1>2, NextGrows

-----------------------------------------------------------------------------
(* What a step does to the tasks.                                           *)

\* A task goes on, is started, comes back, is queued, or ends.
TaskStep(x) ==
    \/ task'[x] = task[x]
    \/ /\ task[x].pc = "free" /\ task'[x].pc = "queued"
    \/ /\ task[x].pc # "free" /\ task'[x].pc = "queued" /\ task'[x].id = task[x].id
    \/ /\ task[x].pc = "queued" /\ task'[x].pc = "read" /\ task'[x].id = task[x].id
       /\ \A y \in Tasks \ {x} : task'[y] = task[y]
       /\ \E u \in Urls :
             /\ HasId(u, task[x].id) /\ task'[x].entry = rows[u]
             /\ \/ "overlap" \in mishaps'
                \/ \A y \in Tasks : ~(Running(y) /\ task[y].entry.url = u)
    \/ /\ Running(x)
       /\ Running(x)' /\ task'[x].id = task[x].id
       /\ task'[x].entry.url = task[x].entry.url
       /\ WipeRun(x) \/ MatchSucceeds(x) \/ MatchFails(x) \/ Publish(x)
    \/ /\ task'[x].pc = "free"
       /\ \/ "lost" \in mishaps'
          \/ task[x].pc = "queued" /\ \A u \in Urls : ~HasId(u, task[x].id)
          \/ WriteBack(x)

LEMMA SubmitSteps ==
    ASSUME TypeOK, NEW i, SubmitTrackerMatch(i)
    PROVE  \A x \in Tasks : TaskStep(x)
  <1>1. CASE UNCHANGED task
    BY <1>1 DEF TaskStep
  <1>. DEFINE v == [IdleTask EXCEPT !.pc = "queued", !.id = i]
  <1>2. v.pc = "queued"
    BY DEF IdleTask
  <1>3. ASSUME NEW t \in Tasks, task[t].pc = "free", task' = [task EXCEPT ![t] = v]
        PROVE  \A x \in Tasks : TaskStep(x)
    <2>. HIDE DEF v
    <2>. QED  BY <1>2, <1>3 DEF TaskStep, TypeOK
  <1>. QED  BY <1>1, <1>3 DEF SubmitTrackerMatch

LEMMA RedeliverSteps ==
    ASSUME TypeOK, NEW t \in Tasks, task[t].pc # "free", Redeliver(t)
    PROVE  \A x \in Tasks : TaskStep(x)
  <1>. DEFINE v == [IdleTask EXCEPT !.pc = "queued", !.id = task[t].id,
                                    !.tries = task[t].tries + 1]
  <1>1. v.pc = "queued" /\ v.id = task[t].id
    BY DEF IdleTask
  <1>2. task' = [task EXCEPT ![t] = v]
    BY DEF Redeliver
  <1>. HIDE DEF v
  <1>. QED  BY <1>1, <1>2 DEF TaskStep, TypeOK

LEMMA EndSteps ==
    ASSUME TypeOK, NEW t \in Tasks, task' = [task EXCEPT ![t] = IdleTask],
           \/ "lost" \in mishaps'
           \/ task[t].pc = "queued" /\ \A u \in Urls : ~HasId(u, task[t].id)
           \/ WriteBack(t)
    PROVE  \A x \in Tasks : TaskStep(x)
  <1>1. task'[t].pc = "free" /\ \A x \in Tasks \ {t} : task'[x] = task[x]
    BY DEF TypeOK, IdleTask
  <1>. QED  BY <1>1 DEF TaskStep

\* A worker's step moves its own task, one place on.
LEMMA WorkerSteps ==
    ASSUME TypeInv, NEW t \in Tasks, Worker(t)
    PROVE  \A x \in Tasks : TaskStep(x)
  <1>0. TypeOK /\ task[t] \in Task /\ (Running(t) => task[t].entry \in Row)
    BY DEF TypeInv, TypeOK
  <1>1. CASE ReadEntry(t)
    <2>0. task[t].pc = "queued"
      BY <1>1 DEF ReadEntry
    <2>1. CASE Finish(t) /\ \A u \in Urls : ~HasId(u, task[t].id)
      BY <1>0, <2>0, <2>1, RedeliverSteps, EndSteps DEF Finish
    <2>2. ASSUME NEW u \in Urls, NEW b, HasId(u, task[t].id),
                 task' = [task EXCEPT ![t].pc = "read", ![t].entry = rows[u], ![t].shot = b],
                 IF \E x \in Tasks : Running(x) /\ task[x].entry.url = u
                 THEN mishaps' = mishaps \cup {"overlap"}
                 ELSE UNCHANGED mishaps
          PROVE  \A x \in Tasks : TaskStep(x)
      <3>1. /\ task'[t].pc = "read" /\ task'[t].id = task[t].id /\ task'[t].entry = rows[u]
            /\ \A x \in Tasks \ {t} : task'[x] = task[x]
        BY <1>0, <2>2 DEF TypeOK, Task
      <3>2. \/ "overlap" \in mishaps'
            \/ \A y \in Tasks : ~(Running(y) /\ task[y].entry.url = u)
        BY <2>2
      <3>3. TaskStep(t)
        BY <2>0, <2>2, <3>1, <3>2 DEF TaskStep
      <3>. QED  BY <3>1, <3>3 DEF TaskStep
    <2>. QED  BY <1>1, <2>1, <2>2 DEF ReadEntry
  <1>2. CASE WipeRun(t) \/ MatchSucceeds(t) \/ MatchFails(t) \/ Publish(t)
    <2>1. task[t].pc \in {"read", "wiped", "matched"} /\ task[t].entry \in Row
      BY <1>0, <1>2 DEF WipeRun, MatchSucceeds, MatchFails, Publish, Running
    <2>2. /\ Scored(task[t].entry).url = task[t].entry.url
          /\ Failed(task[t].entry).url = task[t].entry.url
      BY <2>1 DEF Scored, Failed, Row
    <2>3. /\ task'[t].pc \in {"wiped", "matched", "published"}
          /\ task'[t].id = task[t].id
          /\ task'[t].entry.url = task[t].entry.url
          /\ \A x \in Tasks \ {t} : task'[x] = task[x]
      <3>0. ASSUME NEW p, task' = [task EXCEPT ![t].pc = p]
            PROVE  /\ task'[t].pc = p /\ task'[t].id = task[t].id
                   /\ task'[t].entry.url = task[t].entry.url
                   /\ \A x \in Tasks \ {t} : task'[x] = task[x]
        BY <1>0, <3>0 DEF TypeOK, Task
      <3>1. CASE WipeRun(t)
        BY <3>0, <3>1 DEF WipeRun
      <3>5. CASE Publish(t)
        BY <3>0, <3>5 DEF Publish
      <3>2. ASSUME NEW e, e.url = task[t].entry.url,
                   task' = [task EXCEPT ![t].pc = "matched", ![t].entry = e]
            PROVE  /\ task'[t].pc = "matched" /\ task'[t].id = task[t].id
                   /\ task'[t].entry.url = task[t].entry.url
                   /\ \A x \in Tasks \ {t} : task'[x] = task[x]
        BY <1>0, <3>2 DEF TypeOK, Task
      <3>3. CASE MatchSucceeds(t)
        BY <2>2, <3>2, <3>3 DEF MatchSucceeds
      <3>4. CASE MatchFails(t)
        BY <2>2, <3>2, <3>4 DEF MatchFails
      <3>. QED  BY <1>2, <3>1, <3>3, <3>4, <3>5
    <2>. QED  BY <1>2, <2>1, <2>3 DEF TaskStep, Running
  <1>3. CASE WriteBack(t)
    <2>1. task[t].pc # "free"
      BY <1>3 DEF WriteBack
    <2>. QED  BY <1>0, <1>3, <2>1, RedeliverSteps, EndSteps DEF WriteBack, Finish
  <1>. QED  BY <1>1, <1>2, <1>3 DEF Worker

LEMMA NextSteps ==
    ASSUME TypeInv, [Next]_vars
    PROVE  \A x \in Tasks : TaskStep(x)
  <1>0. TypeOK
    BY DEF TypeInv
  <1>1. CASE UNCHANGED task
    BY <1>1 DEF TaskStep
  <1>2. ASSUME NEW u \in Urls, AddTracked(u) \/ CaptureTracked(u)
        PROVE  \A x \in Tasks : TaskStep(x)
    BY <1>0, <1>2, SubmitSteps DEF AddTracked, CaptureTracked
  <1>3. CASE RematchWrite
    BY <1>0, <1>1, <1>3, SubmitSteps DEF RematchWrite
  <1>4. ASSUME NEW t \in Tasks, Worker(t)  PROVE \A x \in Tasks : TaskStep(x)
    BY <1>4, WorkerSteps
  <1>5. ASSUME NEW t \in Tasks, WorkerCrash(t)  PROVE \A x \in Tasks : TaskStep(x)
    <2>1. task[t].pc # "free"
      BY <1>5 DEF WorkerCrash, Running
    <2>. QED  BY <1>0, <1>5, <2>1, RedeliverSteps, EndSteps DEF WorkerCrash, Lost
  <1>6. CASE ApiRestart
    <2>1. "lost" \in mishaps' /\ \A x \in Tasks : task'[x] = task[x] \/ task'[x] = IdleTask
      BY <1>6 DEF ApiRestart, Lost
    <2>. QED  BY <2>1 DEF TaskStep, IdleTask
  <1>7. CASE \E u \in Urls, s \in Stages :
            AddWithoutMatch(u) \/ SetStage(u, s) \/ RematchRead(u) \/ RemoveRun(u)
    BY <1>1, <1>7 DEF AddWithoutMatch, SetStage, RematchRead, RemoveRun
  <1>8. CASE RemoveTracker \/ UNCHANGED vars
    BY <1>1, <1>8 DEF RemoveTracker, vars
  <1>. QED
    BY <1>2, <1>3, <1>4, <1>5, <1>6, <1>7, <1>8, StagesAssumption
    DEF Next, Owner, Handler

-----------------------------------------------------------------------------
(* What a step does to the folders and to the rows.                         *)

FolderKept(u) ==
    \A r \in RunKeys :
        /\ "report" \in store[u][r] => "report" \in store'[u][r]
        /\ Indexed(u, r) => Indexed(u, r)'

\* Only a delete under way and a match that starts clean take a report away.
LEMMA FoldersKept ==
    ASSUME TypeInv, [Next]_vars, removal' = NoRow, NEW u \in Urls
    PROVE  \/ FolderKept(u)
           \/ \E t \in Tasks : WipeRun(t) /\ task[t].entry.url = u
  <1>0. TypeOK
    BY DEF TypeInv
  <1>. mishaps \subseteq mishaps'
    BY <1>0, MishapsGrow
  <1>1. ASSUME store' = store, runs' = runs PROVE FolderKept(u)
    BY <1>1 DEF FolderKept, Indexed
  <1>2. ASSUME NEW v \in Urls, CaptureTracked(v) PROVE FolderKept(u)
    <2>1. store' \in {store, [store EXCEPT ![v]["capture"] = @ \cup {"screenshot"}]}
      BY <1>2 DEF CaptureTracked
    <2>. QED  BY <1>0, <1>2, <2>1 DEF CaptureTracked, FolderKept, Indexed, TypeOK, RunKeys
  <1>3. ASSUME NEW v \in Urls, RemoveRun(v) PROVE FALSE
    <2>1. removal' = [id |-> rows[v].id, url |-> v] /\ rows[v].id \in Nat
      BY <1>0, <1>3 DEF RemoveRun, TypeOK, Row
    <2>. QED  BY <2>1, NoRowAssumption
  <1>4. ASSUME NEW t \in Tasks, WipeRun(t)
        PROVE  FolderKept(u) \/ task[t].entry.url = u
    <2>1. task[t].entry \in Row
      BY <1>4 DEF WipeRun, TypeInv, Running
    <2>. QED  BY <1>0, <1>4, <2>1, MatchType DEF WipeRun, FolderKept, Indexed, TypeOK, Row
  <1>5. ASSUME NEW t \in Tasks, MatchSucceeds(t) PROVE FolderKept(u)
    <2>. DEFINE e == task[t].entry
    <2>1. e.url \in Urls /\ RunId(e) \in RunKeys
      BY <1>5, MatchType DEF MatchSucceeds, TypeInv, Running
    <2>2. /\ runs' \in {runs, [runs EXCEPT ![e.url] = runs[e.url] \cup {RunId(e)}]}
          /\ store' \in {store,
                [store EXCEPT ![e.url][RunId(e)] = store[e.url][RunId(e)] \cup {"report"}]}
      BY <1>5 DEF MatchSucceeds, IndexRun
    <2>. HIDE DEF e
    <2>3. \A r \in RunKeys : Indexed(u, r) => Indexed(u, r)'
      BY <1>0, <2>1, <2>2 DEF Indexed, TypeOK
    <2>4. \A r \in RunKeys : "report" \in store[u][r] => "report" \in store'[u][r]
      <3>1. CASE store' = store
        BY <3>1
      <3>2. CASE store' = [store EXCEPT ![e.url][RunId(e)] = store[e.url][RunId(e)] \cup {"report"}]
        BY <1>0, <2>1, <3>2 DEF TypeOK
      <3>. QED  BY <2>2, <3>1, <3>2
    <2>. QED  BY <2>3, <2>4 DEF FolderKept
  <1>6. ASSUME NEW t \in Tasks, Publish(t) PROVE FolderKept(u)
    <2>. DEFINE e == task[t].entry
               up == Uploads(task[t])
    <2>1. e.url \in Urls
      BY <1>6, MatchType DEF Publish, TypeInv, Running
    <2>2. runs' = runs /\ store' \in {store,
                [store EXCEPT ![e.url][e.run] = store[e.url][e.run] \cup up]}
      BY <1>6 DEF Publish
    <2>. HIDE DEF e, up
    <2>3. \A r \in RunKeys : Indexed(u, r) => Indexed(u, r)'
      BY <2>2 DEF Indexed
    <2>4. \A r \in RunKeys : "report" \in store[u][r] => "report" \in store'[u][r]
      <3>1. CASE store' = store
        BY <3>1
      <3>2. CASE store' = [store EXCEPT ![e.url][e.run] = store[e.url][e.run] \cup up]
        BY <1>0, <2>1, <3>2 DEF TypeOK
      <3>. QED  BY <2>2, <3>1, <3>2
    <2>. QED  BY <2>3, <2>4 DEF FolderKept
  <1>7. ASSUME NEW t \in Tasks, Worker(t), ~WipeRun(t) PROVE FolderKept(u)
    <2>1. CASE ReadEntry(t) \/ MatchFails(t) \/ WriteBack(t)
      <3>1. store' = store /\ runs' = runs
        BY <2>1 DEF ReadEntry, MatchFails, WriteBack
      <3>. QED  BY <1>1, <3>1
    <2>. QED  BY <1>5, <1>6, <1>7, <2>1 DEF Worker
  <1>8. ASSUME NEW v \in Urls, NEW s \in Stages,
               AddTracked(v) \/ AddWithoutMatch(v) \/ SetStage(v, s) \/ RematchRead(v)
        PROVE  FolderKept(u)
    <2>1. store' = store /\ runs' = runs
      BY <1>8 DEF AddTracked, AddWithoutMatch, SetStage, RematchRead
    <2>. QED  BY <1>1, <2>1
  <1>9. CASE Handler \/ ApiRestart \/ UNCHANGED vars \/ \E t \in Tasks : WorkerCrash(t)
    <2>1. store' = store /\ runs' = runs
      BY <1>9 DEF Handler, RematchWrite, RemoveTracker, ApiRestart, vars, WorkerCrash
    <2>. QED  BY <1>1, <2>1
  <1>. QED
    BY <1>2, <1>3, <1>4, <1>7, <1>8, <1>9, StagesAssumption DEF Next, Owner

\* A row that shows a score has shown it before, or has it from a match or
\* a rematch that wrote its copy of the entry back.
ScoreStep(u) ==
    \/ rows[u] # NoRow /\ rows[u].match = "scored" /\ rows'[u].run = rows[u].run
    \/ \E t \in Tasks :
          /\ WriteBack(t) /\ task[t].entry.url = u
          /\ task[t].entry.match = "scored" /\ rows'[u].run = task[t].entry.run
    \/ RematchWrite /\ clearing.url = u

LEMMA UpsertScores ==
    ASSUME TypeOK, KeyedByUrl, NEW e \in Row, UpsertTracker(e), NEW u \in Urls,
           rows'[u] # NoRow, rows'[u].match = "scored"
    PROVE  \/ rows[u] # NoRow /\ rows[u].match = "scored" /\ rows'[u].run = rows[u].run
           \/ u = e.url /\ e.match = "scored" /\ rows'[u].run = e.run
  <1>1. PICK r \in Row :
              /\ rows' = [rows EXCEPT ![e.url] = r]
              /\ r.run = e.run /\ r.match = e.match
    BY UpsertRow
  <1>2. e.url \in Urls
    BY DEF Row
  <1>. QED  BY <1>1, <1>2 DEF TypeOK

LEMMA ScoresStep ==
    ASSUME Table, [Next]_vars, NEW u \in Urls, rows'[u] # NoRow, rows'[u].match = "scored"
    PROVE  ScoreStep(u)
  <1>0. TypeOK /\ CountsRows /\ KeyedByUrl
    BY DEF Table, TypeInv
  <1>1. CASE UNCHANGED rows
    BY <1>1 DEF ScoreStep
  <1>2. ASSUME NEW v \in Urls, AddTracked(v) \/ AddWithoutMatch(v) PROVE ScoreStep(u)
    <2>1. TrackerEntry(v) \in Row /\ TrackerEntry(v).match = "none"
      BY EntryType DEF TrackerEntry
    <2>. QED  BY <1>0, <1>2, <2>1, UpsertScores DEF AddTracked, AddWithoutMatch, ScoreStep
  <1>3. ASSUME NEW v \in Urls, CaptureTracked(v) PROVE ScoreStep(u)
    <2>. DEFINE e == [TrackerEntry(v) EXCEPT !.run = "capture", !.jd = "page"]
    <2>1. e \in Row /\ e.match = "none"
      BY CapturedType DEF TrackerEntry
    <2>2. UpsertTracker(e)
      BY <1>3 DEF CaptureTracked
    <2>. HIDE DEF e
    <2>. QED  BY <1>0, <2>1, <2>2, UpsertScores DEF ScoreStep
  <1>4. ASSUME NEW v \in Urls, NEW s \in Stages, SetStage(v, s) PROVE ScoreStep(u)
    BY <1>0, <1>4, SetStageGrows DEF ScoreStep
  <1>5. CASE RematchWrite
    <2>1. clearing \in Row /\ UpsertTracker(clearing)
      BY <1>0, <1>5 DEF RematchWrite, TypeOK
    <2>. QED  BY <1>0, <1>5, <2>1, UpsertScores DEF ScoreStep
  <1>6. CASE RemoveTracker
    <2>1. rows'[u] = rows[u] \/ rows'[u] = NoRow
      BY <1>0, <1>6 DEF RemoveTracker, TypeOK
    <2>. QED  BY <2>1 DEF ScoreStep
  <1>7. ASSUME NEW t \in Tasks, WriteBack(t) PROVE ScoreStep(u)
    <2>1. task[t].entry \in Row /\ UpsertTracker(task[t].entry)
      BY <1>7 DEF WriteBack, Table, TypeInv, Running
    <2>. QED  BY <1>0, <1>7, <2>1, UpsertScores DEF ScoreStep
  <1>8. ASSUME NEW t \in Tasks, Worker(t), ~WriteBack(t) PROVE ScoreStep(u)
    BY <1>1, <1>8 DEF Worker, ReadEntry, WipeRun, MatchSucceeds, MatchFails, Publish
  <1>9. CASE (\E v \in Urls : RematchRead(v) \/ RemoveRun(v)) \/ ApiRestart
             \/ UNCHANGED vars \/ \E t \in Tasks : WorkerCrash(t)
    BY <1>1, <1>9 DEF RematchRead, RemoveRun, ApiRestart, vars, WorkerCrash
  <1>. QED
    BY <1>2, <1>3, <1>4, <1>5, <1>6, <1>7, <1>8, <1>9 DEF Next, Owner, Handler

-----------------------------------------------------------------------------
(* The invariant is inductive.                                              *)

LEMMA HoldersLiveStep ==
    ASSUME ScoreInv, [Next]_vars PROVE HoldersLive'
  <1>0. TypeOK /\ Table /\ KeyedByUrl /\ HoldersLive
    BY DEF ScoreInv, Table, TypeInv
  <1>. SUFFICES ASSUME Unremoved'
                PROVE  /\ removal' # NoRow => HasId(removal.url, removal.id)'
                       /\ clearing' # NoRow => HasId(clearing.url, clearing.id)'
                       /\ \A t \in Tasks : Running(t)' => HasId(task[t].entry.url, task[t].id)'
    BY DEF HoldersLive
  <1>1. /\ Unremoved
        /\ \A u \in Urls : rows[u] # NoRow => rows'[u] # NoRow /\ rows'[u].id = rows[u].id
    BY <1>0, UnremovedStep
  <1>2. ASSUME removal' # NoRow
        PROVE  HasId(removal.url, removal.id)'
    <2>1. CASE removal' = removal
      <3>1. HasId(removal.url, removal.id) /\ removal.url \in Urls
        BY <1>0, <1>1, <1>2, <2>1 DEF HoldersLive, TypeOK
      <3>. QED  BY <1>1, <2>1, <3>1 DEF HasId
    <2>2. ASSUME NEW u \in Urls, RemoveRun(u) PROVE HasId(removal.url, removal.id)'
      BY <1>1, <2>2 DEF RemoveRun, HasId
    <2>3. removal' = removal \/ \E u \in Urls : RemoveRun(u)
      <3>1. CASE Owner
        BY <3>1 DEF Owner, AddTracked, AddWithoutMatch, CaptureTracked, SetStage, RematchRead
      <3>2. CASE Handler
        BY <1>2, <3>2 DEF Handler, RematchWrite, RemoveTracker
      <3>3. CASE \E t \in Tasks : Worker(t) \/ WorkerCrash(t)
        BY <3>3 DEF Worker, ReadEntry, WipeRun, MatchSucceeds, MatchFails, Publish,
                    WriteBack, WorkerCrash
      <3>4. CASE ApiRestart \/ UNCHANGED vars
        BY <1>2, <3>4 DEF ApiRestart, vars
      <3>. QED  BY <3>1, <3>2, <3>3, <3>4 DEF Next
    <2>. QED  BY <2>1, <2>2, <2>3
  <1>3. ASSUME clearing' # NoRow
        PROVE  HasId(clearing.url, clearing.id)'
    <2>1. CASE clearing' = clearing
      <3>1. HasId(clearing.url, clearing.id) /\ clearing.url \in Urls
        BY <1>0, <1>1, <1>3, <2>1 DEF HoldersLive, TypeOK, Row
      <3>. QED  BY <1>1, <2>1, <3>1 DEF HasId
    <2>2. ASSUME NEW u \in Urls, RematchRead(u) PROVE HasId(clearing.url, clearing.id)'
      <3>1. rows[u] \in Row /\ rows[u].url = u /\ rows[u] # NoRow
        BY <1>0, <2>2 DEF RematchRead, TypeOK, KeyedByUrl
      <3>2. clearing'.url = u /\ clearing'.id = rows[u].id
        BY <2>2, <3>1 DEF RematchRead, Row
      <3>. QED  BY <1>1, <3>1, <3>2 DEF HasId
    <2>3. clearing' = clearing \/ \E u \in Urls : RematchRead(u)
      <3>1. CASE Owner
        BY <3>1 DEF Owner, AddTracked, AddWithoutMatch, CaptureTracked, SetStage, RemoveRun
      <3>2. CASE Handler
        BY <1>3, <3>2 DEF Handler, RematchWrite, RemoveTracker
      <3>3. CASE \E t \in Tasks : Worker(t) \/ WorkerCrash(t)
        BY <3>3 DEF Worker, ReadEntry, WipeRun, MatchSucceeds, MatchFails, Publish,
                    WriteBack, WorkerCrash
      <3>4. CASE ApiRestart \/ UNCHANGED vars
        BY <1>3, <3>4 DEF ApiRestart, vars
      <3>. QED  BY <3>1, <3>2, <3>3, <3>4 DEF Next
    <2>. QED  BY <2>1, <2>2, <2>3
  <1>4. ASSUME NEW t \in Tasks, Running(t)'
        PROVE  HasId(task[t].entry.url, task[t].id)'
    <2>1. TaskStep(t)
      BY <1>0, NextSteps DEF Table
    <2>2. CASE /\ Running(t) /\ task'[t].id = task[t].id
               /\ task'[t].entry.url = task[t].entry.url
      <3>1. HasId(task[t].entry.url, task[t].id) /\ task[t].entry.url \in Urls
        BY <1>0, <1>1, <2>2 DEF HoldersLive, Table, TypeInv, Row
      <3>. QED  BY <1>1, <2>2, <3>1 DEF HasId
    <2>3. ASSUME NEW u \in Urls, task'[t].id = task[t].id, HasId(u, task[t].id),
                 task'[t].entry = rows[u]
          PROVE  HasId(task[t].entry.url, task[t].id)'
      BY <1>0, <1>1, <2>3 DEF KeyedByUrl, HasId
    <2>. QED  BY <1>4, <2>1, <2>2, <2>3 DEF TaskStep, Running
  <1>. QED  BY <1>2, <1>3, <1>4

LEMMA OneMatchStep ==
    ASSUME ScoreInv, [Next]_vars PROVE OneMatchPerUrl'
  <1>0. TypeOK /\ TypeInv /\ KeyedByUrl /\ OneMatchPerUrl
    BY DEF ScoreInv, Table, TypeInv
  <1>. SUFFICES ASSUME "overlap" \notin mishaps', NEW s \in Tasks, NEW t \in Tasks,
                       Running(s)', Running(t)', task'[s].entry.url = task'[t].entry.url
                PROVE  s = t
    BY DEF OneMatchPerUrl
  <1>1. "overlap" \notin mishaps
    BY <1>0, MishapsGrow
  <1>2. TaskStep(s) /\ TaskStep(t)
    BY <1>0, NextSteps
  <1>3. ASSUME NEW x \in Tasks, NEW y \in Tasks, TaskStep(x), ~Running(x), Running(x)',
               Running(y)', task'[y].entry.url = task'[x].entry.url
        PROVE  y = x
    <2>1. PICK u \in Urls :
             /\ HasId(u, task[x].id) /\ task'[x].entry = rows[u]
             /\ \A z \in Tasks : ~(Running(z) /\ task[z].entry.url = u)
             /\ \A z \in Tasks \ {x} : task'[z] = task[z]
      BY <1>3 DEF TaskStep, Running
    <2>2. task'[x].entry.url = u
      BY <1>0, <2>1 DEF KeyedByUrl, HasId
    <2>. QED  BY <1>3, <2>1, <2>2 DEF Running
  <1>4. CASE Running(s) /\ Running(t)
    <2>1. task'[s].entry.url = task[s].entry.url /\ task'[t].entry.url = task[t].entry.url
      BY <1>2, <1>4 DEF TaskStep, Running
    <2>. QED  BY <1>0, <1>1, <1>4, <2>1 DEF OneMatchPerUrl
  <1>. QED  BY <1>2, <1>3, <1>4

LEMMA CalmStep ==
    ASSUME ScoreInv, [Next]_vars, Calm' PROVE Calm
  <1>1. Table /\ HoldersLive /\ TypeOK
    BY DEF ScoreInv, Table, TypeInv
  <1>2. Unremoved
    BY <1>1, UnremovedStep DEF Calm
  <1>3. CASE RemoveTracker
    BY <1>1, <1>3, RemoveTable DEF Calm, Table
  <1>4. CASE ApiRestart
    BY <1>4 DEF ApiRestart, Lost, Calm, Unremoved
  <1>5. CASE Owner
    <2>1. ASSUME NEW u \in Urls, RemoveRun(u) PROVE removal = NoRow
      BY <2>1 DEF RemoveRun
    <2>2. CASE ~\E u \in Urls : RemoveRun(u)
      <3>1. removal' = removal
        BY <1>5, <2>2
        DEF Owner, AddTracked, AddWithoutMatch, CaptureTracked, SetStage, RematchRead
      <3>. QED  BY <1>2, <3>1 DEF Calm
    <2>. QED  BY <1>2, <2>1, <2>2 DEF Calm
  <1>6. CASE RematchWrite \/ \E t \in Tasks : Worker(t) \/ WorkerCrash(t)
    <2>1. removal' = removal
      BY <1>6 DEF RematchWrite, Worker, ReadEntry, WipeRun, MatchSucceeds, MatchFails,
                  Publish, WriteBack, WorkerCrash
    <2>. QED  BY <1>2, <2>1 DEF Calm
  <1>7. CASE UNCHANGED vars
    BY <1>2, <1>7 DEF Calm, vars
  <1>. QED  BY <1>2, <1>3, <1>4, <1>5, <1>6, <1>7 DEF Next, Handler

LEMMA ResultKeptStep ==
    ASSUME ScoreInv, [Next]_vars PROVE ResultKept'
  <1>. SUFFICES ASSUME Calm', NEW t \in Tasks,
                       task'[t].pc \in {"matched", "published"},
                       task'[t].entry.match = "scored"
                PROVE  LET e == task'[t].entry IN
                       /\ e.run \in RunKeys
                       /\ e.run \in runs'[e.url] \/ "unindexed" \in mishaps'
                       /\ task'[t].pc = "published" => "report" \in store'[e.url][e.run]
    BY DEF ResultKept, Indexed
  <1>0. TypeOK /\ TypeInv /\ OneMatchPerUrl /\ ResultKept /\ Calm
    BY CalmStep DEF ScoreInv, Table, TypeInv
  <1>1. TaskStep(t) /\ Running(t)'
    BY <1>0, NextSteps DEF Running
  <1>2. CASE task'[t] = task[t]
    <2>. DEFINE e == task[t].entry
    <2>1. /\ Running(t) /\ e.url \in Urls
          /\ e.run \in RunKeys /\ Indexed(e.url, e.run)
          /\ task[t].pc = "published" => "report" \in store[e.url][e.run]
      BY <1>0, <1>2 DEF ResultKept, Running, TypeInv, Row
    <2>2. FolderKept(e.url) \/ \E x \in Tasks : WipeRun(x) /\ task[x].entry.url = e.url
      BY <1>0, <2>1, FoldersKept DEF Calm
    <2>3. ASSUME NEW x \in Tasks, WipeRun(x), task[x].entry.url = e.url PROVE FALSE
      <3>1. Running(x) /\ task[x].pc = "read" /\ "overlap" \notin mishaps
        BY <1>0, <2>3 DEF WipeRun, Running, Calm, Unremoved
      <3>. QED  BY <1>0, <1>2, <2>1, <2>3, <3>1 DEF OneMatchPerUrl
    <2>4. FolderKept(e.url)
      BY <2>2, <2>3
    <2>. QED  BY <1>2, <2>1, <2>4 DEF FolderKept, Indexed
  <1>3. CASE MatchSucceeds(t)
    <2>. DEFINE e == task[t].entry
    <2>1. e \in Row /\ e.url \in Urls /\ RunId(e) \in RunKeys
      BY <1>0, <1>3, MatchType DEF MatchSucceeds, TypeInv, Running
    <2>2. Scored(e).run = RunId(e) /\ Scored(e).url = e.url
      BY <2>1 DEF Scored, Row
    <2>3. task'[t].pc = "matched" /\ task'[t].entry = Scored(e)
      BY <1>0, <1>3 DEF MatchSucceeds, TypeOK, Task
    <2>4. IndexRun(e.url, RunId(e))
      BY <1>3 DEF MatchSucceeds
    <2>. HIDE DEF e
    <2>5. RunId(e) \in runs'[e.url] \/ "unindexed" \in mishaps'
      BY <1>0, <2>1, <2>4 DEF IndexRun, TypeOK
    <2>. QED  BY <2>1, <2>2, <2>3, <2>5
  <1>4. CASE MatchFails(t)
    <2>1. task[t].entry \in Row
      BY <1>0, <1>4 DEF MatchFails, TypeInv, Running
    <2>2. Failed(task[t].entry).match = "failed"
      BY <2>1 DEF Failed, Row
    <2>3. task'[t].entry = Failed(task[t].entry)
      BY <1>0, <1>4 DEF MatchFails, TypeOK, Task
    <2>. QED  BY <2>2, <2>3
  <1>5. CASE Publish(t)
    <2>. DEFINE e == task[t].entry
               up == Uploads(task[t])
    <2>1. e \in Row /\ e.url \in Urls
      BY <1>0, <1>5, MatchType DEF Publish, TypeInv, Running
    <2>2. task'[t].entry = e /\ runs' = runs
      BY <1>0, <1>5 DEF Publish, TypeOK, Task
    <2>3. e.match = "scored" /\ task[t].pc = "matched"
      BY <1>5, <2>2 DEF Publish
    <2>4. /\ e.run \in RunKeys
          /\ e.run \in runs[e.url] \/ "unindexed" \in mishaps'
      BY <1>0, <2>3, MishapsGrow DEF ResultKept, Indexed
    <2>5. "report" \in up
      BY <2>3 DEF Uploads
    <2>6. e.run # ""
      BY <2>4 DEF RunKeys
    <2>7. store' = [store EXCEPT ![e.url][e.run] = store[e.url][e.run] \cup up]
      <3>1. "lost" \notin mishaps'
        BY DEF Calm, Unremoved
      <3>. QED  BY <1>5, <2>6, <3>1 DEF Publish, Lost
    <2>. HIDE DEF e, up
    <2>8. "report" \in store'[e.url][e.run]
      BY <1>0, <2>1, <2>4, <2>5, <2>7 DEF TypeOK
    <2>. QED  BY <2>2, <2>4, <2>8
  <1>6. ~WipeRun(t)
    BY <1>0, ZenonT(30) DEF WipeRun, TypeOK, Task
  <1>. QED  BY <1>1, <1>2, <1>3, <1>4, <1>5, <1>6 DEF TaskStep, Running

\* A match under way stays so, until it writes its copy of the entry back.
LEMMA PendingStep ==
    ASSUME ScoreInv, [Next]_vars, Calm', NEW u \in Urls, rows[u] # NoRow, Pending(u)
    PROVE  \/ Pending(u)'
           \/ \E t \in Tasks : WriteBack(t) /\ task[t].entry.url = u
  <1>0. TypeInv /\ Table /\ KeyedByUrl /\ HoldersLive /\ Unremoved
    BY CalmStep DEF ScoreInv, Table, Calm
  <1>1. rows'[u] # NoRow /\ rows'[u].id = rows[u].id
    BY <1>0, UnremovedStep DEF Calm
  <1>2. "lost" \notin mishaps'
    BY DEF Calm, Unremoved
  <1>3. PICK t \in Tasks : \/ task[t].pc = "queued" /\ HasId(u, task[t].id)
                           \/ Running(t) /\ task[t].entry.url = u
    BY DEF Pending
  <1>4. HasId(u, task[t].id)
    BY <1>0, <1>3 DEF HoldersLive
  <1>5. TaskStep(t)
    BY <1>0, NextSteps
  <1>6. CASE task'[t] = task[t]
    BY <1>1, <1>3, <1>4, <1>6 DEF Pending, HasId, Running
  <1>7. CASE task'[t].pc = "queued" /\ task'[t].id = task[t].id
    BY <1>1, <1>4, <1>7 DEF Pending, HasId
  <1>8. CASE task[t].pc = "queued" /\ task'[t].pc = "read"
    <2>1. PICK v \in Urls : HasId(v, task[t].id) /\ task'[t].entry = rows[v]
      BY <1>5, <1>8 DEF TaskStep, Running
    <2>2. v = u
      BY <1>0, <1>4, <2>1 DEF KeyedByUrl, HasId
    <2>3. task'[t].entry.url = u /\ Running(t)'
      BY <1>0, <1>8, <2>1, <2>2 DEF KeyedByUrl, HasId, Running
    <2>. QED  BY <2>3 DEF Pending
  <1>9. CASE Running(t) /\ Running(t)' /\ task'[t].entry.url = task[t].entry.url
    BY <1>3, <1>9 DEF Pending, Running
  <1>10. CASE WriteBack(t)
    BY <1>3, <1>10 DEF WriteBack
  <1>. QED
    BY <1>2, <1>3, <1>4, <1>5, <1>6, <1>7, <1>8, <1>9, <1>10 DEF TaskStep, Running

\* A rematch that wrote its copy of the entry back has queued a match.
LEMMA RematchPending ==
    ASSUME ScoreInv, RematchWrite, Calm, Calm', NEW u \in Urls, clearing.url = u,
           rows'[u] # NoRow /\ rows'[u].id = rows[u].id
    PROVE  Pending(u)'
  <1>1. HasId(u, clearing.id)
    BY DEF ScoreInv, HoldersLive, RematchWrite, Calm
  <1>2. SubmitTrackerMatch(clearing.id) /\ "lost" \notin mishaps'
    BY <1>1 DEF RematchWrite, Calm, Unremoved
  <1>3. PICK t \in Tasks :
            task' = [task EXCEPT ![t] = [IdleTask EXCEPT !.pc = "queued", !.id = clearing.id]]
    BY <1>2 DEF SubmitTrackerMatch, Lost
  <1>4. task'[t].pc = "queued" /\ task'[t].id = clearing.id
    BY <1>3 DEF ScoreInv, Table, TypeInv, TypeOK, IdleTask
  <1>. QED  BY <1>1, <1>4 DEF Pending, HasId

LEMMA ScoreBackedStep ==
    ASSUME ScoreInv, [Next]_vars PROVE ScoreBacked'
  <1>. SUFFICES ASSUME Calm', NEW u \in Urls, rows'[u] # NoRow, rows'[u].match = "scored"
                PROVE  Backed(u)' \/ Pending(u)'
    BY DEF ScoreBacked
  <1>0. TypeInv /\ Table /\ HoldersLive /\ ResultKept /\ ScoreBacked /\ Calm
    BY CalmStep DEF ScoreInv, Table
  <1>1. rows[u] # NoRow => rows'[u].id = rows[u].id
    BY <1>0, UnremovedStep DEF Calm
  <1>2. ScoreStep(u)
    BY <1>0, ScoresStep
  <1>3. CASE RematchWrite /\ clearing.url = u
    <2>1. rows[u] # NoRow
      BY <1>0, <1>3 DEF HoldersLive, Calm, RematchWrite, HasId
    <2>. QED  BY <1>0, <1>1, <1>3, <2>1, RematchPending
  <1>4. ASSUME NEW t \in Tasks, WriteBack(t), task[t].entry.url = u,
               task[t].entry.match = "scored", rows'[u].run = task[t].entry.run
        PROVE  Backed(u)'
    <2>1. /\ task[t].entry.run \in RunKeys /\ Indexed(u, task[t].entry.run)
          /\ "report" \in store[u][task[t].entry.run]
      BY <1>0, <1>4 DEF ResultKept, WriteBack
    <2>2. task[t].entry.run \in runs'[u] \/ "unindexed" \in mishaps'
      BY <1>0, <1>4, <2>1, MishapsGrow DEF Indexed, WriteBack, TypeInv
    <2>. QED  BY <1>4, <2>1, <2>2 DEF WriteBack, Backed, Indexed
  <1>5. CASE /\ rows[u] # NoRow /\ rows[u].match = "scored" /\ rows'[u].run = rows[u].run
             /\ ~\E t \in Tasks : WriteBack(t) /\ task[t].entry.url = u
    <2>1. CASE Pending(u)
      BY <1>5, <2>1, PendingStep
    <2>2. CASE Backed(u) /\ FolderKept(u)
      BY <1>5, <2>2 DEF Backed, FolderKept
    <2>3. ASSUME NEW t \in Tasks, WipeRun(t), task[t].entry.url = u PROVE Pending(u)
      BY <2>3 DEF WipeRun, Pending, Running
    <2>. QED  BY <1>0, <1>5, <2>1, <2>2, <2>3, FoldersKept DEF ScoreBacked, Calm
  <1>6. ASSUME NEW t \in Tasks, WriteBack(t), task[t].entry.url = u
        PROVE  task[t].entry.match = "scored" /\ rows'[u].run = task[t].entry.run
    <2>1. task[t].entry \in Row /\ UpsertTracker(task[t].entry)
      BY <1>0, <1>6 DEF WriteBack, TypeInv, Running
    <2>2. PICK r \in Row :
              /\ rows' = [rows EXCEPT ![task[t].entry.url] = r]
              /\ r.run = task[t].entry.run /\ r.match = task[t].entry.match
      BY <1>0, <2>1, UpsertRow DEF Table, TypeInv
    <2>. QED  BY <1>0, <1>6, <2>2 DEF TypeInv, TypeOK
  <1>. QED  BY <1>2, <1>3, <1>4, <1>5, <1>6 DEF ScoreStep

LEMMA InitScore == Init => ScoreInv
  <1>. SUFFICES ASSUME Init PROVE ScoreInv
    OBVIOUS
  <1>1. TypeInv
    BY InitType
  <1>2. Present = {} /\ IsFiniteSet(Present) /\ Cardinality(Present) = 0
    BY FS_EmptySet DEF Init, Present
  <1>3. CountsRows /\ KeyedByUrl
    BY <1>2 DEF Init, CountsRows, KeyedByUrl
  <1>4. \A t \in Tasks : task[t].pc = "free"
    BY DEF Init, IdleTask
  <1>5. HoldersLive /\ OneMatchPerUrl
    BY <1>4 DEF Init, HoldersLive, OneMatchPerUrl, Running
  <1>6. ResultKept /\ ScoreBacked
    BY <1>4 DEF Init, ResultKept, ScoreBacked
  <1>. QED  BY <1>1, <1>3, <1>5, <1>6 DEF ScoreInv, Table

LEMMA InductiveScore == ScoreInv /\ [Next]_vars => ScoreInv'
  <1>. SUFFICES ASSUME ScoreInv, [Next]_vars PROVE ScoreInv'
    OBVIOUS
  <1>1. Table'
    BY InductiveType, UnremovedStep DEF ScoreInv, Table
  <1>. QED
    BY <1>1, HoldersLiveStep, OneMatchStep, ResultKeptStep, ScoreBackedStep DEF ScoreInv

LEMMA ScoreInvImplies == ScoreInv => ReportBehindScore
  <1>. SUFFICES ASSUME ScoreInv, NEW u \in Urls, mishaps \subseteq {"unindexed"},
                       NothingRemoved, Quiet(u),
                       rows[u] # NoRow, rows[u].match = "scored"
                PROVE  /\ "report" \in store[u][rows[u].run]
                       /\ rows[u].run \in runs[u] \/ "unindexed" \in mishaps
    BY DEF ReportBehindScore
  <1>1. Calm
    BY DEF Calm, Unremoved, Quiet
  <1>2. ~Pending(u)
    BY DEF Pending, Quiet, Running
  <1>. QED  BY <1>1, <1>2 DEF ScoreInv, ScoreBacked, Backed, Indexed

\* With nothing lost, overlapped or deleted, whatever matches, rematches,
\* captures and re-adds of however many entries came between: once they are
\* over, an entry that shows a score has its report in the folder it names,
\* and its run in the index unless an index write failed (tracker.py,
\* run_match_for, tracker_add, tracker_rematch; orchestrator.py, _index_run).
THEOREM ReportsBehindScores == SafetySpec => []ReportBehindScore
  <1>. QED  BY InitScore, InductiveScore, ScoreInvImplies, PTL DEF SafetySpec

=============================================================================
