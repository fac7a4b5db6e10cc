------------------------- MODULE ProfileAgentProofs -------------------------
(* What TLAPS proves about ProfileAgent, for any facts, generations, edits  *)
(* and bounds.                                                              *)
EXTENDS ProfileAgent, SequenceTheorems, FiniteSetTheorems, TLAPS

-----------------------------------------------------------------------------
(* Types and control.                                                       *)

\* What a thread can be doing: who applies, undoes, asks or re-matches, what is
\* left to write then, and who may carry a stop.
Shape(t, a) ==
    /\ a.phase \in {"doc", "put"} /\ a.job \in {"apply", "undo"} => a.todo # <<>>
    /\ a.phase = "doc" \/ (a.phase = "put" /\ t \in Turns) => a.job \in {"apply", "undo"}
    /\ a.phase = "list" /\ a.todo # <<>> => a.job = "apply"
    /\ a.phase \in {"ask", "list", "doc", "rematch"} \/ a.dirty \/ a.job \in {"apply", "undo"} => t \in Turns
    /\ a.phase = "ask" \/ a.job = "undo" => t = "page"
    /\ a.phase = "put" => a.job # "none"
    /\ a.phase = "rematch" => t \in Gens
    /\ a.run.state = "stopped" => t # "page" /\ (a.job = "apply" => a.todo = <<>>)
    /\ a.dirty => a.phase \notin {"idle", "queued"}

\* A stopped conversation has nothing pending.
Quiet == run.state = "stopped" => run.pending = <<>>

Control ==
    /\ \A t \in Threads : Shape(t, at[t])
    /\ at["page"].phase # "idle" => says >= 1
    /\ Quiet

TypeInv == TypeOK /\ Control

LEMMA PageIsATurn == "page" \in Turns /\ "page" \in Threads /\ "page" \notin Gens /\ Turns \subseteq Threads
  BY ConstantsAssumption DEF Turns, Threads

LEMMA OthersAreNoTurns ==
    /\ "editor" \in Threads /\ "reader" \in Threads
    /\ "editor" \notin Turns /\ "reader" \notin Turns
  BY ConstantsAssumption DEF Turns, Threads

LEMMA EmptyType == Empty \in Documents /\ Empty.list \in Entries
  BY DEF Empty, Documents, Entries

LEMMA NewRunType == NewRun \in Runs /\ NewRun.state = "running"
  <1>1. <<>> \in Seq(Proposals) /\ <<>> \in Seq(Applied)
    OBVIOUS
  <1>2. 0 \in 0 .. MAX_TURNS
    BY ConstantsAssumption
  <1>. QED  BY <1>1, <1>2 DEF NewRun, Runs

LEMMA IdleType == Idle \in ThreadStates /\ \A t \in Threads : Shape(t, Idle)
  <1>1. <<>> \in Seq(Proposals)
    OBVIOUS
  <1>2. Idle \in ThreadStates
    BY <1>1, NewRunType, EmptyType DEF Idle, ThreadStates, Phases
  <1>3. ASSUME NEW t \in Threads PROVE Shape(t, Idle)
    BY NewRunType DEF Shape, Idle
  <1>. QED  BY <1>2, <1>3

\* Replacing what one thread does.
LEMMA ThreadMoves ==
    ASSUME TypeInv, NEW t \in Threads, NEW a \in ThreadStates, Shape(t, a),
           at' = [at EXCEPT ![t] = a]
    PROVE  /\ at' \in [Threads -> ThreadStates]
           /\ at'[t] = a
           /\ \A u \in Threads : u # t => at'[u] = at[u]
           /\ \A u \in Threads : Shape(u, at'[u])
  <1>1. /\ at' \in [Threads -> ThreadStates]
        /\ at'[t] = a
        /\ \A u \in Threads : u # t => at'[u] = at[u]
    BY DEF TypeInv, TypeOK
  <1>2. ASSUME NEW u \in Threads PROVE Shape(u, at'[u])
    <2>1. CASE u = t
      BY <1>1, <2>1
    <2>2. CASE u # t
      BY <1>1, <2>2 DEF TypeInv, Control
    <2>. QED  BY <2>1, <2>2
  <1>. QED  BY <1>1, <1>2

LEMMA AtType == ASSUME TypeInv, NEW t \in Threads
                PROVE  at[t] \in ThreadStates /\ Shape(t, at[t])
  BY DEF TypeInv, TypeOK, Control

LEMMA LoadedType == ASSUME TypeInv
                    PROVE  /\ Loaded \in Documents
                           /\ <<Loaded>> \in Seq(Documents) /\ Len(<<Loaded>>) = 1
  <1>1. ASSUME cached # <<>> PROVE cached[1] \in Documents
    BY <1>1, ElementOfSeq, EmptySeq DEF TypeInv, TypeOK
  <1>2. Loaded \in Documents
    BY <1>1 DEF Loaded, TypeInv, TypeOK
  <1>. QED  BY <1>2

LEMMA MishapsType ==
    ASSUME TypeInv, NEW c1 \in BOOLEAN, NEW c2 \in BOOLEAN
    PROVE  /\ mishaps \cup If(c1, "raced") \subseteq {"raced", "broken", "elsewhere", "reverted"}
           /\ mishaps \cup If(c1, "broken") \subseteq {"raced", "broken", "elsewhere", "reverted"}
           /\ mishaps \cup If(c1, "elsewhere") \subseteq {"raced", "broken", "elsewhere", "reverted"}
           /\ mishaps \cup If(c1, "raced") \cup If(c2, "reverted")
                 \subseteq {"raced", "broken", "elsewhere", "reverted"}
  BY DEF TypeInv, TypeOK, If

LEMMA InitInv == Init => TypeInv
  <1>. SUFFICES ASSUME Init PROVE TypeInv
    OBVIOUS
  <1>1. \A t \in Threads : at[t] = Idle
    BY DEF Init
  <1>2. says \in 0 .. MaxSays /\ failures \in 0 .. MaxMishaps
    BY ConstantsAssumption DEF Init
  <1>3. NoneGiven \in [list : Entries, before : SUBSET Proposals]
    BY EmptyType DEF NoneGiven
  <1>4. TypeOK
    BY <1>2, <1>3, IdleType, EmptyType, NewRunType DEF Init, TypeOK
  <1>5. Control
    BY <1>1, IdleType, NewRunType, PageIsATurn DEF Control, Quiet, Init, Idle
  <1>. QED  BY <1>4, <1>5 DEF TypeInv

-----------------------------------------------------------------------------
(* Types of the steps.                                                      *)

\* The parts of the state that are not about threads.
Base ==
    /\ doc \in Documents /\ meant \in Documents
    /\ cached \in Seq(Documents) /\ Len(cached) <= 1
    /\ failures \in 0 .. MaxMishaps
    /\ stored \subseteq Proposals
    /\ given \in [list : Entries, before : SUBSET Proposals]

Mishaps == mishaps \subseteq {"raced", "broken", "elsewhere", "reverted"}

LEMMA BaseKept ==
    ASSUME TypeInv, UNCHANGED <<doc, meant, cached, failures, stored, given>> PROVE Base'
  BY DEF TypeInv, TypeOK, Base

LEMMA FailsType == ASSUME TypeInv, Fails PROVE failures' \in 0 .. MaxMishaps
  BY ConstantsAssumption DEF TypeInv, TypeOK, Fails

LEMMA SaysType == ASSUME TypeInv, Says PROVE says' \in 0 .. MaxSays /\ says' >= 1
  BY ConstantsAssumption DEF TypeInv, TypeOK, Says

LEMMA LoadType == ASSUME TypeInv, NEW t \in Threads, Load(t) PROVE Mishaps' /\ run' = run
  BY MishapsType DEF Load, Mishaps

LEMMA SaveType ==
    ASSUME TypeInv, NEW t \in Threads, NEW r, Save(t, r) PROVE Mishaps' /\ run' = r
  BY MishapsType DEF Save, Mishaps

LEMMA BreakOffType ==
    ASSUME TypeInv, NEW t \in Threads, BreakOff(t)
    PROVE  Mishaps' /\ run' = run /\ at' = [at EXCEPT ![t] = Idle]
  BY MishapsType, AtType DEF BreakOff, Mishaps, ThreadStates

\* A step of one thread keeps types and control.
LEMMA ThreadStep ==
    ASSUME TypeInv, NEW t \in Threads, NEW a \in ThreadStates, Shape(t, a),
           at' = [at EXCEPT ![t] = a],
           Base', Mishaps', run' \in Runs, says' \in 0 .. MaxSays, says' >= says,
           a.phase # "idle" /\ t = "page" => says' >= 1,
           Quiet'
    PROVE  TypeInv'
  <1>1. TypeOK'
    BY ThreadMoves DEF TypeOK, Base, Mishaps
  <1>2. \A u \in Threads : Shape(u, at'[u])
    BY ThreadMoves
  <1>3. at["page"].phase # "idle" => says >= 1
    BY DEF TypeInv, Control
  <1>4. says \in Nat /\ says' \in Nat
    BY ConstantsAssumption DEF TypeInv, TypeOK
  <1>5. at'["page"].phase # "idle" => says' >= 1
    <2>1. CASE t = "page"
      BY <2>1, ThreadMoves
    <2>2. CASE t # "page"
      BY <1>3, <1>4, <2>2, ThreadMoves, PageIsATurn
    <2>. QED  BY <2>1, <2>2
  <1>. QED  BY <1>1, <1>2, <1>5 DEF TypeInv, Control

\* A step of the conversation alone.
LEMMA RunStep ==
    ASSUME TypeInv, UNCHANGED at, Base', Mishaps', run' \in Runs,
           says' \in 0 .. MaxSays, says' >= says, Quiet'
    PROVE  TypeInv'
  <1>1. says \in Nat /\ says' \in Nat
    BY ConstantsAssumption DEF TypeInv, TypeOK
  <1>. QED  BY <1>1 DEF TypeInv, TypeOK, Control, Base, Mishaps, Quiet

\* The conversation with other fields.
LEMMA RunFields ==
    ASSUME NEW r \in Runs
    PROVE  /\ r.pending \in Seq(Proposals) /\ r.applied \in Seq(Applied) /\ r.turns \in 0 .. MAX_TURNS
           /\ \A s \in {"running", "done", "stopped"} :
                 /\ [r EXCEPT !.state = s] \in Runs /\ [r EXCEPT !.state = s].state = s
                 /\ [r EXCEPT !.state = s].applied = r.applied
                 /\ [r EXCEPT !.state = s].pending = r.pending
           /\ \A q \in Seq(Proposals) :
                 /\ [r EXCEPT !.pending = q] \in Runs /\ [r EXCEPT !.pending = q].pending = q
                 /\ [r EXCEPT !.pending = q].state = r.state
                 /\ [r EXCEPT !.pending = q].applied = r.applied
           /\ \A q \in Seq(Applied) :
                 /\ [r EXCEPT !.applied = q] \in Runs /\ [r EXCEPT !.applied = q].applied = q
                 /\ [r EXCEPT !.applied = q].state = r.state
                 /\ [r EXCEPT !.applied = q].pending = r.pending
  BY DEF Runs

\* One more turn, below the cap.
OneMore(r) == [r EXCEPT !.turns = r.turns + 1]

LEMMA OneMoreType ==
    ASSUME NEW r \in Runs, cap_status(r)
    PROVE  /\ OneMore(r) \in Runs
           /\ OneMore(r).state = r.state /\ OneMore(r).applied = r.applied
           /\ OneMore(r).pending = r.pending
  <1>. DEFINE n == r.turns + 1
  <1>1. n \in 0 .. MAX_TURNS
    BY ConstantsAssumption DEF cap_status, Runs
  <1>2. OneMore(r) = [r EXCEPT !.turns = n]
    BY DEF OneMore
  <1>. HIDE DEF n
  <1>. QED  BY <1>1, <1>2 DEF Runs

LEMMA RunType == ASSUME TypeInv PROVE run \in Runs /\ Quiet
  BY DEF TypeInv, TypeOK, Control

LEMMA Nothing == <<>> \in Seq(Proposals)
  OBVIOUS

LEMMA TellType == ASSUME TypeInv, Tell PROVE TypeInv'
  <1>. DEFINE a == [Idle EXCEPT !.phase = "ask", !.run = OneMore(run)]
  <1>1. Base'
    BY BaseKept DEF Tell, Says
  <1>2. says' \in 0 .. MaxSays /\ says' >= 1 /\ says' >= says
    BY SaysType, ConstantsAssumption DEF Tell, Says, TypeInv, TypeOK
  <1>3. run \in Runs /\ run.state # "stopped"
    BY RunType DEF Tell, Says, Over
  <1>4. CASE cap_status(run) /\ at' = [at EXCEPT !["page"] = a] /\ Load("page")
    <2>1. OneMore(run) \in Runs /\ OneMore(run).state = run.state
      BY <1>3, <1>4, OneMoreType
    <2>2. a \in ThreadStates
      BY <2>1, IdleType DEF ThreadStates, Phases
    <2>3. Shape("page", a)
      BY <1>3, <2>1, PageIsATurn DEF Shape, Idle
    <2>4. Mishaps' /\ run' = run
      BY <1>4, LoadType, PageIsATurn
    <2>. HIDE DEF a
    <2>. QED  BY <1>1, <1>2, <1>3, <1>4, <2>2, <2>3, <2>4, ThreadStep, PageIsATurn DEF Quiet
  <1>5. CASE Save("page", [run EXCEPT !.state = "done"]) /\ UNCHANGED at
    <2>1. Mishaps' /\ run' = [run EXCEPT !.state = "done"]
      BY <1>5, SaveType, PageIsATurn
    <2>2. run' \in Runs /\ run'.state = "done"
      BY <1>3, <2>1, RunFields
    <2>. QED  BY <1>1, <1>2, <1>5, <2>1, <2>2, RunStep DEF Quiet
  <1>. QED  BY <1>4, <1>5 DEF Tell, OneMore

LEMMA YesType == ASSUME TypeInv, Yes PROVE TypeInv'
  <1>1. PICK more \in BOOLEAN :
          at' = [at EXCEPT !["page"] = [Idle EXCEPT !.phase = "list", !.run = run, !.more = more,
                                                    !.todo = run.pending, !.job = "apply"]]
    BY DEF Yes
  <1>. DEFINE a == [Idle EXCEPT !.phase = "list", !.run = run, !.more = more,
                                !.todo = run.pending, !.job = "apply"]
  <1>2. Base'
    BY BaseKept DEF Yes, Says
  <1>3. says' \in 0 .. MaxSays /\ says' >= 1 /\ says' >= says
    BY SaysType, ConstantsAssumption DEF Yes, Says, TypeInv, TypeOK
  <1>4. run \in Runs /\ run.state # "stopped" /\ run.pending \in Seq(Proposals)
    BY RunType, RunFields DEF Yes, Says, Over
  <1>5. a \in ThreadStates
    BY <1>4, IdleType DEF ThreadStates, Phases
  <1>6. Shape("page", a)
    BY <1>4, PageIsATurn DEF Shape, Idle
  <1>7. Mishaps' /\ run' = run
    BY LoadType, PageIsATurn DEF Yes
  <1>. HIDE DEF a
  <1>. QED  BY <1>1, <1>2, <1>3, <1>4, <1>5, <1>6, <1>7, ThreadStep, PageIsATurn DEF Quiet, a

\* A command that only saves the conversation.
LEMMA SavedType ==
    ASSUME TypeInv, UNCHANGED at, Base', says' \in 0 .. MaxSays, says' >= says,
           NEW r \in Runs, Save("page", r),
           r.state = "stopped" => r.pending = <<>>
    PROVE  TypeInv'
  <1>1. Mishaps' /\ run' = r
    BY SaveType, PageIsATurn
  <1>. QED  BY <1>1, RunStep DEF Quiet

LEMMA CommandType == ASSUME TypeInv, Skip \/ Done \/ StopMessage PROVE TypeInv'
  <1>1. Base' /\ UNCHANGED at
    BY BaseKept DEF Skip, Done, StopMessage, Says
  <1>2. says' \in 0 .. MaxSays /\ says' >= says
    BY SaysType, ConstantsAssumption DEF Skip, Done, StopMessage, Says, TypeInv, TypeOK
  <1>3. run \in Runs /\ ~Over(run)
    BY RunType DEF Skip, Done, StopMessage, Says
  <1>4. CASE Skip
    <2>. DEFINE r == [run EXCEPT !.pending = <<>>]
    <2>1. r \in Runs /\ r.pending = <<>>
      BY <1>3, Nothing DEF Runs
    <2>2. Save("page", r)
      BY <1>4 DEF Skip
    <2>. HIDE DEF r
    <2>. QED  BY <1>1, <1>2, <2>1, <2>2, SavedType
  <1>5. CASE Done
    <2>. DEFINE r == [run EXCEPT !.state = "done"]
    <2>1. r \in Runs /\ r.state = "done"
      BY <1>3, RunFields
    <2>2. Save("page", r)
      BY <1>5 DEF Done
    <2>. HIDE DEF r
    <2>. QED  BY <1>1, <1>2, <2>1, <2>2, SavedType
  <1>6. CASE StopMessage
    <2>. DEFINE r == [run EXCEPT !.state = "stopped", !.pending = <<>>]
    <2>1. r \in Runs /\ r.pending = <<>>
      BY <1>3, Nothing DEF Runs
    <2>2. Save("page", r)
      BY <1>6 DEF StopMessage
    <2>. HIDE DEF r
    <2>. QED  BY <1>1, <1>2, <2>1, <2>2, SavedType
  <1>. QED  BY <1>4, <1>5, <1>6

LEMMA StopType == ASSUME TypeInv, Stop PROVE TypeInv'
  <1>. DEFINE r == [run EXCEPT !.state = "stopped", !.pending = <<>>]
  <1>1. r \in Runs /\ r.pending = <<>>
    BY RunType, Nothing DEF Runs
  <1>2. Base' /\ UNCHANGED <<at, says, mishaps>> /\ run' = r
    BY BaseKept DEF Stop
  <1>3. Mishaps' /\ says' \in 0 .. MaxSays /\ says' >= says
    BY <1>2, ConstantsAssumption DEF Mishaps, TypeInv, TypeOK
  <1>. HIDE DEF r
  <1>. QED  BY <1>1, <1>2, <1>3, RunStep DEF Quiet

LEMMA GenerateType == ASSUME TypeInv, Generate PROVE TypeInv'
  <1>1. PICK g \in Gens : at' = [at EXCEPT ![g] = [Idle EXCEPT !.phase = "queued"]]
    BY DEF Generate
  <1>. DEFINE a == [Idle EXCEPT !.phase = "queued"]
              r == [run EXCEPT !.state = "running"]
  <1>2. g \in Threads /\ g # "page"
    BY PageIsATurn DEF Turns
  <1>3. Base'
    BY BaseKept DEF Generate, Says
  <1>4. says' \in 0 .. MaxSays /\ says' >= 1 /\ says' >= says
    BY SaysType, ConstantsAssumption DEF Generate, Says, TypeInv, TypeOK
  <1>5. r \in Runs /\ r.state = "running"
    BY RunType, RunFields
  <1>6. a \in ThreadStates
    BY IdleType DEF ThreadStates, Phases
  <1>7. Shape(g, a)
    BY NewRunType DEF Shape, Idle
  <1>8. Save("page", r)
    BY DEF Generate
  <1>. HIDE DEF a, r
  <1>9. Mishaps' /\ run' = r
    BY <1>8, SaveType, PageIsATurn
  <1>. QED  BY <1>1, <1>2, <1>3, <1>4, <1>5, <1>6, <1>7, <1>9, ThreadStep DEF Quiet, a

\* undo takes the last applied write off the conversation.
Undone(r) == [r EXCEPT !.applied = SubSeq(r.applied, 1, Len(r.applied) - 1)]

LEMMA LastApplied ==
    ASSUME NEW r \in Runs, r.applied # <<>>
    PROVE  /\ r.applied[Len(r.applied)] \in Applied
           /\ Undone(r) \in Runs /\ Undone(r).state = r.state /\ Undone(r).pending = r.pending
           /\ Undone(r).applied = SubSeq(r.applied, 1, Len(r.applied) - 1)
  <1>. DEFINE s == r.applied
  <1>0. s \in Seq(Applied) /\ s # <<>>
    BY RunFields
  <1>1. s \in Seq(Applied) /\ Len(s) \in Nat /\ Len(s) >= 1
    BY <1>0, EmptySeq
  <1>2. s[Len(s)] \in Applied
    BY <1>1, ElementOfSeq
  <1>3. SubSeq(s, 1, Len(s) - 1) \in Seq(Applied)
    BY <1>1, <1>2, SubSeqProperties
  <1>. QED  BY <1>2, <1>3, RunFields DEF Undone

LEMMA UndoType == ASSUME TypeInv, Undo PROVE TypeInv'
  <1>. DEFINE last == run.applied[Len(run.applied)]
              a == [Idle EXCEPT !.phase = "doc", !.job = "undo", !.old = last.old, !.todo = <<last.by>>,
                                !.run = Undone(run)]
  <1>1. at' = [at EXCEPT !["page"] = a]
    BY DEF Undo, Undone
  <1>2. Base'
    BY BaseKept DEF Undo, Says
  <1>3. says' \in 0 .. MaxSays /\ says' >= 1 /\ says' >= says
    BY SaysType, ConstantsAssumption DEF Undo, Says, TypeInv, TypeOK
  <1>4. run \in Runs /\ run.state # "stopped" /\ run.applied # <<>>
    BY RunType DEF Undo, Says, Over
  <1>5. last \in Applied /\ Undone(run) \in Runs /\ Undone(run).state = run.state
    BY <1>4, LastApplied
  <1>. HIDE DEF last
  <1>6. last.old \in Entries /\ <<last.by>> \in Seq(Proposals) /\ <<last.by>> # <<>>
    BY <1>5 DEF Applied
  <1>7. a \in ThreadStates
    BY <1>5, <1>6, IdleType DEF ThreadStates, Phases
  <1>8. Shape("page", a)
    BY <1>4, <1>5, <1>6, PageIsATurn DEF Shape, Idle
  <1>9. Mishaps' /\ run' = run
    BY LoadType, PageIsATurn DEF Undo
  <1>. HIDE DEF a
  <1>. QED  BY <1>1, <1>2, <1>3, <1>4, <1>7, <1>8, <1>9, ThreadStep, PageIsATurn DEF Quiet

\* A step after which the thread is idle again.
LEMMA IdleStep ==
    ASSUME TypeInv, NEW t \in Threads, at' = [at EXCEPT ![t] = Idle], Base', Mishaps', says' = says,
           run' \in Runs, Quiet'
    PROVE  TypeInv'
  <1>1. says \in 0 .. MaxSays /\ says' >= says
    BY ConstantsAssumption DEF TypeInv, TypeOK
  <1>2. Idle.phase = "idle"
    BY DEF Idle
  <1>. QED  BY <1>1, <1>2, IdleType, ThreadStep

\* Ending a turn of thread t leaves a quiet conversation quiet.
LEMMA IdleIsQuiet ==
    ASSUME TypeInv, NEW t \in Threads, at' = [at EXCEPT ![t] = Idle],
           run' = run \/ (run'.state # "stopped")
    PROVE  Quiet'
  <1>1. at'["page"] = IF t = "page" THEN Idle ELSE at["page"]
    BY PageIsATurn DEF TypeInv, TypeOK
  <1>. QED  BY <1>1, RunType DEF Quiet, Idle

LEMMA AnswerType == ASSUME TypeInv, Answer PROVE TypeInv'
  <1>. DEFINE this == at["page"].run
              queue(n, value) == [i \in 1 .. n |-> [say |-> says, value |-> value[i]]]
  <1>1. PICK n \in 0 .. MaxBatch : \E value \in [1 .. n -> Facts] : Save("page", [this EXCEPT !.pending = queue(n, value)])
    BY DEF Answer
  <1>2. PICK value \in [1 .. n -> Facts] : Save("page", [this EXCEPT !.pending = queue(n, value)])
    BY <1>1
  <1>3. this \in Runs /\ this.state # "stopped"
    BY AtType, PageIsATurn DEF ThreadStates, Shape
  <1>4. says \in 1 .. MaxSays
    BY ConstantsAssumption DEF Answer, TypeInv, TypeOK, Control
  <1>5. queue(n, value) \in Seq(Proposals)
    <2>1. n \in Nat
      BY ConstantsAssumption
    <2>2. \A i \in 1 .. n : [say |-> says, value |-> value[i]] \in Proposals
      BY <1>4 DEF Proposals
    <2>. QED  BY <2>1, <2>2
  <1>. HIDE DEF queue, this
  <1>. DEFINE r == [this EXCEPT !.pending = queue(n, value)]
  <1>6. r \in Runs /\ r.state # "stopped"
    BY <1>3, <1>5, RunFields
  <1>7. Save("page", r)
    BY <1>2
  <1>. HIDE DEF r
  <1>8. Mishaps' /\ run' = r
    BY <1>7, SaveType, PageIsATurn
  <1>9. Base' /\ says' = says /\ at' = [at EXCEPT !["page"] = Idle]
    BY BaseKept DEF Answer
  <1>. QED  BY <1>6, <1>8, <1>9, IdleIsQuiet, IdleStep, PageIsATurn

LEMMA BreakOffStepType ==
    ASSUME TypeInv, AnswerFails \/ \E g \in Gens : RematchFails(g) PROVE TypeInv'
  <1>1. PICK t \in Threads : BreakOff(t)
    BY PageIsATurn DEF AnswerFails, RematchFails, Turns
  <1>2. Fails /\ UNCHANGED <<doc, cached, says, stored, meant, given>>
    BY DEF AnswerFails, RematchFails
  <1>3. Base' /\ says' = says
    BY <1>2, FailsType DEF Base, TypeInv, TypeOK
  <1>4. Mishaps' /\ run' = run /\ at' = [at EXCEPT ![t] = Idle] /\ run' \in Runs
    BY <1>1, BreakOffType, RunType
  <1>. QED  BY <1>3, <1>4, IdleIsQuiet, IdleStep

LEMMA GenStartType == ASSUME TypeInv, NEW g \in Gens, GenStart(g) PROVE TypeInv'
  <1>. DEFINE a == [Idle EXCEPT !.phase = "list", !.run = run, !.todo = run.pending, !.job = "apply"]
  <1>1. g \in Threads /\ g \in Turns /\ g # "page"
    BY PageIsATurn DEF Turns
  <1>2. run \in Runs /\ Quiet /\ run.pending \in Seq(Proposals)
    BY RunType, RunFields
  <1>3. a \in ThreadStates
    BY <1>2, IdleType DEF ThreadStates, Phases
  <1>4. Shape(g, a)
    BY <1>1, <1>2 DEF Shape, Idle, Quiet
  <1>5. Base' /\ says' \in 0 .. MaxSays /\ says' >= says
    BY BaseKept, ConstantsAssumption DEF GenStart, TypeInv, TypeOK
  <1>6. at' = [at EXCEPT ![g] = a] /\ Load(g)
    BY DEF GenStart
  <1>. HIDE DEF a
  <1>7. Mishaps' /\ run' = run
    BY <1>1, <1>6, LoadType
  <1>8. Quiet'
    BY <1>1, <1>2, <1>6, <1>7, PageIsATurn DEF Quiet, TypeInv, TypeOK
  <1>. QED  BY <1>1, <1>2, <1>3, <1>4, <1>5, <1>6, <1>7, <1>8, ThreadStep

\* What a turn still has to write.
LEMMA TodoType ==
    ASSUME NEW s \in Seq(Proposals), s # <<>>
    PROVE  /\ Head(s) \in Proposals /\ Head(s).value \in Facts /\ Head(s).say \in 1 .. MaxSays
           /\ Tail(s) \in Seq(Proposals)
  <1>1. Head(s) \in Proposals /\ Tail(s) \in Seq(Proposals)
    BY HeadTailProperties
  <1>. QED  BY <1>1 DEF Proposals

LEMMA ThreadFields ==
    ASSUME NEW a \in ThreadStates
    PROVE  /\ a.phase \in Phases /\ a.run \in Runs /\ a.todo \in Seq(Proposals)
           /\ a.job \in {"none", "apply", "undo", "field", "list", "seed"}
           /\ a.copy \in Documents /\ a.old \in Entries /\ a.more \in BOOLEAN /\ a.dirty \in BOOLEAN
  BY DEF ThreadStates

\* A step of a thread that leaves the conversation and the messages alone.
LEMMA SilentStep ==
    ASSUME TypeInv, NEW t \in Threads, NEW a \in ThreadStates, Shape(t, a),
           at' = [at EXCEPT ![t] = a], UNCHANGED <<run, says>>,
           Base', Mishaps', at[t].phase # "idle" \/ a.phase = "idle" \/ t # "page"
    PROVE  TypeInv'
  <1>1. says' \in 0 .. MaxSays /\ says' >= says
    BY ConstantsAssumption DEF TypeInv, TypeOK
  <1>2. a.phase # "idle" /\ t = "page" => says' >= 1
    BY DEF TypeInv, Control
  <1>3. at'["page"] = IF t = "page" THEN a ELSE at["page"]
    BY PageIsATurn DEF TypeInv, TypeOK
  <1>4. Quiet'
    BY <1>3, RunType DEF Quiet
  <1>. QED  BY <1>1, <1>2, <1>4, RunType, ThreadStep

LEMMA ReadListType == ASSUME TypeInv, NEW t \in Threads, ReadList(t) PROVE TypeInv'
  <1>. DEFINE a == at[t]
              skipped == [a EXCEPT !.todo = Tail(a.todo)]
              chosen == [a EXCEPT !.phase = "doc", !.old = Loaded.list]
  <1>1. a \in ThreadStates /\ Shape(t, a) /\ a.phase = "list" /\ a.todo # <<>>
    BY AtType DEF ReadList
  <1>2. a.todo \in Seq(Proposals) /\ Tail(a.todo) \in Seq(Proposals)
    BY <1>1, ThreadFields, TodoType
  <1>3. at' = [at EXCEPT ![t] = skipped] \/ at' = [at EXCEPT ![t] = chosen]
    <2>. DEFINE there == Head(at[t].todo).value \in Projects /\ Loaded.list[Head(at[t].todo).value] > 0
    <2>1. CASE there
      BY <2>1 DEF ReadList
    <2>2. CASE ~there
      BY <2>2 DEF ReadList
    <2>. QED  BY <2>1, <2>2
  <1>4. cached' = <<Loaded>> /\ Loaded \in Documents /\ Loaded.list \in Entries
    BY LoadedType DEF ReadList, LoadCaches, Documents
  <1>5. Base' /\ Mishaps' /\ UNCHANGED <<run, says>>
    BY <1>4, LoadedType DEF ReadList, Base, Mishaps, TypeInv, TypeOK
  <1>. HIDE DEF a
  <1>6. skipped \in ThreadStates /\ Shape(t, skipped)
    <2>. DEFINE rest == Tail(a.todo)
    <2>1. rest \in Seq(Proposals)
      BY <1>2
    <2>2. skipped = [a EXCEPT !.todo = rest]
      BY <1>1 DEF ThreadStates
    <2>. HIDE DEF rest, skipped
    <2>3. skipped \in ThreadStates
      BY <1>1, <2>1, <2>2 DEF ThreadStates
    <2>4. /\ skipped.phase = "list" /\ skipped.job = a.job /\ skipped.dirty = a.dirty
          /\ skipped.run = a.run
      BY <1>1, <2>2 DEF ThreadStates
    <2>. QED  BY <1>1, <2>3, <2>4 DEF Shape
  <1>7. chosen \in ThreadStates /\ Shape(t, chosen)
    <2>1. chosen \in ThreadStates
      BY <1>1, <1>4 DEF ThreadStates, Phases
    <2>2. /\ chosen.phase = "doc" /\ chosen.job = a.job /\ chosen.dirty = a.dirty
          /\ chosen.run = a.run /\ chosen.todo = a.todo
      BY <1>1 DEF ThreadStates
    <2>. QED  BY <1>1, <2>1, <2>2 DEF Shape
  <1>. HIDE DEF skipped, chosen
  <1>. QED  BY <1>1, <1>3, <1>5, <1>6, <1>7, SilentStep DEF a

LEMMA ChangedType ==
    ASSUME TypeInv, NEW t \in Threads, at[t].phase = "doc" PROVE Changed(t) \in Documents
  <1>1. at[t] \in ThreadStates /\ at[t].old \in Entries /\ at[t].todo # <<>>
    BY AtType, ThreadFields DEF Shape
  <1>2. Head(at[t].todo).value \in Facts
    BY <1>1, ThreadFields, TodoType
  <1>3. [at[t].old EXCEPT ![Head(at[t].todo).value] = @ + 1] \in Entries
    BY <1>1, <1>2 DEF Entries
  <1>. QED  BY <1>1, <1>3, LoadedType DEF Changed, Documents

LEMMA ReadDocType == ASSUME TypeInv, NEW t \in Threads, ReadDoc(t) PROVE TypeInv'
  <1>. DEFINE a == at[t]
              b == [a EXCEPT !.phase = "put", !.copy = Changed(t)]
  <1>1. a \in ThreadStates /\ Shape(t, a) /\ a.phase = "doc" /\ Changed(t) \in Documents
    BY AtType, ChangedType DEF ReadDoc
  <1>2. at' = [at EXCEPT ![t] = b]
    BY <1>1 DEF ReadDoc, TypeInv, TypeOK
  <1>3. Base' /\ Mishaps' /\ UNCHANGED <<run, says>>
    BY LoadedType DEF ReadDoc, LoadCaches, Base, Mishaps, TypeInv, TypeOK
  <1>. HIDE DEF a
  <1>4. b \in ThreadStates
    BY <1>1 DEF ThreadStates, Phases
  <1>5. /\ b.phase = "put" /\ b.job = a.job /\ b.dirty = a.dirty /\ b.run = a.run
        /\ b.todo = a.todo
    BY <1>1 DEF ThreadStates
  <1>. HIDE DEF b
  <1>6. Shape(t, b)
    BY <1>1, <1>5 DEF Shape
  <1>. QED  BY <1>1, <1>2, <1>3, <1>4, <1>6, SilentStep DEF a

\* What follows a write of thread t.
LEMMA AfterType ==
    ASSUME TypeInv, NEW t \in Threads, at[t].phase = "put", NEW ok \in BOOLEAN, NEW wrote \in BOOLEAN, ok => wrote
    PROVE  /\ After(t, ok, wrote) \in ThreadStates /\ Shape(t, After(t, ok, wrote))
           /\ at[t].job = "apply" =>
                 /\ After(t, ok, wrote).phase = "list" /\ After(t, ok, wrote).todo = Tail(at[t].todo)
                 /\ After(t, ok, wrote).job = "apply" /\ After(t, ok, wrote).dirty = (at[t].dirty \/ wrote)
                 /\ After(t, ok, wrote).run.pending = at[t].run.pending
                 /\ After(t, ok, wrote).run.applied =
                       IF ok THEN Append(at[t].run.applied, [by |-> Head(at[t].todo), old |-> at[t].old])
                       ELSE at[t].run.applied
           /\ at[t].job = "undo" /\ ok =>
                 /\ After(t, ok, wrote).phase = "list" /\ After(t, ok, wrote).todo = <<>> /\ After(t, ok, wrote).dirty
                 /\ After(t, ok, wrote).job = "undo"
                 /\ After(t, ok, wrote).run = at[t].run
           /\ at[t].job # "apply" /\ (at[t].job # "undo" \/ ~ok) => After(t, ok, wrote) = Idle
  <1>. DEFINE a == at[t]
              done == Append(a.run.applied, [by |-> Head(a.todo), old |-> a.old])
              r == IF ok THEN [a.run EXCEPT !.applied = done] ELSE a.run
              rest == Tail(a.todo)
              dirty == a.dirty \/ wrote
  <1>1. a \in ThreadStates /\ Shape(t, a) /\ a.phase = "put"
    BY AtType
  <1>2. /\ a.run \in Runs /\ a.run.applied \in Seq(Applied) /\ a.old \in Entries
        /\ a.todo \in Seq(Proposals) /\ a.dirty \in BOOLEAN
    BY <1>1, ThreadFields, RunFields
  <1>3. CASE a.job = "apply"
    <2>. DEFINE b == [a EXCEPT !.phase = "list", !.todo = rest, !.dirty = dirty, !.run = r]
    <2>1. a.todo # <<>> /\ t \in Turns /\ (a.run.state = "stopped" => FALSE)
      BY <1>1, <1>3 DEF Shape
    <2>2. Head(a.todo) \in Proposals /\ rest \in Seq(Proposals)
      BY <1>2, <2>1, TodoType
    <2>3. [by |-> Head(a.todo), old |-> a.old] \in Applied
      BY <1>2, <2>2 DEF Applied
    <2>4. done \in Seq(Applied)
      BY <1>2, <2>3
    <2>5. /\ r \in Runs /\ r.state = a.run.state /\ r.pending = a.run.pending
          /\ r.applied = IF ok THEN done ELSE a.run.applied
      <3>. HIDE DEF done
      <3>1. CASE ok
        BY <1>2, <2>4, <3>1 DEF Runs
      <3>2. CASE ~ok
        BY <1>2, <3>2
      <3>. QED  BY <3>1, <3>2
    <2>6. After(t, ok, wrote) = b
      BY <1>3 DEF After
    <2>7. dirty \in BOOLEAN
      BY <1>2
    <2>. HIDE DEF r, rest, dirty
    <2>8. b \in ThreadStates
      BY <1>1, <2>2, <2>5, <2>7 DEF ThreadStates, Phases
    <2>9. /\ b.phase = "list" /\ b.todo = rest /\ b.job = "apply" /\ b.dirty = dirty /\ b.run = r
      BY <1>1, <1>3 DEF ThreadStates
    <2>. HIDE DEF b
    <2>10. Shape(t, b)
      BY <1>1, <2>1, <2>5, <2>9 DEF Shape
    <2>. QED  BY <1>3, <2>5, <2>6, <2>8, <2>9, <2>10 DEF rest, dirty
  <1>4. CASE a.job = "undo" /\ ok
    <2>. DEFINE b == [a EXCEPT !.phase = "list", !.todo = <<>>, !.dirty = TRUE]
    <2>1. After(t, ok, wrote) = b
      BY <1>4 DEF After
    <2>2. b \in ThreadStates
      BY <1>1, Nothing DEF ThreadStates, Phases
    <2>3. b.phase = "list" /\ b.todo = <<>> /\ b.dirty /\ b.run = a.run /\ b.job = a.job
      BY <1>1 DEF ThreadStates
    <2>. HIDE DEF b
    <2>4. Shape(t, b)
      BY <1>1, <1>4, <2>3 DEF Shape
    <2>. QED  BY <1>4, <2>1, <2>2, <2>3, <2>4
  <1>5. CASE a.job # "apply" /\ (a.job # "undo" \/ ~ok)
    <2>1. After(t, ok, wrote) = Idle
      BY <1>5 DEF After
    <2>. QED  BY <1>5, <2>1, IdleType
  <1>. QED  BY <1>3, <1>4, <1>5

LEMMA MeantType ==
    ASSUME TypeInv, NEW t \in Threads, at[t].phase = "put", doc' \in Documents
    PROVE  Meant(t) \in Documents
  <1>. DEFINE v == Head(at[t].todo).value
  <1>1. meant \in Documents /\ at[t].copy \in Documents
    BY AtType, ThreadFields DEF TypeInv, TypeOK
  <1>2. CASE mishaps # {}
    BY <1>2 DEF Meant
  <1>3. CASE mishaps = {} /\ at[t].job \in {"apply", "undo"}
    <2>1. at[t].todo # <<>> /\ at[t].todo \in Seq(Proposals)
      BY <1>3, AtType, ThreadFields DEF Shape
    <2>2. v \in Facts
      BY <2>1, TodoType
    <2>. HIDE DEF v
    <2>3. /\ [meant EXCEPT !.list[v] = @ + 1] \in Documents
          /\ [meant EXCEPT !.list[v] = IF @ > 0 THEN @ - 1 ELSE 0] \in Documents
      BY <1>1, <2>2 DEF Documents, Entries
    <2>. QED  BY <1>3, <2>3 DEF Meant, v
  <1>4. CASE mishaps = {} /\ at[t].job \notin {"apply", "undo"}
    <2>1. [meant EXCEPT !.field = at[t].copy.field] \in Documents /\ [meant EXCEPT !.list = at[t].copy.list] \in Documents
      BY <1>1 DEF Documents
    <2>. QED  BY <1>1, <1>4, <2>1 DEF Meant
  <1>. QED  BY <1>2, <1>3, <1>4

LEMMA StoredType ==
    ASSUME TypeInv, NEW t \in Threads, NEW logged \in BOOLEAN, Stored(t, logged), cached' = <<>>,
           failures' \in 0 .. MaxMishaps
    PROVE  TypeInv'
  <1>1. at[t].phase = "put" /\ at[t].copy \in Documents /\ TRUE \in BOOLEAN
    BY AtType, ThreadFields DEF Stored
  <1>2. doc' \in Documents /\ meant' \in Documents
    BY <1>1, MeantType DEF Stored
  <1>3. stored' \subseteq Proposals
    <2>1. at[t].job = "apply" => Head(at[t].todo) \in Proposals
      BY <1>1, AtType, ThreadFields, TodoType DEF Shape
    <2>. QED  BY <2>1 DEF Stored, TypeInv, TypeOK
  <1>4. given' \in [list : Entries, before : SUBSET Proposals]
    <2>1. at[t].copy.list \in Entries /\ given.list \in Entries /\ given.before \subseteq Proposals
      BY <1>1 DEF Documents, TypeInv, TypeOK
    <2>. QED  BY <1>3, <2>1 DEF Stored
  <1>5. Base' /\ UNCHANGED <<run, says>>
    BY <1>2, <1>3, <1>4 DEF Stored, Base
  <1>6. Mishaps'
    BY MishapsType DEF Stored, Mishaps
  <1>7. After(t, logged, TRUE) \in ThreadStates /\ Shape(t, After(t, logged, TRUE))
    BY <1>1, AfterType
  <1>8. at' = [at EXCEPT ![t] = After(t, logged, TRUE)]
    BY DEF Stored
  <1>. QED  BY <1>1, <1>5, <1>6, <1>7, <1>8, SilentStep

LEMMA PutType == ASSUME TypeInv, NEW t \in Threads, Put(t) PROVE TypeInv'
  <1>1. failures' \in 0 .. MaxMishaps
    BY DEF Put, TypeInv, TypeOK
  <1>. QED  BY <1>1, StoredType DEF Put

\* A write that fails leaves the document, or is only not logged.
Skipped(t) ==
    /\ at[t].phase = "put" /\ at' = [at EXCEPT ![t] = After(t, FALSE, FALSE)]
    /\ UNCHANGED <<doc, cached, run, says, stored, meant, given, mishaps>>

LEMMA FailedForms ==
    ASSUME NEW t \in Threads, PutFails(t)
    PROVE  Fails /\ (Skipped(t) \/ (Stored(t, FALSE) /\ cached' = <<>>))
  BY DEF PutFails, Skipped

LEMMA PutFailsType == ASSUME TypeInv, NEW t \in Threads, PutFails(t) PROVE TypeInv'
  <1>1. failures' \in 0 .. MaxMishaps
    BY FailedForms, FailsType
  <1>2. CASE Skipped(t)
    <2>1. Base' /\ Mishaps' /\ UNCHANGED <<run, says>>
      BY <1>1, <1>2 DEF Skipped, Base, Mishaps, TypeInv, TypeOK
    <2>2. After(t, FALSE, FALSE) \in ThreadStates /\ Shape(t, After(t, FALSE, FALSE))
      BY <1>2, AfterType DEF Skipped
    <2>. QED  BY <1>2, <2>1, <2>2, SilentStep DEF Skipped
  <1>3. CASE Stored(t, FALSE) /\ cached' = <<>>
    BY <1>1, <1>3, StoredType
  <1>. QED  BY <1>2, <1>3, FailedForms

\* The conversation as a turn that has applied what it had leaves it.
Emptied(a) == IF a.job = "apply" THEN [a.run EXCEPT !.pending = <<>>] ELSE a.run

LEMMA EmptiedType ==
    ASSUME NEW a \in ThreadStates
    PROVE  /\ Emptied(a) \in Runs /\ Emptied(a).state = a.run.state
           /\ Emptied(a).applied = a.run.applied
           /\ Emptied(a).pending = IF a.job = "apply" THEN <<>> ELSE a.run.pending
  <1>1. a.run \in Runs
    BY ThreadFields
  <1>. QED  BY <1>1, Nothing DEF Emptied, Runs

\* The end of the writes of a turn, in its three forms.
LEMMA EndApplyForms ==
    ASSUME TypeInv, NEW t \in Threads, EndApply(t)
    PROVE  /\ at[t].phase = "list" /\ at[t].todo = <<>> /\ t \in Turns
           /\ UNCHANGED <<doc, cached, says, failures, stored, meant, given>>
           /\ \/ /\ t = "page" /\ Save(t, Emptied(at[t])) /\ at' = [at EXCEPT ![t] = Idle]
              \/ \E b \in ThreadStates :
                    /\ Shape(t, b) /\ at' = [at EXCEPT ![t] = b] /\ UNCHANGED <<run, mishaps>>
                    /\ b.phase = IF t = "page" THEN "ask" ELSE "rematch"
                    /\ b.dirty = at[t].dirty /\ b.todo = <<>> /\ b.job = at[t].job
                    /\ b.run.applied = at[t].run.applied
                    /\ b.run.pending = Emptied(at[t]).pending
  <1>. DEFINE a == at[t]
              r == Emptied(a)
              asks == a.more /\ cap_status(r)
              q == IF asks THEN OneMore(r) ELSE r
              p == IF t \in Gens THEN "rematch" ELSE "ask"
              b == [a EXCEPT !.phase = p, !.run = q]
  <1>1. /\ a \in ThreadStates /\ Shape(t, a) /\ a.phase = "list" /\ a.todo = <<>> /\ t \in Turns
        /\ UNCHANGED <<doc, cached, says, failures, stored, meant, given>>
    BY AtType DEF EndApply, Shape
  <1>2. r \in Runs /\ r.state = a.run.state /\ r.applied = a.run.applied
    BY <1>1, EmptiedType
  <1>3. \/ Save(t, r) /\ at' = [at EXCEPT ![t] = Idle] /\ t \notin Gens
        \/ at' = [at EXCEPT ![t] = b] /\ UNCHANGED <<run, mishaps>> /\ (t \in Gens \/ asks)
    <2>1. EndApply(t) <=>
            /\ at[t].phase = "list" /\ at[t].todo = <<>>
            /\ IF t \in Gens \/ asks
               THEN /\ at' = [at EXCEPT ![t].phase = p, ![t].run = q]
                    /\ UNCHANGED <<run, mishaps>>
               ELSE Save(t, r) /\ at' = [at EXCEPT ![t] = Idle]
            /\ UNCHANGED <<doc, cached, says, failures, stored, meant, given>>
      BY DEF EndApply, Emptied, OneMore
    <2>. HIDE DEF r, asks, q, p
    <2>2. [at EXCEPT ![t].phase = p, ![t].run = q] = [at EXCEPT ![t] = b]
      BY DEF TypeInv, TypeOK, ThreadStates
    <2>. QED  BY <2>1, <2>2
  <1>4. q \in Runs /\ q.state = a.run.state /\ q.applied = a.run.applied /\ q.pending = r.pending
    BY <1>2, OneMoreType
  <1>. HIDE DEF q
  <1>5. p \in Phases
    BY DEF Phases
  <1>6. b \in ThreadStates
    BY <1>1, <1>4, <1>5 DEF ThreadStates
  <1>7. /\ b.phase = p /\ b.run = q /\ b.todo = <<>> /\ b.job = a.job /\ b.dirty = a.dirty
    BY <1>1 DEF ThreadStates
  <1>8. t \notin Gens => t = "page"
    BY <1>1 DEF Turns
  <1>. HIDE DEF b, r, asks
  <1>9. Shape(t, b)
    BY <1>1, <1>4, <1>7, <1>8 DEF Shape
  <1>. QED  BY <1>1, <1>3, <1>4, <1>6, <1>7, <1>8, <1>9, PageIsATurn DEF r

LEMMA EndApplyType == ASSUME TypeInv, NEW t \in Threads, EndApply(t) PROVE TypeInv'
  <1>1. Base' /\ says' = says /\ at[t].phase # "idle"
    BY BaseKept, EndApplyForms
  <1>2. CASE t = "page" /\ Save(t, Emptied(at[t])) /\ at' = [at EXCEPT ![t] = Idle]
    <2>1. Mishaps' /\ run' = Emptied(at[t])
      BY <1>2, SaveType
    <2>2. run' \in Runs /\ run'.state # "stopped"
      BY <1>2, <2>1, AtType, EmptiedType DEF Shape
    <2>. QED  BY <1>1, <1>2, <2>1, <2>2, IdleIsQuiet, IdleStep
  <1>3. ASSUME NEW b \in ThreadStates, Shape(t, b), at' = [at EXCEPT ![t] = b], UNCHANGED <<run, mishaps>>
        PROVE  TypeInv'
    <2>1. Mishaps'
      BY <1>3 DEF Mishaps, TypeInv, TypeOK
    <2>. QED  BY <1>1, <1>3, <2>1, SilentStep
  <1>. QED  BY <1>2, <1>3, EndApplyForms

LEMMA RematchDoneType == ASSUME TypeInv, NEW g \in Gens, RematchDone(g) PROVE TypeInv'
  <1>. DEFINE r == [at[g].run EXCEPT !.state = "done"]
  <1>1. g \in Threads
    BY DEF Turns, Threads
  <1>2. r \in Runs /\ r.state = "done"
    BY <1>1, AtType, ThreadFields, RunFields
  <1>3. Save(g, r)
    BY DEF RematchDone
  <1>. HIDE DEF r
  <1>4. Mishaps' /\ run' = r
    BY <1>1, <1>3, SaveType
  <1>5. Base' /\ says' = says /\ at' = [at EXCEPT ![g] = Idle]
    BY BaseKept DEF RematchDone
  <1>. QED  BY <1>1, <1>2, <1>4, <1>5, IdleIsQuiet, IdleStep

LEMMA OwnerListsType == OwnerLists \subseteq Entries
  <1>1. ASSUME NEW g \in Lists PROVE [f \in Facts |-> IF f = g THEN 1 ELSE 0] \in Entries
    BY DEF Entries
  <1>. QED  BY <1>1 DEF OwnerLists

\* The owner's requests: what each writes.
LEMMA EditorForms ==
    ASSUME TypeInv, PatchFact \/ Seed
    PROVE  \E job \in {"field", "list", "seed"}, c \in Documents :
              /\ Edit(job, c)
              /\ job = "field" => c = [Loaded EXCEPT !.field = c.field]
              /\ job = "list" => c = [Loaded EXCEPT !.list = c.list]
  <1>0. Loaded \in Documents
    BY LoadedType
  <1>1. ASSUME NEW e \in Edits PROVE [Loaded EXCEPT !.field = e] \in Documents /\ [Loaded EXCEPT !.field = e].field = e
    BY <1>0 DEF Documents
  <1>2. ASSUME NEW l \in OwnerLists PROVE [Loaded EXCEPT !.list = l] \in Documents /\ [Loaded EXCEPT !.list = l].list = l
    BY <1>0, OwnerListsType DEF Documents
  <1>3. ASSUME NEW e \in Edits, NEW l \in OwnerLists PROVE [list |-> l, field |-> e] \in Documents
    BY OwnerListsType DEF Documents
  <1>4. CASE \E e \in Edits : Edit("field", [Loaded EXCEPT !.field = e])
    <2>1. PICK e \in Edits : Edit("field", [Loaded EXCEPT !.field = e])
      BY <1>4
    <2>. DEFINE c == [Loaded EXCEPT !.field = e]
    <2>2. c \in Documents /\ Edit("field", c) /\ c = [Loaded EXCEPT !.field = c.field]
      BY <1>1, <2>1
    <2>. HIDE DEF c
    <2>. QED  BY <2>2
  <1>5. CASE \E l \in OwnerLists : Edit("list", [Loaded EXCEPT !.list = l])
    <2>1. PICK l \in OwnerLists : Edit("list", [Loaded EXCEPT !.list = l])
      BY <1>5
    <2>. DEFINE c == [Loaded EXCEPT !.list = l]
    <2>2. c \in Documents /\ Edit("list", c) /\ c = [Loaded EXCEPT !.list = c.list]
      BY <1>2, <2>1
    <2>. HIDE DEF c
    <2>. QED  BY <2>2
  <1>6. CASE Seed
    BY <1>3, <1>6 DEF Seed
  <1>. QED  BY <1>4, <1>5, <1>6 DEF PatchFact

LEMMA EditorType == ASSUME TypeInv, PatchFact \/ Seed PROVE TypeInv'
  <1>1. PICK job \in {"field", "list", "seed"}, c \in Documents : Edit(job, c)
    BY EditorForms
  <1>. DEFINE a == [Idle EXCEPT !.phase = "put", !.job = job, !.copy = c]
  <1>2. a \in ThreadStates
    BY IdleType DEF ThreadStates, Phases
  <1>3. Shape("editor", a)
    BY NewRunType, OthersAreNoTurns DEF Shape, Idle
  <1>4. Base' /\ Mishaps' /\ UNCHANGED <<run, says>>
    BY <1>1, LoadedType DEF Edit, LoadCaches, Base, Mishaps, TypeInv, TypeOK
  <1>5. at' = [at EXCEPT !["editor"] = a]
    BY <1>1 DEF Edit
  <1>. HIDE DEF a
  <1>6. "editor" \in Threads /\ "editor" # "page"
    BY OthersAreNoTurns
  <1>. QED  BY <1>2, <1>3, <1>4, <1>5, <1>6, SilentStep

LEMMA ProfileSetType == ASSUME TypeInv, NEW e \in Edits, ProfileSet(e) PROVE TypeInv'
  <1>1. doc' \in Documents /\ [meant EXCEPT !.field = e] \in Documents
    BY DEF ProfileSet, TypeInv, TypeOK, Documents
  <1>2. meant' \in Documents
    BY <1>1 DEF ProfileSet
  <1>3. Base' /\ UNCHANGED <<run, says, at>>
    BY <1>1, <1>2 DEF ProfileSet, Base, TypeInv, TypeOK
  <1>4. Mishaps'
    BY MishapsType DEF ProfileSet, Mishaps
  <1>5. says' \in 0 .. MaxSays /\ says' >= says /\ run' \in Runs /\ Quiet'
    BY <1>3, RunType, ConstantsAssumption DEF TypeInv, TypeOK, Quiet
  <1>. QED  BY <1>3, <1>4, <1>5, RunStep

LEMMA ReaderMissesType == ASSUME TypeInv, ReaderMisses PROVE TypeInv'
  <1>. DEFINE a == [Idle EXCEPT !.phase = "fill", !.copy = doc]
  <1>1. a \in ThreadStates
    BY IdleType DEF ThreadStates, Phases, TypeInv, TypeOK
  <1>2. Shape("reader", a)
    BY NewRunType DEF Shape, Idle
  <1>3. Base' /\ Mishaps' /\ UNCHANGED <<run, says>>
    BY DEF ReaderMisses, Base, Mishaps, TypeInv, TypeOK
  <1>4. at' = [at EXCEPT !["reader"] = a]
    BY DEF ReaderMisses
  <1>. HIDE DEF a
  <1>5. "reader" \in Threads /\ "reader" # "page"
    BY OthersAreNoTurns
  <1>. QED  BY <1>1, <1>2, <1>3, <1>4, <1>5, SilentStep

LEMMA ReaderFillsType == ASSUME TypeInv, ReaderFills PROVE TypeInv'
  <1>1. "reader" \in Threads /\ at["reader"].copy \in Documents
    BY AtType, ThreadFields, OthersAreNoTurns
  <1>2. Base' /\ Mishaps' /\ UNCHANGED <<run, says>>
    BY <1>1 DEF ReaderFills, Base, Mishaps, TypeInv, TypeOK
  <1>3. at' = [at EXCEPT !["reader"] = Idle] /\ Idle.phase = "idle"
    BY DEF ReaderFills, Idle
  <1>. QED  BY <1>1, <1>2, <1>3, IdleType, SilentStep

LEMMA RestartType == ASSUME TypeInv, Restart PROVE TypeInv'
  <1>1. at' \in [Threads -> ThreadStates] /\ \A t \in Threads : at'[t] = Idle
    BY IdleType DEF Restart
  <1>2. Mishaps'
    BY MishapsType DEF Restart, Mishaps
  <1>3. Base'
    BY FailsType DEF Restart, Base, TypeInv, TypeOK
  <1>4. TypeOK'
    BY <1>1, <1>2, <1>3 DEF Restart, TypeOK, TypeInv, Base, Mishaps
  <1>5. Quiet' /\ at'["page"].phase = "idle"
    BY <1>1, PageIsATurn, RunType DEF Restart, Quiet, Idle
  <1>6. \A t \in Threads : Shape(t, at'[t])
    BY <1>1, IdleType
  <1>. QED  BY <1>4, <1>5, <1>6 DEF TypeInv, Control

\* The commands of the page, what a turn does, and the rest.
Commands == Tell \/ Yes \/ Skip \/ Done \/ Undo \/ Generate \/ StopMessage
Turning ==
    \/ Answer \/ AnswerFails
    \/ \E g \in Gens : GenStart(g) \/ RematchDone(g) \/ RematchFails(g)
    \/ \E t \in Threads : ReadList(t) \/ ReadDoc(t) \/ Put(t) \/ PutFails(t) \/ EndApply(t)
Others ==
    \/ Stop \/ PatchFact \/ Seed
    \/ \E e \in Edits : ProfileSet(e)
    \/ ReaderMisses \/ ReaderFills
    \/ Restart

LEMMA NextForms == Next <=> Commands \/ Turning \/ Others
  BY DEF Next, Commands, Turning, Others

LEMMA NextInv == TypeInv /\ [Next]_vars => TypeInv'
  <1>. SUFFICES ASSUME TypeInv, [Next]_vars PROVE TypeInv'
    OBVIOUS
  <1>1. CASE UNCHANGED vars
    BY <1>1 DEF vars, TypeInv, TypeOK, Control, Quiet
  <1>2. CASE Commands
    BY <1>2, TellType, YesType, CommandType, UndoType, GenerateType DEF Commands
  <1>3. CASE Turning
    <2>1. CASE Answer \/ AnswerFails \/ \E g \in Gens : RematchFails(g)
      BY <2>1, AnswerType, BreakOffStepType
    <2>2. CASE \E g \in Gens : GenStart(g) \/ RematchDone(g)
      BY <2>2, GenStartType, RematchDoneType
    <2>3. CASE \E t \in Threads : ReadList(t) \/ ReadDoc(t) \/ Put(t) \/ PutFails(t) \/ EndApply(t)
      BY <2>3, ReadListType, ReadDocType, PutType, PutFailsType, EndApplyType
    <2>. QED  BY <1>3, <2>1, <2>2, <2>3 DEF Turning
  <1>4. CASE Others
    BY <1>4, StopType, EditorType, ProfileSetType, ReaderMissesType, ReaderFillsType, RestartType DEF Others
  <1>. QED  BY <1>1, <1>2, <1>3, <1>4, NextForms

LEMMA TypeInvHolds == Spec => []TypeInv
  BY InitInv, NextInv, PTL DEF Spec

\* The document, its cache, the conversation and the threads keep their types.
THEOREM TypeCorrect == Spec => []TypeOK
  BY TypeInvHolds, PTL DEF TypeInv

-----------------------------------------------------------------------------
(* A stop holds.                                                            *)

\* Only an apply stores a proposal, from a turn that no stop had reached.
LEMMA StoresUnstopped ==
    ASSUME TypeInv, [Next]_vars, stored' # stored
    PROVE  \E t \in Turns : at[t].phase = "put" /\ at[t].run.state # "stopped"
  <1>1. ASSUME NEW t \in Threads, NEW logged, Stored(t, logged)
        PROVE  \E u \in Turns : at[u].phase = "put" /\ at[u].run.state # "stopped"
    <2>1. at[t].phase = "put" /\ at[t].job = "apply"
      BY <1>1 DEF Stored
    <2>2. t \in Turns /\ at[t].run.state # "stopped"
      BY <2>1, AtType DEF Shape
    <2>. QED  BY <2>1, <2>2
  <1>2. CASE Commands \/ Others \/ UNCHANGED vars
    <2>1. ~PatchFact /\ ~Seed
      BY DEF PatchFact, Seed, Edit
    <2>. QED  BY <1>2, <2>1 DEF Commands, Others, vars, Tell, Yes, Skip, Done, Undo, Generate, StopMessage, Stop,
                Says, ProfileSet, ReaderMisses, ReaderFills, Restart
  <1>3. CASE Turning
    <2>1. ASSUME NEW t \in Threads, EndApply(t) PROVE stored' = stored
      BY <2>1, EndApplyForms
    <2>2. ASSUME NEW t \in Threads, Put(t) \/ PutFails(t)
          PROVE  stored' = stored \/ \E logged : Stored(t, logged)
      BY <2>2 DEF Put, PutFails
    <2>. QED  BY <1>1, <1>3, <2>1, <2>2 DEF Turning, Answer, AnswerFails, GenStart, RematchDone, RematchFails,
                ReadList, ReadDoc
  <1>. QED  BY <1>2, <1>3, NextForms

\* Who saves over a stop.
Overruns == \/ at["page"].phase \in {"ask", "list"} /\ at["page"].run.state # "stopped"
            \/ \E g \in Gens : at[g].phase = "rematch"

\* Only the page's turn from before a stop, or the end of a generation, puts another
\* conversation in its place.
LEMMA OverrunsTheStop ==
    ASSUME TypeInv, [Next]_vars, run.state = "stopped", run' # run
    PROVE  Overruns
  <1>1. Over(run) /\ run.pending = <<>> /\ run \in Runs
    BY RunType DEF Quiet, Over
  <1>2. ~Commands
    BY <1>1 DEF Commands, Tell, Yes, Skip, Done, Undo, Generate, StopMessage, Says
  <1>3. ~Stop
    <2>1. [run EXCEPT !.state = "stopped", !.pending = <<>>] = run
      BY <1>1 DEF Runs
    <2>. QED  BY <2>1 DEF Stop
  <1>4. ~Others /\ ~UNCHANGED vars
    BY <1>3 DEF Others, vars, PatchFact, Seed, Edit, ProfileSet, ReaderMisses, ReaderFills, Restart
  <1>5. CASE Turning
    <2>1. ASSUME NEW t \in Threads, EndApply(t) PROVE Overruns
      <3>1. at[t].phase = "list" /\ t = "page" /\ Shape(t, at[t])
        BY <2>1, EndApplyForms, AtType
      <3>. QED  BY <3>1 DEF Shape, Overruns
    <2>2. ASSUME Answer PROVE Overruns
      <3>1. at["page"].phase = "ask" /\ Shape("page", at["page"])
        BY <2>2, AtType, PageIsATurn DEF Answer
      <3>. QED  BY <3>1 DEF Shape, Overruns
    <2>3. ASSUME NEW t \in Threads, ReadList(t) \/ ReadDoc(t) \/ Put(t) \/ PutFails(t) PROVE FALSE
      BY <2>3 DEF ReadList, ReadDoc, Put, PutFails, Stored
    <2>4. ASSUME NEW g \in Gens, GenStart(g) \/ RematchFails(g) PROVE FALSE
      BY <2>4 DEF GenStart, Load, RematchFails, BreakOff
    <2>5. ~AnswerFails
      BY DEF AnswerFails, BreakOff
    <2>6. ASSUME NEW g \in Gens, RematchDone(g) PROVE Overruns
      BY <2>6 DEF RematchDone, Overruns
    <2>. QED  BY <1>5, <2>1, <2>2, <2>3, <2>4, <2>5, <2>6 DEF Turning
  <1>. QED  BY <1>2, <1>4, <1>5, NextForms

\* After a stop proposals are stored only by a turn that had loaded the
\* conversation before it, and only such a turn of the page, or the end of a
\* generation, puts another state in the stop's place.
THEOREM StopsHold == Spec => StopHolds
  <1>. DEFINE Stays == /\ stored' # stored =>
                            \E t \in Turns : at[t].phase = "put" /\ at[t].run.state # "stopped"
                       /\ (run.state = "stopped" /\ run' # run) =>
                            \/ at["page"].phase \in {"ask", "list"} /\ at["page"].run.state # "stopped"
                            \/ \E g \in Gens : at[g].phase = "rematch"
  <1>1. TypeInv /\ [Next]_vars => [Stays]_vars
    BY StoresUnstopped, OverrunsTheStop DEF Overruns
  <1>. QED  BY <1>1, TypeInvHolds, PTL DEF Spec, StopHolds

-----------------------------------------------------------------------------
(* Nothing is lost.                                                         *)

\* One entry more, one entry less.
Plus(l, v)  == [l EXCEPT ![v] = l[v] + 1]
Minus(l, v) == [l EXCEPT ![v] = IF l[v] > 0 THEN l[v] - 1 ELSE 0]

\* Each applied write found the list that the one before it left, and the last
\* one left the list l: undoing them one by one leads back.  This is not so of
\* the writes in b, from before the list was written by others; all are in st.
Chain(s, l, b, st) ==
    /\ s # <<>> /\ s[Len(s)].by \notin b => l = Plus(s[Len(s)].old, s[Len(s)].by.value)
    /\ \A i \in 1 .. Len(s) - 1 : s[i].by \notin b => s[i + 1].old = Plus(s[i].old, s[i].by.value)
    /\ \A i \in 1 .. Len(s) : s[i].by \in st

\* What a thread in state a means to make of document d.
Intends(a, d) ==
    IF a.job = "apply" THEN [d EXCEPT !.list = Plus(d.list, Head(a.todo).value)]
    ELSE IF a.job = "undo" THEN [d EXCEPT !.list = Minus(d.list, Head(a.todo).value)]
    ELSE IF a.job = "field" THEN [d EXCEPT !.field = a.copy.field]
    ELSE IF a.job = "list" THEN [d EXCEPT !.list = a.copy.list]
    ELSE a.copy

\* An undo that would put back an outdated list.
Stale(a, b) == a.job = "undo" /\ Head(a.todo) \in b

\* What a thread holds of document d is up to date, and so is its own account
\* of what was applied.
Sound(a, d, b, st) ==
    /\ a.phase \in {"doc", "put"} /\ a.job = "apply" => a.old = d.list
    /\ a.phase \in {"doc", "put"} /\ a.job = "undo" =>
          /\ Stale(a, b) \/ d.list = Plus(a.old, Head(a.todo).value)
          /\ Chain(a.run.applied, a.old, b, st) /\ ~a.dirty
    /\ a.phase \in {"ask", "list", "rematch"} \/ (a.phase \in {"doc", "put"} /\ a.job = "apply") =>
          Chain(a.run.applied, d.list, b, st)
    /\ a.phase = "put" => Stale(a, b) \/ a.copy = Intends(a, d)
    /\ a.phase = "fill" => a.copy = d

Active(a) == a.phase \notin {"idle", "queued"}

Alone == \A t, u \in Turns : t # u /\ Active(at[t]) => ~Active(at[u])
Settled == (\A t \in Turns : ~at[t].dirty) => Chain(run.applied, doc.list, given.before, stored)
CacheSound == cached = <<>> \/ cached[1] = doc

\* Until a mishap there is one turn at a time, what every thread holds is up to
\* date, and what was applied can be undone step by step.
Kept ==
    mishaps = {} =>
        /\ doc = meant
        /\ CacheSound
        /\ \A t \in Threads : Sound(at[t], doc, given.before, stored)
        /\ Alone
        /\ Settled

LEMMA PlusType ==
    ASSUME NEW l \in Entries, NEW v \in Facts
    PROVE  Plus(l, v) \in Entries /\ Minus(l, v) \in Entries /\ Minus(Plus(l, v), v) = l
  <1>1. Plus(l, v) \in Entries /\ Minus(l, v) \in Entries
    BY DEF Plus, Minus, Entries
  <1>. DEFINE m == Plus(l, v)
  <1>2. m[v] = l[v] + 1 /\ l[v] \in Nat /\ \A f \in Facts : f # v => m[f] = l[f]
    BY DEF Plus, Entries
  <1>3. m \in Entries
    BY <1>1
  <1>. HIDE DEF m
  <1>4. \A f \in Facts : Minus(m, v)[f] = l[f]
    BY <1>2, <1>3 DEF Minus, Entries
  <1>5. Minus(m, v) \in Entries
    BY <1>3 DEF Minus, Entries
  <1>6. Minus(m, v) = l
    BY <1>4, <1>5 DEF Entries
  <1>. QED  BY <1>1, <1>6 DEF m

LEMMA ListOf == ASSUME NEW d \in Documents PROVE d.list \in Entries
  BY DEF Documents

\* Applying one more write extends the chain.
LEMMA ChainMore ==
    ASSUME NEW s \in Seq(Applied), NEW x \in Applied, NEW b, NEW st, NEW st2,
           Chain(s, x.old, b, st), st \subseteq st2, x.by \in st2
    PROVE  Chain(Append(s, x), Plus(x.old, x.by.value), b, st2)
  <1>. DEFINE q == Append(s, x)
  <1>1. /\ Len(s) \in Nat /\ Len(q) = Len(s) + 1 /\ q[Len(q)] = x
        /\ \A i \in 1 .. Len(s) : q[i] = s[i]
    BY AppendProperties
  <1>. HIDE DEF q
  <1>2. ASSUME NEW i \in 1 .. Len(q) - 1, q[i].by \notin b PROVE q[i + 1].old = Plus(q[i].old, q[i].by.value)
    <2>1. i \in 1 .. Len(s) /\ q[i] = s[i]
      BY <1>1
    <2>2. CASE i = Len(s)
      <3>1. s # <<>> /\ q[i + 1] = x
        BY <1>1, <2>1, <2>2
      <3>. QED  BY <1>2, <2>1, <2>2, <3>1 DEF Chain
    <2>3. CASE i # Len(s)
      <3>1. i \in 1 .. Len(s) - 1 /\ i + 1 \in 1 .. Len(s)
        BY <1>1, <2>1, <2>3
      <3>. QED  BY <1>1, <1>2, <2>1, <3>1 DEF Chain
    <2>. QED  BY <2>2, <2>3
  <1>3. ASSUME NEW i \in 1 .. Len(q) PROVE q[i].by \in st2
    <2>1. CASE i \in 1 .. Len(s)
      BY <1>1, <2>1 DEF Chain
    <2>2. CASE i \notin 1 .. Len(s)
      <3>1. i = Len(q)
        BY <1>1, <2>2
      <3>. QED  BY <1>1, <3>1
    <2>. QED  BY <2>1, <2>2
  <1>. QED  BY <1>1, <1>2, <1>3 DEF Chain, q

\* The last applied write left the list, and what comes before it is a chain
\* that left the list it found.
LEMMA ChainLess ==
    ASSUME NEW s \in Seq(Applied), s # <<>>, NEW l, NEW b, NEW st, Chain(s, l, b, st)
    PROVE  /\ s[Len(s)].by \in b \/ l = Plus(s[Len(s)].old, s[Len(s)].by.value)
           /\ Chain(SubSeq(s, 1, Len(s) - 1), s[Len(s)].old, b, st)
  <1>. DEFINE n == Len(s) - 1
              q == SubSeq(s, 1, n)
  <1>1. Len(s) \in Nat /\ Len(s) >= 1
    BY EmptySeq
  <1>2. n \in Nat /\ n \in Int /\ n + 1 = Len(s) /\ \A i \in 1 .. n : i \in 1 .. Len(s)
    BY <1>1
  <1>. HIDE DEF n
  <1>3. \A i \in 1 .. n : s[i] \in Applied
    BY <1>2, ElementOfSeq
  <1>4. /\ Len(q) = IF 1 <= n THEN n - 1 + 1 ELSE 0
        /\ \A i \in 1 .. n - 1 + 1 : q[i] = s[1 + i - 1]
    BY <1>2, <1>3, SubSeqProperties
  <1>5. Len(q) = n /\ \A i \in 1 .. n : i \in 1 .. n - 1 + 1 /\ 1 + i - 1 = i
    BY <1>2, <1>4
  <1>6. \A i \in 1 .. n : q[i] = s[i]
    BY <1>4, <1>5
  <1>7. n = 0 => q = <<>>
    BY SubSeqEmpty
  <1>. HIDE DEF q
  <1>8. ASSUME NEW i \in 1 .. n, s[i].by \notin b PROVE s[i + 1].old = Plus(s[i].old, s[i].by.value)
    <2>1. i \in 1 .. Len(s) - 1
      BY <1>2
    <2>. QED  BY <1>8, <2>1 DEF Chain
  <1>9. q # <<>> /\ q[Len(q)].by \notin b => s[Len(s)].old = Plus(q[Len(q)].old, q[Len(q)].by.value)
    <2>1. CASE n = 0
      BY <1>7, <2>1
    <2>2. CASE n # 0
      <3>1. n \in 1 .. n
        BY <1>2, <2>2
      <3>. QED  BY <1>2, <1>5, <1>6, <1>8, <3>1
    <2>. QED  BY <2>1, <2>2
  <1>10. ASSUME NEW i \in 1 .. Len(q) - 1, q[i].by \notin b PROVE q[i + 1].old = Plus(q[i].old, q[i].by.value)
    <2>1. i \in 1 .. n /\ i + 1 \in 1 .. n
      BY <1>2, <1>5
    <2>. QED  BY <1>6, <1>8, <1>10, <2>1
  <1>11. \A i \in 1 .. Len(q) : q[i].by \in st
    BY <1>2, <1>5, <1>6 DEF Chain
  <1>12. Chain(q, s[Len(s)].old, b, st)
    BY <1>9, <1>10, <1>11 DEF Chain
  <1>. QED  BY <1>12 DEF Chain, q, n

\* Of writes that all are outdated nothing is claimed.
LEMMA ChainOutdated ==
    ASSUME NEW s, NEW l, NEW m, NEW b, NEW st, NEW st2, Chain(s, l, b, st), st \subseteq st2,
           NEW n \in Nat, Len(s) = n
    PROVE  Chain(s, m, st2, st2)
  <1>1. \A i \in 1 .. n : s[i].by \in st2
    BY DEF Chain
  <1>2. s # <<>> => s = <<>> \/ n = 0 \/ n \in 1 .. n
    OBVIOUS
  <1>. QED  BY <1>1, <1>2 DEF Chain

\* A thread that is not active has nothing to be wrong about.
LEMMA IdleIsSound == ASSUME NEW a, NEW d, NEW b, NEW st, ~Active(a) PROVE Sound(a, d, b, st)
  BY DEF Sound, Active

LEMMA LoadedIsDoc == ASSUME TypeInv, Kept, mishaps = {} PROVE Loaded = doc
  BY DEF Loaded, Kept, CacheSound

LEMMA DirtyIsActive == ASSUME TypeInv, NEW t \in Threads, at[t].dirty PROVE Active(at[t]) /\ t \in Turns
  BY AtType DEF Shape, Active

\* Without mishap after the step there was none before it.
LEMMA NoMishap ==
    ASSUME NEW t \in Threads, mishaps' = {}
    PROVE  /\ Load(t) => mishaps = {} /\ InTurn(t) = {} /\ run' = run
           /\ \A r : Save(t, r) => mishaps = {} /\ InTurn(t) = {} /\ run' = r
           /\ BreakOff(t) => mishaps = {} /\ ~at[t].dirty
  BY DEF Load, Save, BreakOff, If

\* Who else is under way.
LEMMA AloneStep ==
    ASSUME TypeInv, Alone, NEW t \in Threads, NEW a \in ThreadStates, at' = [at EXCEPT ![t] = a],
           ~Active(a) \/ t \notin Turns \/ Active(at[t]) \/ InTurn(t) = {}
    PROVE  Alone'
  <1>1. \A u \in Threads : at'[u] = IF u = t THEN a ELSE at[u]
    BY DEF TypeInv, TypeOK
  <1>2. InTurn(t) = {} => \A u \in Turns : u # t => ~Active(at[u])
    BY DEF InTurn, Active
  <1>3. Turns \subseteq Threads
    BY PageIsATurn
  <1>. QED  BY <1>1, <1>2, <1>3 DEF Alone

\* A step of one thread that leaves the document.
LEMMA DocStays ==
    ASSUME TypeInv, Kept, mishaps = {}, NEW t \in Threads, NEW a \in ThreadStates,
           at' = [at EXCEPT ![t] = a], UNCHANGED <<doc, meant, stored, given>>, CacheSound',
           Sound(a, doc, given.before, stored),
           ~Active(a) \/ t \notin Turns \/ Active(at[t]) \/ InTurn(t) = {}, Settled'
    PROVE  Kept'
  <1>1. \A u \in Threads : at'[u] = IF u = t THEN a ELSE at[u]
    BY DEF TypeInv, TypeOK
  <1>2. \A u \in Threads : Sound(at'[u], doc', given'.before, stored')
    BY <1>1 DEF Kept
  <1>3. Alone'
    BY AloneStep DEF Kept
  <1>. QED  BY <1>2, <1>3 DEF Kept

\* Within a turn, or off it.
LEMMA InsideKept ==
    ASSUME TypeInv, Kept, mishaps = {}, NEW t \in Threads, NEW a \in ThreadStates,
           at' = [at EXCEPT ![t] = a], UNCHANGED <<doc, meant, run, stored, given>>, CacheSound',
           Sound(a, doc, given.before, stored),
           t \in Turns => a.dirty = at[t].dirty /\ (~Active(a) \/ Active(at[t]))
    PROVE  Kept'
  <1>1. \A u \in Threads : at'[u] = IF u = t THEN a ELSE at[u]
    BY DEF TypeInv, TypeOK
  <1>2. \A u \in Turns : at'[u].dirty = at[u].dirty
    BY <1>1, PageIsATurn
  <1>3. Settled'
    BY <1>2 DEF Kept, Settled
  <1>. QED  BY <1>3, DocStays

\* A turn begins.
LEMMA BeginKept ==
    ASSUME TypeInv, Kept, NEW t \in Turns, NEW a \in ThreadStates, at' = [at EXCEPT ![t] = a],
           Load(t), UNCHANGED <<doc, cached, meant, stored, given>>, ~Active(at[t]), ~a.dirty,
           Chain(run.applied, doc.list, given.before, stored) => Sound(a, doc, given.before, stored)
    PROVE  Kept'
  <1>. SUFFICES ASSUME mishaps' = {} PROVE Kept'
    BY DEF Kept
  <1>1. t \in Threads /\ mishaps = {} /\ InTurn(t) = {} /\ run' = run
    BY PageIsATurn, NoMishap
  <1>2. \A u \in Turns : ~at[u].dirty
    <2>1. \A u \in Turns : u # t => ~Active(at[u])
      BY <1>1 DEF InTurn, Active
    <2>. QED  BY <2>1, DirtyIsActive, PageIsATurn
  <1>3. Chain(run.applied, doc.list, given.before, stored)
    BY <1>1, <1>2 DEF Kept, Settled
  <1>4. Settled' /\ CacheSound'
    BY <1>1, <1>3 DEF Settled, CacheSound, Kept
  <1>. QED  BY <1>1, <1>3, <1>4, DocStays

\* A turn ends with its save.
LEMMA EndKept ==
    ASSUME TypeInv, Kept, NEW t \in Turns, at' = [at EXCEPT ![t] = Idle], NEW r, Save(t, r),
           UNCHANGED <<doc, cached, meant, stored, given>>, at[t].phase \in {"ask", "list", "rematch"},
           r.applied = at[t].run.applied
    PROVE  Kept'
  <1>. SUFFICES ASSUME mishaps' = {} PROVE Kept'
    BY DEF Kept
  <1>1. t \in Threads /\ mishaps = {} /\ run' = r
    BY PageIsATurn, NoMishap
  <1>2. Chain(r.applied, doc.list, given.before, stored)
    BY <1>1 DEF Kept, Sound
  <1>3. Settled' /\ CacheSound' /\ ~Active(Idle)
    BY <1>1, <1>2 DEF Settled, CacheSound, Kept, Active, Idle
  <1>. QED  BY <1>1, <1>3, IdleType, IdleIsSound, DocStays

\* A command that saves the conversation with what it had applied.
LEMMA SavedKept ==
    ASSUME TypeInv, Kept, NEW r, Save("page", r), UNCHANGED <<doc, cached, meant, at, stored, given>>,
           r.applied = run.applied
    PROVE  Kept'
  <1>. SUFFICES ASSUME mishaps' = {} PROVE Kept'
    BY DEF Kept
  <1>1. mishaps = {} /\ run' = r
    BY PageIsATurn, NoMishap
  <1>. QED  BY <1>1 DEF Kept, Settled, CacheSound, Alone, Active

LEMMA InitKept == Init => Kept
  <1>. SUFFICES ASSUME Init PROVE Kept
    OBVIOUS
  <1>1. \A t \in Threads : at[t] = Idle /\ ~Active(at[t]) /\ ~at[t].dirty
    BY DEF Init, Idle, Active
  <1>2. \A t \in Threads : Sound(at[t], doc, given.before, stored)
    BY <1>1, IdleIsSound
  <1>3. Chain(<<>>, doc.list, given.before, stored)
    BY DEF Chain
  <1>. QED  BY <1>1, <1>2, <1>3, PageIsATurn DEF Init, Kept, CacheSound, Alone, Settled, NewRun

LEMMA CommandsKept == ASSUME TypeInv, Kept, Commands PROVE Kept'
  <1>1. "page" \in Turns /\ run \in Runs
    BY PageIsATurn, RunType
  <1>2. CASE Tell
    <2>. DEFINE a == [Idle EXCEPT !.phase = "ask", !.run = OneMore(run)]
                r == [run EXCEPT !.state = "done"]
    <2>1. CASE cap_status(run) /\ at' = [at EXCEPT !["page"] = a] /\ Load("page")
      <3>1. OneMore(run) \in Runs /\ OneMore(run).applied = run.applied
        BY <1>1, <2>1, OneMoreType
      <3>2. a \in ThreadStates
        BY <3>1, IdleType DEF ThreadStates, Phases
      <3>3. a.phase = "ask" /\ a.run.applied = run.applied /\ ~a.dirty
        BY <3>1 DEF Idle
      <3>. HIDE DEF a
      <3>4. Chain(run.applied, doc.list, given.before, stored) => Sound(a, doc, given.before, stored)
        BY <3>3 DEF Sound
      <3>. QED  BY <1>1, <1>2, <2>1, <3>2, <3>3, <3>4, BeginKept DEF Tell, Says, Active
    <2>2. CASE Save("page", r) /\ UNCHANGED at
      <3>1. r.applied = run.applied
        BY <1>1, RunFields
      <3>. HIDE DEF r
      <3>. QED  BY <1>2, <2>2, <3>1, SavedKept DEF Tell, Says
    <2>. QED  BY <1>2, <2>1, <2>2 DEF Tell, OneMore
  <1>3. CASE Yes
    <2>1. PICK more \in BOOLEAN :
            at' = [at EXCEPT !["page"] = [Idle EXCEPT !.phase = "list", !.run = run, !.more = more,
                                                      !.todo = run.pending, !.job = "apply"]]
      BY <1>3 DEF Yes
    <2>. DEFINE a == [Idle EXCEPT !.phase = "list", !.run = run, !.more = more,
                                  !.todo = run.pending, !.job = "apply"]
    <2>2. a \in ThreadStates
      BY <1>1, RunFields, IdleType DEF ThreadStates, Phases
    <2>3. a.phase = "list" /\ a.run = run /\ ~a.dirty
      BY DEF Idle
    <2>4. at' = [at EXCEPT !["page"] = a]
      BY <2>1
    <2>. HIDE DEF a
    <2>5. Chain(run.applied, doc.list, given.before, stored) => Sound(a, doc, given.before, stored)
      BY <2>3 DEF Sound
    <2>. QED  BY <1>1, <1>3, <2>2, <2>3, <2>4, <2>5, BeginKept DEF Yes, Says, Active
  <1>4. CASE Undo
    <2>. DEFINE last == run.applied[Len(run.applied)]
                a == [Idle EXCEPT !.phase = "doc", !.job = "undo", !.old = last.old, !.todo = <<last.by>>,
                                  !.run = Undone(run)]
    <2>1. at' = [at EXCEPT !["page"] = a] /\ run.applied # <<>>
      BY <1>4 DEF Undo, Undone
    <2>2. /\ last \in Applied /\ Undone(run) \in Runs
          /\ Undone(run).applied = SubSeq(run.applied, 1, Len(run.applied) - 1)
      BY <1>1, <2>1, LastApplied
    <2>3. Chain(run.applied, doc.list, given.before, stored) =>
            /\ last.by \in given.before \/ doc.list = Plus(last.old, last.by.value)
            /\ Chain(Undone(run).applied, last.old, given.before, stored)
      <3>1. run.applied \in Seq(Applied)
        BY <1>1, RunFields
      <3>. QED  BY <2>1, <2>2, <3>1, ChainLess
    <2>. HIDE DEF last
    <2>4. last.old \in Entries /\ <<last.by>> \in Seq(Proposals) /\ Head(<<last.by>>) = last.by
      BY <2>2 DEF Applied
    <2>5. a \in ThreadStates
      BY <2>2, <2>4, IdleType DEF ThreadStates, Phases
    <2>6. /\ a.phase = "doc" /\ a.job = "undo" /\ a.run = Undone(run) /\ ~a.dirty
          /\ a.old = last.old /\ Head(a.todo) = last.by
      BY <2>4 DEF Idle
    <2>. HIDE DEF a
    <2>7. Chain(run.applied, doc.list, given.before, stored) => Sound(a, doc, given.before, stored)
      BY <2>3, <2>6 DEF Sound, Stale
    <2>. QED  BY <1>1, <1>4, <2>1, <2>5, <2>6, <2>7, BeginKept DEF Undo, Says, Active
  <1>5. CASE Skip
    <2>. DEFINE r == [run EXCEPT !.pending = <<>>]
    <2>1. r.applied = run.applied /\ Save("page", r)
      BY <1>1, <1>5 DEF Skip, Runs
    <2>. HIDE DEF r
    <2>. QED  BY <1>5, <2>1, SavedKept DEF Skip, Says
  <1>6. CASE Done
    <2>. DEFINE r == [run EXCEPT !.state = "done"]
    <2>1. r.applied = run.applied /\ Save("page", r)
      BY <1>1, <1>6 DEF Done, Runs
    <2>. HIDE DEF r
    <2>. QED  BY <1>6, <2>1, SavedKept DEF Done, Says
  <1>7. CASE StopMessage
    <2>. DEFINE r == [run EXCEPT !.state = "stopped", !.pending = <<>>]
    <2>1. r.applied = run.applied /\ Save("page", r)
      BY <1>1, <1>7 DEF StopMessage, Runs
    <2>. HIDE DEF r
    <2>. QED  BY <1>7, <2>1, SavedKept DEF StopMessage, Says
  <1>8. CASE Generate
    <2>. SUFFICES ASSUME mishaps' = {} PROVE Kept'
      BY DEF Kept
    <2>. DEFINE r == [run EXCEPT !.state = "running"]
                a == [Idle EXCEPT !.phase = "queued"]
    <2>1. r.applied = run.applied /\ Save("page", r)
      BY <1>1, <1>8 DEF Generate, Runs
    <2>. HIDE DEF r
    <2>2. mishaps = {} /\ run' = r
      BY <1>1, <2>1, NoMishap, PageIsATurn
    <2>3. PICK g \in Gens : at[g].phase = "idle" /\ at' = [at EXCEPT ![g] = a]
      BY <1>8 DEF Generate
    <2>4. a \in ThreadStates /\ ~Active(a) /\ ~a.dirty
      BY IdleType DEF ThreadStates, Phases, Active, Idle
    <2>. HIDE DEF a
    <2>5. g \in Threads
      BY DEF Threads, Turns
    <2>6. \A u \in Threads : at'[u].dirty = at[u].dirty
      <3>1. ~at[g].dirty
        BY <2>3, <2>5, DirtyIsActive DEF Active
      <3>. QED  BY <2>3, <2>4, <2>5, <3>1, AtType DEF TypeInv, TypeOK, ThreadStates
    <2>7. Settled' /\ CacheSound' /\ UNCHANGED <<doc, meant, stored, given>>
      BY <1>8, <2>1, <2>2, <2>6, PageIsATurn DEF Generate, Says, Settled, CacheSound, Kept
    <2>. QED  BY <2>2, <2>3, <2>4, <2>5, <2>7, IdleIsSound, DocStays
  <1>. QED  BY <1>2, <1>3, <1>4, <1>5, <1>6, <1>7, <1>8 DEF Commands

LEMMA AnswerKept == ASSUME TypeInv, Kept, Answer PROVE Kept'
  <1>1. "page" \in Turns /\ at["page"].run \in Runs
    BY PageIsATurn, AtType, ThreadFields
  <1>2. PICK q : Save("page", [at["page"].run EXCEPT !.pending = q])
    BY DEF Answer
  <1>. DEFINE r == [at["page"].run EXCEPT !.pending = q]
  <1>3. r.applied = at["page"].run.applied /\ Save("page", r)
    BY <1>1, <1>2 DEF Runs
  <1>. HIDE DEF r
  <1>. QED  BY <1>1, <1>3, EndKept DEF Answer

LEMMA BreakOffKept == ASSUME TypeInv, Kept, AnswerFails \/ \E g \in Gens : RematchFails(g) PROVE Kept'
  <1>. SUFFICES ASSUME mishaps' = {} PROVE Kept'
    BY DEF Kept
  <1>1. PICK t \in Turns : BreakOff(t) /\ UNCHANGED <<doc, cached, meant, stored, given>>
    BY PageIsATurn DEF AnswerFails, RematchFails, Turns
  <1>2. t \in Threads /\ mishaps = {} /\ ~at[t].dirty /\ run' = run /\ at' = [at EXCEPT ![t] = Idle]
    BY <1>1, NoMishap, PageIsATurn DEF BreakOff
  <1>3. ~Active(Idle) /\ ~Idle.dirty /\ CacheSound'
    BY <1>1, <1>2 DEF Active, Idle, CacheSound, Kept
  <1>4. Idle.dirty = at[t].dirty
    BY <1>2, <1>3, AtType, ThreadFields, IdleType
  <1>. QED  BY <1>1, <1>2, <1>3, <1>4, IdleType, IdleIsSound, InsideKept

LEMMA GenStartKept == ASSUME TypeInv, Kept, NEW g \in Gens, GenStart(g) PROVE Kept'
  <1>. DEFINE a == [Idle EXCEPT !.phase = "list", !.run = run, !.todo = run.pending, !.job = "apply"]
  <1>1. g \in Turns /\ run \in Runs
    BY RunType DEF Turns
  <1>2. a \in ThreadStates
    BY <1>1, RunFields, IdleType DEF ThreadStates, Phases
  <1>3. a.phase = "list" /\ a.run = run /\ ~a.dirty /\ at' = [at EXCEPT ![g] = a]
    BY DEF Idle, GenStart
  <1>. HIDE DEF a
  <1>4. Chain(run.applied, doc.list, given.before, stored) => Sound(a, doc, given.before, stored)
    BY <1>3 DEF Sound
  <1>. QED  BY <1>1, <1>2, <1>3, <1>4, BeginKept DEF GenStart, Active

LEMMA RematchDoneKept == ASSUME TypeInv, Kept, NEW g \in Gens, RematchDone(g) PROVE Kept'
  <1>. DEFINE r == [at[g].run EXCEPT !.state = "done"]
  <1>1. g \in Turns /\ g \in Threads
    BY DEF Turns, Threads
  <1>2. r.applied = at[g].run.applied /\ Save(g, r)
    BY <1>1, AtType, ThreadFields DEF Runs, RematchDone
  <1>. HIDE DEF r
  <1>. QED  BY <1>1, <1>2, EndKept DEF RematchDone

LEMMA ReadListKept == ASSUME TypeInv, Kept, NEW t \in Threads, ReadList(t) PROVE Kept'
  <1>. SUFFICES ASSUME mishaps' = {} PROVE Kept'
    BY DEF Kept
  <1>. DEFINE a == at[t]
              skipped == [a EXCEPT !.todo = Tail(a.todo)]
              chosen == [a EXCEPT !.phase = "doc", !.old = Loaded.list]
  <1>1. mishaps = {} /\ UNCHANGED <<doc, meant, run, stored, given>> /\ Loaded = doc /\ cached' = <<doc>>
    BY LoadedIsDoc DEF ReadList, LoadCaches
  <1>2. /\ a \in ThreadStates /\ Shape(t, a) /\ a.phase = "list" /\ a.todo # <<>> /\ a.job = "apply"
        /\ Tail(a.todo) \in Seq(Proposals)
    BY AtType, ThreadFields, TodoType DEF ReadList, Shape
  <1>3. at' = [at EXCEPT ![t] = skipped] \/ at' = [at EXCEPT ![t] = chosen]
    <2>. DEFINE there == Head(at[t].todo).value \in Projects /\ Loaded.list[Head(at[t].todo).value] > 0
    <2>1. CASE there
      BY <2>1 DEF ReadList
    <2>2. CASE ~there
      BY <2>2 DEF ReadList
    <2>. QED  BY <2>1, <2>2
  <1>4. Chain(a.run.applied, doc.list, given.before, stored) /\ doc.list \in Entries
    BY <1>1, <1>2, ListOf DEF Kept, Sound, TypeInv, TypeOK
  <1>5. /\ skipped \in ThreadStates /\ skipped.phase = "list" /\ skipped.run = a.run
        /\ skipped.dirty = a.dirty
    BY <1>2 DEF ThreadStates
  <1>6. /\ chosen \in ThreadStates /\ chosen.phase = "doc" /\ chosen.run = a.run
        /\ chosen.dirty = a.dirty /\ chosen.old = doc.list /\ chosen.job = "apply"
    BY <1>1, <1>2, <1>4 DEF ThreadStates, Phases
  <1>7. CacheSound'
    BY <1>1 DEF CacheSound
  <1>. HIDE DEF skipped, chosen
  <1>8. Sound(skipped, doc, given.before, stored) /\ Sound(chosen, doc, given.before, stored) /\ Active(at[t])
    BY <1>2, <1>4, <1>5, <1>6 DEF Sound, Active
  <1>. QED  BY <1>1, <1>3, <1>5, <1>6, <1>7, <1>8, InsideKept

\* The copy a writer changes is what it intends.
LEMMA ChangedIsIntended ==
    ASSUME TypeInv, NEW t \in Threads, at[t].phase = "doc", Loaded = doc, Sound(at[t], doc, given.before, stored),
           ~Stale(at[t], given.before)
    PROVE  Changed(t) = Intends(at[t], doc)
  <1>. DEFINE v == Head(at[t].todo).value
  <1>1. /\ doc \in Documents /\ doc.list \in Entries /\ at[t].old \in Entries
        /\ at[t].job \in {"apply", "undo"} /\ v \in Facts
    BY AtType, ThreadFields, TodoType, ListOf DEF Shape, TypeInv, TypeOK
  <1>2. CASE at[t].job = "apply"
    <2>1. at[t].old = doc.list
      BY <1>2 DEF Sound
    <2>2. Changed(t) = [doc EXCEPT !.list = Plus(at[t].old, v)]
      BY <1>2 DEF Changed, Plus
    <2>. QED  BY <1>2, <2>1, <2>2 DEF Intends
  <1>3. CASE at[t].job = "undo"
    <2>1. doc.list = Plus(at[t].old, v)
      BY <1>3 DEF Sound
    <2>2. Minus(doc.list, v) = at[t].old
      BY <1>1, <2>1, PlusType
    <2>3. Changed(t) = [doc EXCEPT !.list = at[t].old]
      BY <1>3 DEF Changed
    <2>. QED  BY <1>3, <2>2, <2>3 DEF Intends
  <1>. QED  BY <1>1, <1>2, <1>3

LEMMA ReadDocKept == ASSUME TypeInv, Kept, NEW t \in Threads, ReadDoc(t) PROVE Kept'
  <1>. SUFFICES ASSUME mishaps' = {} PROVE Kept'
    BY DEF Kept
  <1>. DEFINE a == at[t]
              b == [a EXCEPT !.phase = "put", !.copy = Changed(t)]
  <1>1. mishaps = {} /\ UNCHANGED <<doc, meant, run, stored, given>> /\ Loaded = doc /\ cached' = <<doc>>
    BY LoadedIsDoc DEF ReadDoc, LoadCaches
  <1>2. a \in ThreadStates /\ Shape(t, a) /\ a.phase = "doc" /\ Sound(a, doc, given.before, stored)
    BY <1>1, AtType DEF ReadDoc, Kept
  <1>3. (Stale(a, given.before) \/ Changed(t) = Intends(a, doc)) /\ Changed(t) \in Documents
    BY <1>1, <1>2, ChangedIsIntended, ChangedType
  <1>4. at' = [at EXCEPT ![t] = b]
    BY <1>2 DEF ReadDoc, TypeInv, TypeOK
  <1>. HIDE DEF a
  <1>5. b \in ThreadStates
    BY <1>2, <1>3 DEF ThreadStates, Phases
  <1>6. /\ b.phase = "put" /\ b.job = a.job /\ b.todo = a.todo /\ b.run = a.run /\ b.old = a.old
        /\ b.dirty = a.dirty /\ b.copy = Changed(t)
    BY <1>2, <1>3 DEF ThreadStates
  <1>. HIDE DEF b
  <1>7. a.job \in {"apply", "undo"} /\ CacheSound'
    BY <1>1, <1>2 DEF Shape, CacheSound
  <1>7a. Sound(b, doc, given.before, stored)
    BY <1>2, <1>3, <1>6, <1>7 DEF Sound, Intends, Stale
  <1>8. Active(at[t])
    BY <1>2 DEF Active, a
  <1>. QED  BY <1>1, <1>4, <1>5, <1>6, <1>7, <1>7a, <1>8, InsideKept DEF a

LEMMA SkippedKept == ASSUME TypeInv, Kept, NEW t \in Threads, Skipped(t) PROVE Kept'
  <1>. SUFFICES ASSUME mishaps' = {} PROVE Kept'
    BY DEF Kept
  <1>. DEFINE a == at[t]
              b == After(t, FALSE, FALSE)
  <1>1. /\ mishaps = {} /\ UNCHANGED <<doc, meant, run, cached, stored, given>> /\ a.phase = "put"
        /\ at' = [at EXCEPT ![t] = b] /\ CacheSound'
    BY DEF Skipped, Kept, CacheSound
  <1>2. /\ a \in ThreadStates /\ Shape(t, a) /\ Sound(a, doc, given.before, stored) /\ a.dirty \in BOOLEAN
        /\ a.job = "apply" \/ b = Idle
    BY <1>1, AtType, ThreadFields, AfterType DEF Kept
  <1>3. b \in ThreadStates
    BY <1>1, AfterType
  <1>4. CASE a.job = "apply"
    <2>1. b.phase = "list" /\ b.run.applied = a.run.applied /\ b.dirty = a.dirty
      BY <1>1, <1>2, <1>4, AfterType
    <2>. HIDE DEF b
    <2>2. Sound(b, doc, given.before, stored) /\ Active(at[t])
      BY <1>1, <1>2, <1>4, <2>1 DEF Sound, Active
    <2>. QED  BY <1>1, <1>3, <2>1, <2>2, InsideKept
  <1>5. CASE a.job # "apply"
    <2>1. t \in Turns => Idle.dirty = a.dirty
      <3>1. CASE a.job = "undo"
        BY <1>1, <1>2, <3>1 DEF Sound, Idle
      <3>2. CASE a.job # "undo"
        <4>1. t \notin Turns
          BY <1>1, <1>2, <1>5, <3>2 DEF Shape
        <4>. QED  BY <4>1
      <3>. QED  BY <3>1, <3>2
    <2>2. b = Idle /\ ~Active(Idle)
      BY <1>2, <1>5 DEF Active, Idle
    <2>. QED  BY <1>1, <2>1, <2>2, IdleType, IdleIsSound, InsideKept
  <1>. QED  BY <1>4, <1>5

LEMMA EndApplyKept == ASSUME TypeInv, Kept, NEW t \in Threads, EndApply(t) PROVE Kept'
  <1>1. /\ at[t].phase = "list" /\ t \in Turns /\ at[t] \in ThreadStates
        /\ UNCHANGED <<doc, cached, meant, stored, given>>
    BY EndApplyForms, AtType
  <1>2. CASE Save(t, Emptied(at[t])) /\ at' = [at EXCEPT ![t] = Idle]
    <2>1. Emptied(at[t]).applied = at[t].run.applied
      BY <1>1, EmptiedType
    <2>. QED  BY <1>1, <1>2, <2>1, EndKept
  <1>3. ASSUME NEW b \in ThreadStates, at' = [at EXCEPT ![t] = b], UNCHANGED <<run, mishaps>>,
               b.phase = IF t = "page" THEN "ask" ELSE "rematch",
               b.dirty = at[t].dirty, b.run.applied = at[t].run.applied
        PROVE  Kept'
    <2>. SUFFICES ASSUME mishaps' = {} PROVE Kept'
      BY DEF Kept
    <2>1. mishaps = {} /\ CacheSound' /\ Chain(at[t].run.applied, doc.list, given.before, stored)
      BY <1>1, <1>3 DEF Kept, Sound, CacheSound
    <2>2. Sound(b, doc, given.before, stored) /\ Active(at[t])
      BY <1>1, <1>3, <2>1 DEF Sound, Active
    <2>. QED  BY <1>1, <1>3, <2>1, <2>2, InsideKept
  <1>. QED  BY <1>2, <1>3, EndApplyForms

\* What a write is meant to make of the document is what its thread intends.
LEMMA MeantIsIntended ==
    ASSUME TypeInv, NEW t \in Threads, at[t].phase = "put", mishaps = {}
    PROVE  Meant(t) = Intends(at[t], meant)
  <1>. DEFINE v == Head(at[t].todo).value
  <1>1. meant \in Documents
    BY DEF TypeInv, TypeOK
  <1>2. /\ [meant EXCEPT !.list[v] = @ + 1] = [meant EXCEPT !.list = Plus(meant.list, v)]
        /\ [meant EXCEPT !.list[v] = IF @ > 0 THEN @ - 1 ELSE 0] = [meant EXCEPT !.list = Minus(meant.list, v)]
    BY <1>1 DEF Documents, Plus, Minus
  <1>. QED  BY <1>2 DEF Meant, Intends

\* When t writes and no mishap follows, the others hold nothing of the document.
LEMMA OthersHoldNothing ==
    ASSUME TypeInv, NEW t \in Threads, Holding \subseteq {t}, NEW u \in Threads, u # t,
           ~Active(at[u]) \/ u \notin Turns, NEW d, NEW b, NEW st
    PROVE  Sound(at[u], d, b, st)
  <1>1. at[u].phase \notin {"doc", "put", "fill"}
    BY DEF Holding
  <1>2. at[u].phase \in Phases /\ Shape(u, at[u])
    BY AtType, ThreadFields
  <1>3. ~Active(at[u])
    BY <1>1, <1>2 DEF Shape, Active, Phases
  <1>. QED  BY <1>3, IdleIsSound

LEMMA SoundOnSameList ==
    ASSUME NEW a, NEW d, NEW e, NEW b, NEW st, Sound(a, d, b, st),
           a.phase \notin {"doc", "put", "fill"}, e.list = d.list
    PROVE  Sound(a, e, b, st)
  BY DEF Sound

\* Once the list is written by others, what was applied before is outdated.
LEMMA SoundOutdated ==
    ASSUME NEW a \in ThreadStates, NEW d, NEW e, NEW b, NEW st, NEW st2, Sound(a, d, b, st),
           a.phase \notin {"doc", "put", "fill"}, st \subseteq st2
    PROVE  Sound(a, e, st2, st2)
  <1>1. a.run.applied \in Seq(Applied)
    BY ThreadFields, RunFields
  <1>2. Len(a.run.applied) \in Nat
    BY <1>1
  <1>3. Chain(a.run.applied, d.list, b, st) => Chain(a.run.applied, e.list, st2, st2)
    BY <1>2, ChainOutdated
  <1>. QED  BY <1>3 DEF Sound

\* The writes of a turn, the list they leave and what it says of them.
LEMMA TurnStored ==
    ASSUME TypeInv, Kept, NEW t \in Threads, NEW logged \in BOOLEAN, Stored(t, logged), cached' = <<>>,
           mishaps' = {}, at[t].job \in {"apply", "undo"}
    PROVE  Kept'
  <1>. DEFINE a == at[t]
              b == After(t, logged, TRUE)
              v == Head(a.todo).value
  <1>1. /\ mishaps = {} /\ Holding \subseteq {t} /\ run' = run /\ a.phase = "put"
        /\ doc' = a.copy /\ meant' = Meant(t) /\ at' = [at EXCEPT ![t] = b]
        /\ ~Stale(a, given.before)
    BY DEF Stored, If, Stale
  <1>2. /\ a \in ThreadStates /\ Shape(t, a) /\ Sound(a, doc, given.before, stored) /\ doc = meant
        /\ doc \in Documents /\ doc.list \in Entries
    BY <1>1, AtType, ListOf DEF Kept, TypeInv, TypeOK
  <1>3. doc' = Intends(a, doc) /\ doc' = meant'
    BY <1>1, <1>2, MeantIsIntended DEF Sound
  <1>4. b \in ThreadStates /\ \A u \in Threads : at'[u] = IF u = t THEN b ELSE at[u]
    BY <1>1, AfterType DEF TypeInv, TypeOK
  <1>5. /\ stored \subseteq stored' /\ (a.job = "apply" => Head(a.todo) \in stored')
        /\ given'.before = IF logged THEN given.before ELSE stored'
    BY DEF Stored, Outdates
  <1>6. t \in Turns /\ Active(a) /\ a.todo \in Seq(Proposals) /\ a.todo # <<>>
    BY <1>1, <1>2, ThreadFields DEF Shape, Active
  <1>7. Head(a.todo) \in Proposals /\ v \in Facts
    BY <1>6, TodoType
  <1>8. Alone'
    BY <1>1, <1>2, <1>4, <1>6, AloneStep DEF Kept
  <1>9. \A u \in Threads : u # t => Sound(at[u], doc', given'.before, stored')
    BY <1>1, <1>6, OthersHoldNothing DEF Kept, Alone
  <1>10. \A u \in Turns : u # t => ~at[u].dirty
    <2>1. \A u \in Turns : u # t => ~Active(at[u])
      BY <1>1, <1>6 DEF Kept, Alone
    <2>. QED  BY <2>1, DirtyIsActive, PageIsATurn
  <1>11. a.run.applied \in Seq(Applied) /\ Len(a.run.applied) \in Nat /\ run.applied \in Seq(Applied)
         /\ Len(run.applied) \in Nat
    <2>1. a.run \in Runs /\ run \in Runs
      BY <1>2, ThreadFields, RunType
    <2>2. a.run.applied \in Seq(Applied) /\ run.applied \in Seq(Applied)
      BY <2>1, RunFields
    <2>. QED  BY <2>2
  <1>12. Sound(b, doc', given'.before, stored') /\ Settled'
    <2>1. CASE a.job = "apply"
      <3>1. /\ b.phase = "list" /\ b.dirty
            /\ b.run.applied = IF logged THEN Append(a.run.applied, [by |-> Head(a.todo), old |-> a.old])
                               ELSE a.run.applied
        BY <1>1, <2>1, AfterType
      <3>2. Chain(a.run.applied, doc.list, given.before, stored) /\ a.old = doc.list
        BY <1>1, <1>2, <2>1 DEF Sound
      <3>3. doc'.list = Plus(doc.list, v)
        BY <1>2, <1>3, <2>1 DEF Intends, Documents
      <3>. DEFINE x == [by |-> Head(a.todo), old |-> a.old]
      <3>4. x \in Applied /\ x.old = doc.list /\ x.by = Head(a.todo) /\ x.by.value = v
        BY <1>2, <1>7, <3>2 DEF Applied
      <3>. HIDE DEF x
      <3>5. CASE logged
        <4>1. Chain(Append(a.run.applied, x), Plus(x.old, x.by.value), given.before, stored')
          BY <1>5, <1>11, <2>1, <3>2, <3>4, ChainMore
        <4>. QED  BY <1>4, <1>5, <1>6, <3>1, <3>3, <3>4, <3>5, <4>1 DEF Sound, Settled, x
      <3>6. CASE ~logged
        <4>1. Chain(a.run.applied, doc'.list, stored', stored')
          BY <1>5, <1>11, <3>2, ChainOutdated
        <4>. QED  BY <1>4, <1>5, <1>6, <3>1, <3>6, <4>1 DEF Sound, Settled
      <3>. QED  BY <3>5, <3>6
    <2>2. CASE a.job = "undo"
      <3>1. /\ doc.list = Plus(a.old, v) /\ Chain(a.run.applied, a.old, given.before, stored)
            /\ a.old \in Entries /\ ~a.dirty
        BY <1>1, <1>2, <2>2, ThreadFields DEF Sound
      <3>2. doc'.list = Minus(doc.list, v)
        BY <1>2, <1>3, <2>2 DEF Intends, Documents
      <3>3. doc'.list = a.old /\ stored' = stored
        BY <1>7, <2>2, <3>1, <3>2, PlusType DEF Stored
      <3>4. CASE logged
        <4>1. b.phase = "list" /\ b.dirty /\ b.run = a.run
          BY <1>1, <2>2, <3>4, AfterType
        <4>2. Chain(b.run.applied, doc'.list, given'.before, stored')
          BY <1>5, <3>1, <3>3, <3>4, <4>1
        <4>. QED  BY <1>4, <1>6, <4>1, <4>2 DEF Sound, Settled
      <3>5. CASE ~logged
        <4>1. b = Idle /\ ~Active(Idle)
          BY <1>1, <2>2, <3>5, AfterType DEF Active, Idle
        <4>2. Sound(b, doc', given'.before, stored')
          BY <4>1, IdleIsSound
        <4>3. Chain(run.applied, doc.list, given.before, stored)
          BY <1>1, <1>10, <3>1 DEF Kept, Settled
        <4>4. Chain(run.applied, doc'.list, stored', stored')
          BY <1>5, <1>11, <4>3, ChainOutdated
        <4>. QED  BY <1>1, <1>5, <3>5, <4>2, <4>4 DEF Settled
      <3>. QED  BY <3>4, <3>5
    <2>. QED  BY <2>1, <2>2
  <1>. HIDE DEF b
  <1>13. \A u \in Threads : Sound(at'[u], doc', given'.before, stored')
    BY <1>4, <1>9, <1>12
  <1>14. CacheSound'
    BY DEF CacheSound
  <1>. QED  BY <1>3, <1>8, <1>12, <1>13, <1>14 DEF Kept

\* The owner's write: of the field it leaves the list, of the list it outdates
\* what was applied.
LEMMA OwnerStored ==
    ASSUME TypeInv, Kept, NEW t \in Threads, NEW logged \in BOOLEAN, Stored(t, logged), cached' = <<>>,
           mishaps' = {}, at[t].job \notin {"apply", "undo"}
    PROVE  Kept'
  <1>. DEFINE a == at[t]
              b == After(t, logged, TRUE)
  <1>1. /\ mishaps = {} /\ Holding \subseteq {t} /\ run' = run /\ a.phase = "put"
        /\ doc' = a.copy /\ meant' = Meant(t) /\ at' = [at EXCEPT ![t] = b]
        /\ ~Stale(a, given.before) /\ stored' = stored
    BY DEF Stored, If, Stale
  <1>2. /\ a \in ThreadStates /\ Shape(t, a) /\ Sound(a, doc, given.before, stored) /\ doc = meant
        /\ doc \in Documents
    BY <1>1, AtType DEF Kept, TypeInv, TypeOK
  <1>3. doc' = Intends(a, doc) /\ doc' = meant'
    BY <1>1, <1>2, MeantIsIntended DEF Sound
  <1>4. t \notin Turns /\ b = Idle
    <2>1. t \notin Turns
      BY <1>1, <1>2 DEF Shape
    <2>2. b = Idle
      BY <1>1, AfterType
    <2>. QED  BY <2>1, <2>2
  <1>5. Idle \in ThreadStates /\ ~Active(Idle) /\ \A u \in Threads : at'[u] = IF u = t THEN Idle ELSE at[u]
    BY <1>1, <1>4, IdleType DEF Active, Idle, TypeInv, TypeOK
  <1>6. \A u \in Turns : at'[u] = at[u]
    BY <1>4, <1>5, PageIsATurn
  <1>7. Alone'
    BY <1>1, <1>4, <1>5, AloneStep DEF Kept
  <1>8. CASE a.job \notin {"list", "seed"}
    <2>1. doc'.list = doc.list /\ given'.before = given.before
      <3>1. a.job \in {"none", "field"}
        BY <1>2, <1>8, ThreadFields
      <3>2. CASE a.job = "field"
        BY <1>2, <1>3, <3>2 DEF Intends, Documents, Stored, Outdates
      <3>3. CASE a.job = "none"
        BY <1>1, <1>2, <3>3 DEF Shape
      <3>. QED  BY <3>1, <3>2, <3>3
    <2>2. ASSUME NEW u \in Threads, u # t PROVE Sound(at[u], doc', given'.before, stored')
      <3>1. at[u].phase \notin {"doc", "put", "fill"} /\ Sound(at[u], doc, given.before, stored)
        BY <1>1, <2>2 DEF Holding, Kept
      <3>. QED  BY <1>1, <2>1, <3>1, SoundOnSameList
    <2>3. \A u \in Threads : Sound(at'[u], doc', given'.before, stored')
      BY <1>5, <2>2, IdleIsSound
    <2>4. Settled'
      BY <1>1, <1>6, <2>1 DEF Settled, Kept
    <2>. QED  BY <1>3, <1>7, <2>3, <2>4 DEF Kept, CacheSound
  <1>9. CASE a.job \in {"list", "seed"}
    <2>1. given'.before = stored'
      BY <1>9 DEF Stored, Outdates
    <2>2. ASSUME NEW u \in Threads, u # t PROVE Sound(at[u], doc', given'.before, stored')
      <3>1. at[u].phase \notin {"doc", "put", "fill"} /\ Sound(at[u], doc, given.before, stored)
        BY <1>1, <2>2 DEF Holding, Kept
      <3>2. at[u] \in ThreadStates
        BY AtType
      <3>3. Sound(at[u], doc', stored', stored')
        BY <1>1, <3>1, <3>2, SoundOutdated
      <3>. QED  BY <2>1, <3>3
    <2>3. \A u \in Threads : Sound(at'[u], doc', given'.before, stored')
      BY <1>5, <2>2, IdleIsSound
    <2>4. ASSUME \A u \in Turns : ~at[u].dirty PROVE Chain(run.applied, doc'.list, stored', stored')
      <3>1. run.applied \in Seq(Applied)
        BY RunType, RunFields
      <3>2. Len(run.applied) \in Nat /\ Chain(run.applied, doc.list, given.before, stored)
        BY <1>1, <2>4, <3>1 DEF Kept, Settled
      <3>. QED  BY <1>1, <3>2, ChainOutdated
    <2>5. Settled'
      BY <1>1, <1>6, <2>1, <2>4 DEF Settled
    <2>. QED  BY <1>3, <1>7, <2>3, <2>5 DEF Kept, CacheSound
  <1>. QED  BY <1>8, <1>9

LEMMA StoredKept ==
    ASSUME TypeInv, Kept, NEW t \in Threads, NEW logged \in BOOLEAN, Stored(t, logged), cached' = <<>>
    PROVE  Kept'
  <1>1. CASE mishaps' = {}
    BY <1>1, TurnStored, OwnerStored
  <1>2. CASE mishaps' # {}
    BY <1>2 DEF Kept
  <1>. QED  BY <1>1, <1>2

LEMMA PutKept == ASSUME TypeInv, Kept, NEW t \in Threads, Put(t) \/ PutFails(t) PROVE Kept'
  <1>1. CASE Skipped(t)
    BY <1>1, SkippedKept
  <1>2. ASSUME NEW logged \in BOOLEAN, Stored(t, logged), cached' = <<>> PROVE Kept'
    BY <1>2, StoredKept
  <1>3. Put(t) => Stored(t, TRUE) /\ cached' = <<>>
    BY DEF Put
  <1>. QED  BY <1>1, <1>2, <1>3, FailedForms

LEMMA OthersKept == ASSUME TypeInv, Kept, Others PROVE Kept'
  <1>. SUFFICES ASSUME mishaps' = {} PROVE Kept'
    BY DEF Kept
  <1>0. CASE Stop
    <2>1. /\ mishaps = {} /\ UNCHANGED <<doc, cached, meant, at, stored, given>>
          /\ run' = [run EXCEPT !.state = "stopped", !.pending = <<>>]
      BY <1>0 DEF Stop
    <2>2. run'.applied = run.applied
      BY <2>1, RunType DEF Runs
    <2>. QED  BY <2>1, <2>2 DEF Kept, Settled, CacheSound, Alone, Active
  <1>1. CASE PatchFact \/ Seed
    <2>0. PICK job \in {"field", "list", "seed"}, c \in Documents :
              /\ Edit(job, c)
              /\ job = "field" => c = [Loaded EXCEPT !.field = c.field]
              /\ job = "list" => c = [Loaded EXCEPT !.list = c.list]
      BY <1>1, EditorForms
    <2>. DEFINE a == [Idle EXCEPT !.phase = "put", !.job = job, !.copy = c]
    <2>1. /\ mishaps = {} /\ UNCHANGED <<doc, meant, run, stored, given>> /\ Loaded = doc
          /\ cached' = <<doc>>
      BY <2>0, LoadedIsDoc DEF Edit, LoadCaches
    <2>2. a \in ThreadStates
      BY IdleType DEF ThreadStates, Phases
    <2>3. a.phase = "put" /\ a.job = job /\ a.copy = c
      BY DEF Idle
    <2>4. at' = [at EXCEPT !["editor"] = a]
      BY <2>0 DEF Edit
    <2>. HIDE DEF a
    <2>5. CacheSound'
      BY <2>1 DEF CacheSound
    <2>6. c = Intends(a, doc)
      BY <2>0, <2>1, <2>3 DEF Intends
    <2>7. Sound(a, doc, given.before, stored)
      BY <2>3, <2>6 DEF Sound
    <2>. QED  BY <2>1, <2>2, <2>4, <2>5, <2>7, OthersAreNoTurns, InsideKept
  <1>2. ASSUME NEW e \in Edits, ProfileSet(e) PROVE Kept'
    <2>1. /\ mishaps = {} /\ cached = <<>> /\ Holding = {}
          /\ doc' = [doc EXCEPT !.field = e] /\ meant' = [meant EXCEPT !.field = e]
          /\ UNCHANGED <<cached, run, at, stored, given>>
      BY <1>2 DEF ProfileSet, If
    <2>2. doc = meant /\ doc'.list = doc.list /\ Alone' /\ Settled' /\ CacheSound'
      BY <2>1 DEF Kept, Alone, Settled, CacheSound, Active, TypeInv, TypeOK, Documents
    <2>3. ASSUME NEW u \in Threads PROVE Sound(at[u], doc', given'.before, stored')
      <3>1. at[u].phase \notin {"doc", "put", "fill"}
        BY <2>1 DEF Holding
      <3>. QED  BY <2>1, <2>2, <3>1, SoundOnSameList DEF Kept
    <2>. QED  BY <2>1, <2>2, <2>3 DEF Kept
  <1>3. CASE ReaderMisses
    <2>. DEFINE a == [Idle EXCEPT !.phase = "fill", !.copy = doc]
    <2>1. mishaps = {} /\ UNCHANGED <<doc, meant, run, cached, stored, given>> /\ at' = [at EXCEPT !["reader"] = a]
      BY <1>3 DEF ReaderMisses
    <2>2. a \in ThreadStates
      BY IdleType DEF ThreadStates, Phases, TypeInv, TypeOK
    <2>3. a.phase = "fill" /\ a.copy = doc
      BY DEF Idle
    <2>. HIDE DEF a
    <2>4. Sound(a, doc, given.before, stored) /\ CacheSound'
      BY <2>1, <2>3 DEF Sound, CacheSound, Kept
    <2>. QED  BY <2>1, <2>2, <2>4, OthersAreNoTurns, InsideKept
  <1>4. CASE ReaderFills
    <2>1. /\ mishaps = {} /\ UNCHANGED <<doc, meant, run, stored, given>> /\ at' = [at EXCEPT !["reader"] = Idle]
          /\ at["reader"].phase = "fill"
      BY <1>4 DEF ReaderFills
    <2>2. at["reader"].copy = doc
      BY <2>1, OthersAreNoTurns DEF Kept, Sound
    <2>3. CacheSound' /\ ~Active(Idle)
      BY <1>4, <2>1, <2>2 DEF ReaderFills, CacheSound, Kept, Active, Idle
    <2>. QED  BY <2>1, <2>3, OthersAreNoTurns, IdleType, IdleIsSound, InsideKept
  <1>5. CASE Restart
    <2>1. /\ mishaps = {} /\ \A t \in Turns : ~at[t].dirty
          /\ UNCHANGED <<doc, meant, run, stored, given>> /\ cached' = <<>>
      BY <1>5 DEF Restart, If
    <2>2. \A t \in Threads : at'[t] = Idle /\ ~Active(at'[t])
      BY <1>5 DEF Restart, Active, Idle
    <2>3. \A t \in Threads : Sound(at'[t], doc', given'.before, stored')
      BY <2>2, IdleIsSound
    <2>4. Alone' /\ Settled' /\ CacheSound'
      BY <2>1, <2>2, PageIsATurn DEF Alone, Settled, CacheSound, Kept
    <2>. QED  BY <2>1, <2>3, <2>4 DEF Kept
  <1>. QED  BY <1>0, <1>1, <1>2, <1>3, <1>4, <1>5 DEF Others

LEMMA NextKept == TypeInv /\ Kept /\ [Next]_vars => Kept'
  <1>. SUFFICES ASSUME TypeInv, Kept, [Next]_vars PROVE Kept'
    OBVIOUS
  <1>1. CASE UNCHANGED vars
    BY <1>1 DEF vars, Kept, CacheSound, Alone, Settled, Active
  <1>2. CASE Turning
    <2>1. CASE Answer \/ AnswerFails \/ \E g \in Gens : RematchFails(g)
      BY <2>1, AnswerKept, BreakOffKept
    <2>2. CASE \E g \in Gens : GenStart(g) \/ RematchDone(g)
      BY <2>2, GenStartKept, RematchDoneKept
    <2>3. CASE \E t \in Threads : ReadList(t) \/ ReadDoc(t) \/ Put(t) \/ PutFails(t) \/ EndApply(t)
      BY <2>3, ReadListKept, ReadDocKept, PutKept, EndApplyKept
    <2>. QED  BY <1>2, <2>1, <2>2, <2>3 DEF Turning
  <1>. QED  BY <1>1, <1>2, CommandsKept, OthersKept, NextForms

LEMMA KeptHolds == Spec => []Kept
  BY InitKept, NextKept, TypeInvHolds, PTL DEF Spec

\* Until two writers overlap, a turn breaks off after a write, the command line
\* writes beside a warm cache, or an undo puts back a list that the owner or a
\* write without a log has outdated, the stored document is what its writers
\* meant, batched, undone, edited, seeded, failed or restarted in any order.
THEOREM NoWriteIsLost == Spec => []NothingIsLost
  <1>1. Kept => NothingIsLost
    BY DEF Kept, NothingIsLost
  <1>. QED  BY <1>1, KeptHolds, PTL

-----------------------------------------------------------------------------
(* Each confirmed proposal is stored once.                                  *)

\* A queue of proposals from the messages up to the n-th, none of them in st,
\* no two alike.
Waits(q, st, n) ==
    /\ \A i \in 1 .. Len(q) : q[i] \notin st /\ q[i].say <= n
    /\ \A i, j \in 1 .. Len(q) : q[i] = q[j] => i = j

\* What thread t, in state a, has still to store or will put back as pending;
\* the page's turn applies what earlier messages proposed.
Queued(t, a, st, n) ==
    /\ a.phase \in {"list", "doc", "put"} /\ t \in Turns =>
          \/ a.job = "undo" /\ Waits(a.run.pending, st, n)
          \/ a.job = "apply" /\ Waits(a.todo, st, IF t = "page" THEN n - 1 ELSE n)
    /\ a.phase = "rematch" => a.run.pending = <<>>

\* What is stored was proposed by an earlier message.
Aged == \A p \in stored : p.say <= says /\ (Active(at["page"]) => p.say <= says - 1)

Pending == (\A t \in Turns : ~at[t].dirty) => Waits(run.pending, stored, says)

Of(f, st) == {p \in st : p.value = f}

Counted ==
    /\ IsFiniteSet(stored)
    /\ \A f \in Facts : doc.list[f] <= given.list[f] + Cardinality(Of(f, stored))

Once ==
    mishaps = {} =>
        /\ \A t \in Threads : Queued(t, at[t], stored, says)
        /\ Aged
        /\ Pending
        /\ Counted

LEMMA SaysIsNat == ASSUME TypeInv PROVE says \in Nat /\ \A p \in stored : p.say \in Nat
  BY ConstantsAssumption DEF TypeInv, TypeOK, Proposals

LEMMA GivenType == ASSUME TypeInv PROVE given.list \in Entries /\ \A f \in Facts : given.list[f] \in Nat
  BY DEF TypeInv, TypeOK, Entries

LEMMA NothingWaits == ASSUME NEW st, NEW n PROVE Waits(<<>>, st, n)
  BY DEF Waits

LEMMA WaitsLater ==
    ASSUME NEW q \in Seq(Proposals), NEW st, NEW n \in Int, NEW m \in Int, n <= m, Waits(q, st, n)
    PROVE  Waits(q, st, m)
  <1>1. ASSUME NEW i \in 1 .. Len(q) PROVE q[i].say \in Int
    <2>1. q[i] \in Proposals
      BY ElementOfSeq
    <2>. QED  BY <2>1, ConstantsAssumption DEF Proposals
  <1>. QED  BY <1>1 DEF Waits

LEMMA WaitsTail ==
    ASSUME NEW q \in Seq(Proposals), q # <<>>, NEW st, NEW n, Waits(q, st, n)
    PROVE  /\ Waits(Tail(q), st, n) /\ Waits(Tail(q), st \cup {Head(q)}, n)
           /\ Head(q) \notin st /\ Head(q).say <= n
  <1>1. /\ Len(q) \in Nat /\ Len(q) >= 1 /\ Head(q) = q[1] /\ Len(Tail(q)) = Len(q) - 1
        /\ \A i \in 1 .. Len(Tail(q)) : Tail(q)[i] = q[i + 1]
    BY EmptySeq, HeadTailProperties
  <1>2. \A i \in 1 .. Len(Tail(q)) : i + 1 \in 1 .. Len(q) /\ i + 1 # 1
    BY <1>1
  <1>3. 1 \in 1 .. Len(q)
    BY <1>1
  <1>4. \A i \in 1 .. Len(Tail(q)) : Tail(q)[i] \notin st \cup {Head(q)} /\ Tail(q)[i].say <= n
    BY <1>1, <1>2, <1>3 DEF Waits
  <1>5. \A i, j \in 1 .. Len(Tail(q)) : Tail(q)[i] = Tail(q)[j] => i = j
    <2>. SUFFICES ASSUME NEW i \in 1 .. Len(Tail(q)), NEW j \in 1 .. Len(Tail(q)), Tail(q)[i] = Tail(q)[j]
                  PROVE  i = j
      OBVIOUS
    <2>1. i + 1 = j + 1
      BY <1>1, <1>2 DEF Waits
    <2>. QED  BY <1>1, <2>1
  <1>. QED  BY <1>1, <1>3, <1>4, <1>5 DEF Waits

\* One more proposal stored is one more entry it accounts for.
LEMMA CountMore ==
    ASSUME TypeInv, Counted, NEW p \in Proposals, p \notin stored, stored' = stored \cup {p},
           doc'.list = Plus(doc.list, p.value), given'.list = given.list
    PROVE  Counted'
  <1>. DEFINE v == p.value
              C(f) == Cardinality(Of(f, stored))
  <1>1. v \in Facts /\ doc.list \in Entries
    BY ListOf DEF Proposals, TypeInv, TypeOK
  <1>2. IsFiniteSet(stored')
    BY FS_AddElement DEF Counted
  <1>3. \A f \in Facts : IsFiniteSet(Of(f, stored)) /\ C(f) \in Nat
    BY FS_Subset, FS_CardinalityType DEF Of, Counted
  <1>4. Cardinality(Of(v, stored')) = C(v) + 1
    <2>1. Of(v, stored') = Of(v, stored) \cup {p} /\ p \notin Of(v, stored)
      BY DEF Of
    <2>. QED  BY <1>1, <1>3, <2>1, FS_AddElement
  <1>5. ASSUME NEW f \in Facts, f # v PROVE Of(f, stored') = Of(f, stored)
    BY <1>5 DEF Of
  <1>6. doc'.list[v] = doc.list[v] + 1 /\ \A f \in Facts : f # v => doc'.list[f] = doc.list[f]
    BY <1>1 DEF Plus, Entries
  <1>7. ASSUME NEW f \in Facts PROVE doc'.list[f] <= given'.list[f] + Cardinality(Of(f, stored'))
    <2>1. doc.list[f] <= given.list[f] + C(f) /\ doc.list[f] \in Nat /\ given.list[f] \in Nat
      BY <1>1, GivenType DEF Counted, Entries
    <2>. HIDE DEF C
    <2>2. CASE f = v
      BY <1>1, <1>3, <1>4, <1>6, <2>1, <2>2
    <2>3. CASE f # v
      BY <1>5, <1>6, <2>1, <2>3 DEF C
    <2>. QED  BY <2>2, <2>3
  <1>. QED  BY <1>2, <1>7 DEF Counted

\* A step of thread t that stores nothing and adds nothing to the list.
LEMMA OnceStep ==
    ASSUME TypeInv, Once, mishaps = {}, NEW t \in Threads, NEW a \in ThreadStates,
           at' = [at EXCEPT ![t] = a], stored' = stored, doc'.list = doc.list, given' = given,
           \/ says' = says /\ (t = "page" /\ Active(a) => Active(at[t]))
           \/ says' = says + 1 /\ ~Active(at["page"]),
           Queued(t, a, stored, says'), Pending'
    PROVE  Once'
  <1>. USE SaysIsNat
  <1>1. \A u \in Threads : at'[u] = IF u = t THEN a ELSE at[u]
    BY DEF TypeInv, TypeOK
  <1>2. ASSUME NEW u \in Threads, u # t PROVE Queued(u, at[u], stored, says')
    <2>1. Queued(u, at[u], stored, says)
      BY DEF Once
    <2>2. CASE says' = says
      BY <2>1, <2>2
    <2>3. CASE says' = says + 1 /\ ~Active(at["page"])
      <3>1. u = "page" => at[u].phase \notin {"list", "doc", "put", "rematch"}
        BY <2>3 DEF Active
      <3>2. at[u].run.pending \in Seq(Proposals) /\ at[u].todo \in Seq(Proposals)
        BY AtType, ThreadFields, RunFields
      <3>3. /\ Waits(at[u].run.pending, stored, says) => Waits(at[u].run.pending, stored, says')
            /\ Waits(at[u].todo, stored, says) => Waits(at[u].todo, stored, says')
        BY <2>3, <3>2, WaitsLater
      <3>. QED  BY <2>1, <3>1, <3>3 DEF Queued
    <2>. QED  BY <2>2, <2>3
  <1>3. \A u \in Threads : Queued(u, at'[u], stored', says')
    BY <1>1, <1>2
  <1>4. Aged'
    BY <1>1, PageIsATurn DEF Once, Aged
  <1>5. Counted'
    BY DEF Once, Counted
  <1>. QED  BY <1>3, <1>4, <1>5 DEF Once

\* Nobody has anything to store when no turn has written.
LEMMA PendingWaits ==
    ASSUME TypeInv, Once, mishaps = {}, NEW t \in Turns, InTurn(t) = {}, ~Active(at[t])
    PROVE  Waits(run.pending, stored, says)
  <1>1. \A u \in Turns : u # t => ~Active(at[u])
    BY DEF InTurn, Active
  <1>. QED  BY <1>1, DirtyIsActive, PageIsATurn DEF Once, Pending

\* A turn begins.
LEMMA BeginOnce ==
    ASSUME TypeInv, Once, NEW t \in Turns, NEW a \in ThreadStates, at' = [at EXCEPT ![t] = a],
           Load(t), UNCHANGED <<doc, stored, given>>, ~Active(at[t]),
           (says' = says + 1 /\ t = "page") \/ (says' = says /\ t # "page"),
           Waits(run.pending, stored, says) => Queued(t, a, stored, says')
    PROVE  Once'
  <1>. SUFFICES ASSUME mishaps' = {} PROVE Once'
    BY DEF Once
  <1>1. t \in Threads /\ mishaps = {} /\ InTurn(t) = {} /\ run' = run
    BY PageIsATurn, NoMishap
  <1>2. Waits(run.pending, stored, says)
    BY <1>1, PendingWaits
  <1>3. Waits(run.pending, stored, says')
    <2>1. run.pending \in Seq(Proposals)
      BY RunType, RunFields
    <2>2. says \in Int /\ says' \in Int /\ says <= says'
      BY SaysIsNat
    <2>. QED  BY <1>2, <2>1, <2>2, WaitsLater
  <1>4. Pending'
    BY <1>1, <1>3 DEF Pending
  <1>. QED  BY <1>1, <1>2, <1>4, OnceStep

\* A turn ends with its save.
LEMMA EndOnce ==
    ASSUME TypeInv, Once, NEW t \in Turns, at' = [at EXCEPT ![t] = Idle], NEW r, Save(t, r),
           UNCHANGED <<doc, stored, says, given>>,
           mishaps = {} => Waits(r.pending, stored, says)
    PROVE  Once'
  <1>. SUFFICES ASSUME mishaps' = {} PROVE Once'
    BY DEF Once
  <1>1. t \in Threads /\ mishaps = {} /\ run' = r
    BY PageIsATurn, NoMishap
  <1>2. Pending' /\ Queued(t, Idle, stored, says) /\ ~Active(Idle)
    BY <1>1 DEF Pending, Queued, Idle, Active
  <1>. QED  BY <1>1, <1>2, IdleType, OnceStep

\* A command that saves the conversation without changing a thread's work.
LEMMA SavedOnce ==
    ASSUME TypeInv, Once, NEW r, Save("page", r), UNCHANGED <<doc, stored, at, given>>, ~Active(at["page"]),
           says' = says \/ says' = says + 1,
           r.pending = run.pending \/ r.pending = <<>>
    PROVE  Once'
  <1>. SUFFICES ASSUME mishaps' = {} PROVE Once'
    BY DEF Once
  <1>1. mishaps = {} /\ InTurn("page") = {} /\ run' = r /\ "page" \in Turns
    BY PageIsATurn, NoMishap
  <1>2. Waits(run.pending, stored, says)
    BY <1>1, PendingWaits
  <1>3. Waits(run.pending, stored, says')
    <2>1. run.pending \in Seq(Proposals)
      BY RunType, RunFields
    <2>2. says \in Int /\ says' \in Int /\ says <= says'
      BY SaysIsNat
    <2>. QED  BY <1>2, <2>1, <2>2, WaitsLater
  <1>4. Pending'
    BY <1>1, <1>3, NothingWaits DEF Pending
  <1>5. at["page"] \in ThreadStates /\ at' = [at EXCEPT !["page"] = at["page"]] /\ "page" \in Threads
    BY AtType, PageIsATurn DEF TypeInv, TypeOK
  <1>6. Queued("page", at["page"], stored, says')
    BY DEF Queued, Active
  <1>. QED  BY <1>1, <1>4, <1>5, <1>6, OnceStep

\* Within a turn, or off it.
LEMMA InsideOnce ==
    ASSUME TypeInv, Once, mishaps = {}, NEW t \in Threads, NEW a \in ThreadStates,
           at' = [at EXCEPT ![t] = a], UNCHANGED <<run, stored, says, given>>, doc'.list = doc.list,
           Queued(t, a, stored, says),
           t \in Turns => a.dirty = at[t].dirty /\ (~Active(a) \/ Active(at[t]))
    PROVE  Once'
  <1>1. \A u \in Threads : at'[u] = IF u = t THEN a ELSE at[u]
    BY DEF TypeInv, TypeOK
  <1>2. \A u \in Turns : at'[u].dirty = at[u].dirty
    BY <1>1, PageIsATurn
  <1>3. Pending'
    BY <1>2 DEF Once, Pending
  <1>. QED  BY <1>3, OnceStep, PageIsATurn

LEMMA InitOnce == Init => Once
  <1>. SUFFICES ASSUME Init PROVE Once
    OBVIOUS
  <1>1. \A t \in Threads : Queued(t, at[t], stored, says)
    BY DEF Init, Idle, Queued
  <1>2. Aged /\ Pending
    BY NothingWaits DEF Init, Aged, Pending, NewRun
  <1>3. IsFiniteSet(stored) /\ \A f \in Facts : Of(f, stored) = {}
    BY FS_EmptySet DEF Init, Of
  <1>4. \A f \in Facts : doc.list[f] = 0 /\ given.list[f] = 0
    BY DEF Init, Empty, NoneGiven
  <1>5. Counted
    BY <1>3, <1>4, FS_EmptySet DEF Counted
  <1>. QED  BY <1>1, <1>2, <1>5 DEF Once

LEMMA CommandsOnce == ASSUME TypeInv, Once, Commands PROVE Once'
  <1>1. "page" \in Turns /\ run \in Runs /\ run.pending \in Seq(Proposals)
    BY PageIsATurn, RunType, RunFields
  <1>2. ~Active(at["page"]) /\ UNCHANGED <<doc, stored, given>>
    BY DEF Commands, Tell, Yes, Skip, Done, Undo, Generate, StopMessage, Says, Active
  <1>3. says' = says + 1
    BY DEF Commands, Tell, Yes, Skip, Done, Undo, Generate, StopMessage, Says
  <1>4. CASE Tell
    <2>. DEFINE a == [Idle EXCEPT !.phase = "ask", !.run = OneMore(run)]
                r == [run EXCEPT !.state = "done"]
    <2>1. CASE cap_status(run) /\ at' = [at EXCEPT !["page"] = a] /\ Load("page")
      <3>1. OneMore(run) \in Runs
        BY <1>1, <2>1, OneMoreType
      <3>2. a \in ThreadStates /\ a.phase = "ask"
        BY <3>1, IdleType DEF ThreadStates, Phases
      <3>. HIDE DEF a
      <3>3. Queued("page", a, stored, says')
        BY <3>2 DEF Queued
      <3>. QED  BY <1>1, <1>2, <1>3, <1>4, <2>1, <3>2, <3>3, BeginOnce
    <2>2. CASE Save("page", r) /\ UNCHANGED at
      <3>1. r.pending = run.pending
        BY <1>1, RunFields
      <3>. HIDE DEF r
      <3>. QED  BY <1>2, <1>3, <1>4, <2>2, <3>1, SavedOnce
    <2>. QED  BY <1>4, <2>1, <2>2 DEF Tell, OneMore
  <1>5. CASE Yes
    <2>1. PICK more \in BOOLEAN :
            at' = [at EXCEPT !["page"] = [Idle EXCEPT !.phase = "list", !.run = run, !.more = more,
                                                      !.todo = run.pending, !.job = "apply"]]
      BY <1>5 DEF Yes
    <2>. DEFINE a == [Idle EXCEPT !.phase = "list", !.run = run, !.more = more,
                                  !.todo = run.pending, !.job = "apply"]
    <2>2. a \in ThreadStates
      BY <1>1, IdleType DEF ThreadStates, Phases
    <2>3. a.phase = "list" /\ a.job = "apply" /\ a.todo = run.pending
      BY DEF Idle
    <2>4. at' = [at EXCEPT !["page"] = a] /\ Load("page")
      BY <1>5, <2>1 DEF Yes
    <2>. HIDE DEF a
    <2>5. says' - 1 = says
      BY <1>3, <1>5, SaysIsNat
    <2>6. Waits(run.pending, stored, says) => Queued("page", a, stored, says')
      BY <2>3, <2>5 DEF Queued
    <2>. QED  BY <1>1, <1>2, <1>3, <1>5, <2>2, <2>4, <2>6, BeginOnce
  <1>6. CASE Undo
    <2>. DEFINE last == run.applied[Len(run.applied)]
                a == [Idle EXCEPT !.phase = "doc", !.job = "undo", !.old = last.old, !.todo = <<last.by>>,
                                  !.run = Undone(run)]
    <2>1. at' = [at EXCEPT !["page"] = a] /\ run.applied # <<>> /\ Load("page")
      BY <1>6 DEF Undo, Undone
    <2>2. last \in Applied /\ Undone(run) \in Runs /\ Undone(run).pending = run.pending
      BY <1>1, <2>1, LastApplied
    <2>. HIDE DEF last
    <2>3. last.old \in Entries /\ <<last.by>> \in Seq(Proposals)
      BY <2>2 DEF Applied
    <2>4. a \in ThreadStates
      BY <2>2, <2>3, IdleType DEF ThreadStates, Phases
    <2>5. a.phase = "doc" /\ a.job = "undo" /\ a.run.pending = run.pending
      BY <2>2 DEF Idle
    <2>. HIDE DEF a
    <2>6. says \in Int /\ says' \in Int /\ says <= says'
      BY <1>3, <1>6, SaysIsNat
    <2>7. Waits(run.pending, stored, says) => Queued("page", a, stored, says')
      BY <1>1, <2>5, <2>6, WaitsLater DEF Queued
    <2>. QED  BY <1>1, <1>2, <1>3, <1>6, <2>1, <2>4, <2>7, BeginOnce
  <1>7. CASE Skip
    <2>. DEFINE r == [run EXCEPT !.pending = <<>>]
    <2>1. r.pending = <<>> /\ Save("page", r) /\ UNCHANGED at
      BY <1>1, <1>7 DEF Skip, Runs
    <2>. HIDE DEF r
    <2>. QED  BY <1>2, <1>3, <1>7, <2>1, SavedOnce
  <1>8. CASE Done
    <2>. DEFINE r == [run EXCEPT !.state = "done"]
    <2>1. r.pending = run.pending /\ Save("page", r) /\ UNCHANGED at
      BY <1>1, <1>8 DEF Done, Runs
    <2>. HIDE DEF r
    <2>. QED  BY <1>2, <1>3, <1>8, <2>1, SavedOnce
  <1>9. CASE StopMessage
    <2>. DEFINE r == [run EXCEPT !.state = "stopped", !.pending = <<>>]
    <2>1. r.pending = <<>> /\ Save("page", r) /\ UNCHANGED at
      BY <1>1, <1>9 DEF StopMessage, Runs
    <2>. HIDE DEF r
    <2>. QED  BY <1>2, <1>3, <2>1, SavedOnce
  <1>10. CASE Generate
    <2>. SUFFICES ASSUME mishaps' = {} PROVE Once'
      BY DEF Once
    <2>. DEFINE r == [run EXCEPT !.state = "running"]
                a == [Idle EXCEPT !.phase = "queued"]
    <2>1. r.pending = run.pending /\ Save("page", r)
      BY <1>1, <1>10 DEF Generate, Runs
    <2>. HIDE DEF r
    <2>2. mishaps = {} /\ run' = r /\ InTurn("page") = {}
      BY <1>1, <2>1, NoMishap, PageIsATurn
    <2>3. PICK g \in Gens : at' = [at EXCEPT ![g] = a]
      BY <1>10 DEF Generate
    <2>4. a \in ThreadStates /\ ~Active(a) /\ Queued(g, a, stored, says')
      BY IdleType DEF ThreadStates, Phases, Active, Idle, Queued
    <2>. HIDE DEF a
    <2>5. says \in Int /\ says' \in Int /\ says <= says'
      BY <1>3, <1>10, SaysIsNat
    <2>6. Waits(run.pending, stored, says')
      BY <1>1, <1>2, <2>2, <2>5, PendingWaits, WaitsLater
    <2>7. Pending' /\ g \in Threads
      BY <1>2, <2>1, <2>2, <2>6 DEF Pending, Threads, Turns
    <2>. QED  BY <1>2, <1>3, <1>10, <2>2, <2>3, <2>4, <2>7, OnceStep
  <1>. QED  BY <1>4, <1>5, <1>6, <1>7, <1>8, <1>9, <1>10 DEF Commands

\* A new queue: facts of the message that is answered, each proposed once.
LEMMA AnswerOnce == ASSUME TypeInv, Once, Answer PROVE Once'
  <1>1. "page" \in Turns /\ "page" \in Threads /\ at["page"].run \in Runs /\ at["page"].phase = "ask"
    BY PageIsATurn, AtType, ThreadFields DEF Answer
  <1>2. PICK n \in 0 .. MaxBatch : \E value \in [1 .. n -> Facts] :
          /\ \A i, j \in 1 .. n : value[i] = value[j] => i = j
          /\ Save("page", [at["page"].run EXCEPT !.pending = [i \in 1 .. n |-> [say |-> says, value |-> value[i]]]])
    BY DEF Answer
  <1>3. PICK value \in [1 .. n -> Facts] :
          /\ \A i, j \in 1 .. n : value[i] = value[j] => i = j
          /\ Save("page", [at["page"].run EXCEPT !.pending = [i \in 1 .. n |-> [say |-> says, value |-> value[i]]]])
    BY <1>2
  <1>. DEFINE q == [i \in 1 .. n |-> [say |-> says, value |-> value[i]]]
              r == [at["page"].run EXCEPT !.pending = q]
  <1>4. Save("page", r) /\ r.pending = q
    BY <1>1, <1>3 DEF Runs
  <1>5. n \in Nat /\ says \in Nat
    BY ConstantsAssumption, SaysIsNat
  <1>6. ASSUME mishaps = {} PROVE Waits(q, stored, says)
    <2>1. Len(q) = n /\ \A i \in 1 .. n : q[i].say = says /\ q[i].value = value[i]
      BY <1>5
    <2>2. \A p \in stored : p.say # says
      BY <1>1, <1>6, SaysIsNat DEF Once, Aged, Active
    <2>3. ASSUME NEW i \in 1 .. Len(q) PROVE q[i] \notin stored /\ q[i].say <= says
      BY <1>5, <2>1, <2>2
    <2>4. ASSUME NEW i \in 1 .. Len(q), NEW j \in 1 .. Len(q), q[i] = q[j] PROVE i = j
      BY <1>3, <2>1, <2>4
    <2>. HIDE DEF q
    <2>. QED  BY <2>3, <2>4 DEF Waits
  <1>. HIDE DEF q, r
  <1>. QED  BY <1>1, <1>4, <1>6, EndOnce DEF Answer

LEMMA BreakOffOnce == ASSUME TypeInv, Once, AnswerFails \/ \E g \in Gens : RematchFails(g) PROVE Once'
  <1>. SUFFICES ASSUME mishaps' = {} PROVE Once'
    BY DEF Once
  <1>1. PICK t \in Turns : BreakOff(t) /\ UNCHANGED <<doc, stored, says, given>>
    BY PageIsATurn DEF AnswerFails, RematchFails, Turns
  <1>2. t \in Threads /\ mishaps = {} /\ ~at[t].dirty /\ run' = run /\ at' = [at EXCEPT ![t] = Idle]
    BY <1>1, NoMishap, PageIsATurn DEF BreakOff
  <1>3. ~Active(Idle) /\ ~Idle.dirty /\ Queued(t, Idle, stored, says)
    BY DEF Active, Idle, Queued
  <1>4. Idle.dirty = at[t].dirty
    BY <1>2, <1>3, AtType, ThreadFields, IdleType
  <1>. QED  BY <1>1, <1>2, <1>3, <1>4, IdleType, InsideOnce

LEMMA GenStartOnce == ASSUME TypeInv, Once, NEW g \in Gens, GenStart(g) PROVE Once'
  <1>. DEFINE a == [Idle EXCEPT !.phase = "list", !.run = run, !.todo = run.pending, !.job = "apply"]
  <1>1. g \in Turns /\ g # "page" /\ run \in Runs
    BY RunType, PageIsATurn DEF Turns
  <1>2. a \in ThreadStates
    BY <1>1, RunFields, IdleType DEF ThreadStates, Phases
  <1>3. /\ a.phase = "list" /\ a.job = "apply" /\ a.todo = run.pending /\ says' = says
        /\ at' = [at EXCEPT ![g] = a]
    BY DEF Idle, GenStart
  <1>. HIDE DEF a
  <1>4. Waits(run.pending, stored, says) => Queued(g, a, stored, says')
    BY <1>1, <1>3 DEF Queued
  <1>. QED  BY <1>1, <1>2, <1>3, <1>4, BeginOnce DEF GenStart, Active

LEMMA RematchDoneOnce == ASSUME TypeInv, Once, NEW g \in Gens, RematchDone(g) PROVE Once'
  <1>. DEFINE r == [at[g].run EXCEPT !.state = "done"]
  <1>1. g \in Turns /\ g \in Threads
    BY DEF Turns, Threads
  <1>2. r.pending = at[g].run.pending /\ Save(g, r)
    BY <1>1, AtType, ThreadFields DEF Runs, RematchDone
  <1>. HIDE DEF r
  <1>3. mishaps = {} => Waits(r.pending, stored, says)
    BY <1>1, <1>2, NothingWaits DEF RematchDone, Once, Queued
  <1>. QED  BY <1>1, <1>2, <1>3, EndOnce DEF RematchDone

LEMMA ReadListOnce == ASSUME TypeInv, Once, NEW t \in Threads, ReadList(t) PROVE Once'
  <1>. SUFFICES ASSUME mishaps' = {} PROVE Once'
    BY DEF Once
  <1>. DEFINE a == at[t]
              skipped == [a EXCEPT !.todo = Tail(a.todo)]
              chosen == [a EXCEPT !.phase = "doc", !.old = Loaded.list]
  <1>1. mishaps = {} /\ UNCHANGED <<doc, run, stored, says, given>>
    BY DEF ReadList
  <1>2. /\ a \in ThreadStates /\ Shape(t, a) /\ a.phase = "list" /\ a.todo # <<>> /\ a.job = "apply"
        /\ a.todo \in Seq(Proposals) /\ Tail(a.todo) \in Seq(Proposals) /\ t \in Turns
    BY AtType, ThreadFields, TodoType DEF ReadList, Shape
  <1>3. at' = [at EXCEPT ![t] = skipped] \/ at' = [at EXCEPT ![t] = chosen]
    <2>. DEFINE there == Head(at[t].todo).value \in Projects /\ Loaded.list[Head(at[t].todo).value] > 0
    <2>1. CASE there
      BY <2>1 DEF ReadList
    <2>2. CASE ~there
      BY <2>2 DEF ReadList
    <2>. QED  BY <2>1, <2>2
  <1>4. Queued(t, a, stored, says)
    BY <1>1 DEF Once
  <1>5. /\ Waits(a.todo, stored, IF t = "page" THEN says - 1 ELSE says)
        /\ Waits(Tail(a.todo), stored, IF t = "page" THEN says - 1 ELSE says)
    BY <1>2, <1>4, WaitsTail DEF Queued
  <1>6. /\ skipped \in ThreadStates /\ skipped.phase = "list" /\ skipped.job = "apply"
        /\ skipped.dirty = a.dirty /\ skipped.todo = Tail(a.todo)
    BY <1>2 DEF ThreadStates
  <1>7. Loaded.list \in Entries
    BY LoadedType, ListOf
  <1>8. /\ chosen \in ThreadStates /\ chosen.phase = "doc" /\ chosen.job = "apply"
        /\ chosen.dirty = a.dirty /\ chosen.todo = a.todo
    BY <1>2, <1>7 DEF ThreadStates, Phases
  <1>. HIDE DEF skipped, chosen
  <1>9. Queued(t, skipped, stored, says) /\ Queued(t, chosen, stored, says) /\ Active(at[t])
    BY <1>2, <1>5, <1>6, <1>8 DEF Queued, Active
  <1>. QED  BY <1>1, <1>3, <1>6, <1>8, <1>9, InsideOnce

LEMMA ReadDocOnce == ASSUME TypeInv, Once, NEW t \in Threads, ReadDoc(t) PROVE Once'
  <1>. SUFFICES ASSUME mishaps' = {} PROVE Once'
    BY DEF Once
  <1>. DEFINE a == at[t]
              b == [a EXCEPT !.phase = "put", !.copy = Changed(t)]
  <1>1. mishaps = {} /\ UNCHANGED <<doc, run, stored, says, given>>
    BY DEF ReadDoc
  <1>2. a \in ThreadStates /\ a.phase = "doc" /\ Queued(t, a, stored, says)
    BY <1>1, AtType DEF ReadDoc, Once
  <1>3. Changed(t) \in Documents /\ Active(at[t])
    BY <1>2, ChangedType DEF Active
  <1>4. at' = [at EXCEPT ![t] = b]
    BY <1>2 DEF ReadDoc, TypeInv, TypeOK
  <1>. HIDE DEF a
  <1>5. b \in ThreadStates
    BY <1>2, <1>3 DEF ThreadStates, Phases
  <1>6. b.phase = "put" /\ b.job = a.job /\ b.todo = a.todo /\ b.run = a.run /\ b.dirty = a.dirty
    BY <1>2 DEF ThreadStates
  <1>. HIDE DEF b
  <1>7. Queued(t, b, stored, says)
    BY <1>2, <1>6 DEF Queued
  <1>. QED  BY <1>1, <1>3, <1>4, <1>5, <1>6, <1>7, InsideOnce DEF a

\* A thread that gives up has nothing to store.
LEMMA IdleQueues == ASSUME NEW t, NEW st, NEW n PROVE Queued(t, Idle, st, n)
  BY DEF Queued, Idle

LEMMA SkippedOnce == ASSUME TypeInv, Kept, Once, NEW t \in Threads, Skipped(t) PROVE Once'
  <1>. SUFFICES ASSUME mishaps' = {} PROVE Once'
    BY DEF Once
  <1>. DEFINE a == at[t]
              b == After(t, FALSE, FALSE)
  <1>1. /\ mishaps = {} /\ UNCHANGED <<doc, run, stored, says, given>> /\ a.phase = "put"
        /\ at' = [at EXCEPT ![t] = b]
    BY DEF Skipped
  <1>2. /\ a \in ThreadStates /\ Shape(t, a) /\ Sound(a, doc, given.before, stored) /\ a.dirty \in BOOLEAN
        /\ Queued(t, a, stored, says) /\ b \in ThreadStates
    BY <1>1, AtType, ThreadFields, AfterType DEF Kept, Once
  <1>3. CASE a.job = "apply"
    <2>1. a.todo \in Seq(Proposals) /\ a.todo # <<>> /\ t \in Turns
      BY <1>1, <1>2, <1>3, ThreadFields DEF Shape
    <2>2. Waits(Tail(a.todo), stored, IF t = "page" THEN says - 1 ELSE says)
      BY <1>1, <1>2, <1>3, <2>1, WaitsTail DEF Queued
    <2>3. b.phase = "list" /\ b.job = "apply" /\ b.todo = Tail(a.todo) /\ b.dirty = a.dirty
      BY <1>1, <1>2, <1>3, AfterType
    <2>. HIDE DEF b
    <2>4. Queued(t, b, stored, says) /\ Active(at[t])
      BY <1>1, <2>2, <2>3 DEF Queued, Active
    <2>. QED  BY <1>1, <1>2, <2>3, <2>4, InsideOnce
  <1>4. CASE a.job # "apply"
    <2>1. b = Idle /\ ~Active(Idle)
      BY <1>1, <1>4, AfterType DEF Active, Idle
    <2>2. t \in Turns => Idle.dirty = a.dirty
      BY <1>1, <1>2, <1>4 DEF Shape, Sound, Idle
    <2>. QED  BY <1>1, <2>1, <2>2, IdleType, IdleQueues, InsideOnce
  <1>. QED  BY <1>3, <1>4

LEMMA EndApplyKeeps == ASSUME NEW t, EndApply(t) PROVE UNCHANGED <<doc, stored, says, given>>
  BY DEF EndApply

LEMMA EndApplyOnce == ASSUME TypeInv, Once, NEW t \in Threads, EndApply(t) PROVE Once'
  <1>1. /\ at[t].phase = "list" /\ t \in Turns /\ at[t] \in ThreadStates /\ Shape(t, at[t])
        /\ UNCHANGED <<doc, stored, says, given>>
    BY EndApplyForms, AtType, EndApplyKeeps
  <1>2. ASSUME mishaps = {}
        PROVE  /\ Waits(Emptied(at[t]).pending, stored, says)
               /\ t # "page" => Emptied(at[t]).pending = <<>>
    <2>1. Queued(t, at[t], stored, says)
      BY <1>2 DEF Once
    <2>2. CASE at[t].job = "undo"
      BY <1>1, <2>1, <2>2, EmptiedType DEF Queued, Shape
    <2>3. CASE at[t].job # "undo"
      BY <1>1, <2>1, <2>3, EmptiedType, NothingWaits DEF Queued
    <2>. QED  BY <2>2, <2>3
  <1>3. CASE Save(t, Emptied(at[t])) /\ at' = [at EXCEPT ![t] = Idle]
    BY <1>1, <1>2, <1>3, EndOnce
  <1>4. ASSUME NEW b \in ThreadStates, at' = [at EXCEPT ![t] = b], UNCHANGED <<run, mishaps>>,
               b.phase = IF t = "page" THEN "ask" ELSE "rematch",
               b.dirty = at[t].dirty, b.run.pending = Emptied(at[t]).pending
        PROVE  Once'
    <2>. SUFFICES ASSUME mishaps' = {} PROVE Once'
      BY DEF Once
    <2>1. Queued(t, b, stored, says) /\ Active(at[t])
      BY <1>1, <1>2, <1>4 DEF Queued, Active
    <2>. QED  BY <1>1, <1>4, <2>1, InsideOnce
  <1>. QED  BY <1>3, <1>4, EndApplyForms

LEMMA StoredOnce ==
    ASSUME TypeInv, Kept, Once, NEW t \in Threads, NEW logged \in BOOLEAN, Stored(t, logged)
    PROVE  Once'
  <1>. SUFFICES ASSUME mishaps' = {} PROVE Once'
    BY DEF Once
  <1>. DEFINE a == at[t]
              b == After(t, logged, TRUE)
              v == Head(a.todo).value
  <1>1. /\ mishaps = {} /\ UNCHANGED <<run, says>> /\ a.phase = "put"
        /\ doc' = a.copy /\ at' = [at EXCEPT ![t] = b]
        /\ stored' = stored \cup (IF a.job = "apply" THEN {Head(a.todo)} ELSE {})
        /\ given'.list = IF a.job \in {"list", "seed"} THEN a.copy.list ELSE given.list
        /\ ~Stale(a, given.before)
    BY DEF Stored, If, Stale
  <1>2. /\ a \in ThreadStates /\ Shape(t, a) /\ Sound(a, doc, given.before, stored) /\ Queued(t, a, stored, says)
        /\ doc \in Documents /\ doc.list \in Entries /\ b \in ThreadStates
    BY <1>1, AtType, AfterType, ListOf DEF Kept, Once, TypeInv, TypeOK
  <1>3. doc' = Intends(a, doc)
    BY <1>1, <1>2 DEF Sound
  <1>4. \A u \in Threads : at'[u] = IF u = t THEN b ELSE at[u]
    BY <1>1, <1>2 DEF TypeInv, TypeOK
  <1>5. CASE a.job = "apply"
    <2>. DEFINE p == Head(a.todo)
                n == IF t = "page" THEN says - 1 ELSE says
    <2>1. t \in Turns /\ Active(a) /\ a.todo \in Seq(Proposals) /\ a.todo # <<>> /\ says \in Nat
      BY <1>1, <1>2, <1>5, ThreadFields, SaysIsNat DEF Shape, Active
    <2>2. p \in Proposals /\ v \in Facts
      BY <2>1, TodoType
    <2>3. Waits(a.todo, stored, n)
      BY <1>1, <1>2, <1>5, <2>1 DEF Queued
    <2>4. Waits(Tail(a.todo), stored \cup {p}, n) /\ p \notin stored /\ p.say <= n
      BY <2>1, <2>3, WaitsTail
    <2>5. b.phase = "list" /\ b.dirty /\ b.job = "apply" /\ b.todo = Tail(a.todo)
      BY <1>1, <1>5, AfterType
    <2>6. \A u \in Turns : u # t => ~Active(at[u])
      BY <1>1, <2>1 DEF Kept, Alone
    <2>. HIDE DEF b
    <2>7. Queued(t, b, stored', says')
      BY <1>1, <1>5, <2>4, <2>5 DEF Queued
    <2>8. ASSUME NEW u \in Threads, u # t PROVE Queued(u, at[u], stored', says')
      <3>1. at[u].phase = "rematch" => u \in Turns
        BY AtType DEF Shape
      <3>. QED  BY <2>6, <2>8, <3>1 DEF Queued, Active
    <2>9. Pending'
      BY <1>4, <2>1, <2>5 DEF Pending
    <2>10. Counted'
      <3>1. doc'.list = Plus(doc.list, v)
        BY <1>2, <1>3, <1>5 DEF Intends, Documents
      <3>2. Counted /\ stored' = stored \cup {p} /\ given'.list = given.list
        BY <1>1, <1>5 DEF Once
      <3>. QED  BY <2>2, <2>4, <3>1, <3>2, CountMore
    <2>11. Aged'
      <3>1. p.say \in Int /\ says - 1 <= says
        BY <2>1, <2>2, ConstantsAssumption DEF Proposals
      <3>2. t # "page" => ~Active(at'["page"])
        BY <1>4, <2>6, PageIsATurn
      <3>3. t = "page" => Active(at["page"])
        BY <2>1
      <3>4. p.say <= says /\ (Active(at'["page"]) => p.say <= says - 1)
        BY <2>1, <2>4, <3>1, <3>2
      <3>5. Aged /\ \A q \in stored : q.say \in Int
        BY <1>1, SaysIsNat DEF Once
      <3>6. \A q \in stored : q.say <= says /\ (Active(at'["page"]) => q.say <= says - 1)
        <4>1. CASE t = "page"
          BY <3>3, <3>5, <4>1 DEF Aged
        <4>2. CASE t # "page"
          BY <3>2, <3>5, <4>2 DEF Aged
        <4>. QED  BY <4>1, <4>2
      <3>. QED  BY <1>1, <1>5, <3>4, <3>6 DEF Aged
    <2>12. \A u \in Threads : Queued(u, at'[u], stored', says')
      BY <1>4, <2>7, <2>8
    <2>. QED  BY <2>9, <2>10, <2>11, <2>12 DEF Once
  <1>6. CASE a.job # "apply"
    <2>1. stored' = stored
      BY <1>1, <1>6
    <2>2. Queued(t, b, stored, says)
      <3>1. CASE a.job = "undo" /\ logged
        <4>1. b.job = "undo" /\ b.phase = "list" /\ b.run = a.run
          BY <1>1, <3>1, AfterType
        <4>. HIDE DEF b
        <4>. QED  BY <1>1, <1>2, <3>1, <4>1 DEF Queued
      <3>2. CASE ~(a.job = "undo" /\ logged)
        <4>1. b = Idle
          BY <1>1, <1>6, <3>2, AfterType
        <4>. QED  BY <4>1, IdleQueues
      <3>. QED  BY <3>1, <3>2
    <2>3. \A u \in Threads : Queued(u, at'[u], stored', says')
      BY <1>1, <1>4, <2>1, <2>2 DEF Once
    <2>4. Aged'
      <3>1. Active(at'["page"]) => Active(at["page"])
        BY <1>1, <1>4, PageIsATurn DEF Active
      <3>. QED  BY <1>1, <2>1, <3>1 DEF Once, Aged
    <2>5. Pending'
      <3>1. CASE b.dirty /\ t \in Turns
        BY <1>4, <3>1 DEF Pending
      <3>2. CASE t \notin Turns
        <4>1. \A u \in Turns : at'[u] = at[u]
          BY <1>4, <3>2, PageIsATurn
        <4>. QED  BY <1>1, <2>1, <4>1 DEF Pending, Once
      <3>3. CASE t \in Turns /\ ~b.dirty
        <4>1. a.job = "undo" /\ ~a.dirty
          BY <1>1, <1>2, <1>6, <3>3 DEF Shape, Sound
        <4>2. \A u \in Turns : ~at[u].dirty
          <5>1. \A u \in Turns : u # t => ~Active(at[u])
            BY <1>1, <3>3 DEF Kept, Alone, Active
          <5>. QED  BY <4>1, <5>1, DirtyIsActive, PageIsATurn
        <4>. QED  BY <1>1, <2>1, <4>2 DEF Pending, Once
      <3>. QED  BY <3>1, <3>2, <3>3
    <2>6. ASSUME NEW f \in Facts PROVE doc'.list[f] <= given'.list[f] + Cardinality(Of(f, stored))
      <3>1. /\ doc.list[f] \in Nat /\ given.list[f] \in Nat /\ Cardinality(Of(f, stored)) \in Nat
            /\ doc.list[f] <= given.list[f] + Cardinality(Of(f, stored))
        BY <1>1, <1>2, GivenType, FS_Subset, FS_CardinalityType DEF Entries, Of, Once, Counted
      <3>2. CASE a.job = "undo"
        <4>1. v \in Facts
          BY <1>1, <1>2, <3>2, ThreadFields, TodoType DEF Shape
        <4>2. doc'.list = Minus(doc.list, v) /\ given'.list = given.list
          BY <1>1, <1>2, <1>3, <3>2 DEF Intends, Documents
        <4>. HIDE DEF v
        <4>3. doc'.list[f] \in Nat /\ doc'.list[f] <= doc.list[f]
          BY <1>2, <4>1, <4>2 DEF Minus, Entries
        <4>. QED  BY <3>1, <4>2, <4>3
      <3>3. CASE a.job \in {"list", "seed"}
        <4>1. doc'.list = given'.list /\ a.copy.list \in Entries
          BY <1>1, <1>2, <3>3, ListOf DEF ThreadStates
        <4>2. doc'.list[f] \in Nat
          BY <1>1, <4>1 DEF Entries
        <4>. QED  BY <3>1, <4>1, <4>2
      <3>4. CASE a.job = "field"
        <4>1. doc'.list = doc.list /\ given'.list = given.list
          BY <1>1, <1>2, <1>3, <3>4 DEF Intends, Documents
        <4>. QED  BY <3>1, <4>1
      <3>. QED  BY <1>1, <1>2, <1>6, <3>2, <3>3, <3>4 DEF Shape, ThreadStates
    <2>7. Counted'
      BY <1>1, <2>1, <2>6 DEF Counted, Once
    <2>. QED  BY <2>3, <2>4, <2>5, <2>7 DEF Once
  <1>. QED  BY <1>5, <1>6

LEMMA PutOnce == ASSUME TypeInv, Kept, Once, NEW t \in Threads, Put(t) \/ PutFails(t) PROVE Once'
  <1>1. CASE Skipped(t)
    BY <1>1, SkippedOnce
  <1>2. ASSUME NEW logged \in BOOLEAN, Stored(t, logged) PROVE Once'
    BY <1>2, StoredOnce
  <1>3. Put(t) => Stored(t, TRUE)
    BY DEF Put
  <1>. QED  BY <1>1, <1>2, <1>3, FailedForms

LEMMA OthersOnce == ASSUME TypeInv, Kept, Once, Others PROVE Once'
  <1>. SUFFICES ASSUME mishaps' = {} PROVE Once'
    BY DEF Once
  <1>1. mishaps = {} /\ UNCHANGED <<stored, says, given>>
    BY DEF Others, Stop, PatchFact, Seed, Edit, ProfileSet, ReaderMisses, ReaderFills, Restart, If
  <1>2. ASSUME NEW t \in Threads \ Turns, NEW a \in ThreadStates, at' = [at EXCEPT ![t] = a],
               doc' = doc, run' = run, a.phase # "rematch"
        PROVE  Once'
    <2>1. Queued(t, a, stored, says)
      BY <1>2 DEF Queued
    <2>. QED  BY <1>1, <1>2, <2>1, InsideOnce
  <1>0. CASE Stop
    <2>1. UNCHANGED <<doc, at>> /\ run' = [run EXCEPT !.state = "stopped", !.pending = <<>>]
      BY <1>0 DEF Stop
    <2>2. run'.pending = <<>>
      BY <2>1, RunType DEF Runs
    <2>3. Pending'
      BY <2>2, NothingWaits DEF Pending
    <2>. QED  BY <1>1, <2>1, <2>3 DEF Once, Aged, Counted, Active
  <1>3. CASE PatchFact \/ Seed
    <2>1. PICK job \in {"field", "list", "seed"}, c \in Documents : Edit(job, c)
      BY <1>3, EditorForms
    <2>. DEFINE a == [Idle EXCEPT !.phase = "put", !.job = job, !.copy = c]
    <2>2. a \in ThreadStates /\ a.phase = "put"
      BY IdleType DEF ThreadStates, Phases
    <2>3. at' = [at EXCEPT !["editor"] = a] /\ UNCHANGED <<doc, run>>
      BY <2>1 DEF Edit
    <2>. HIDE DEF a
    <2>. QED  BY <1>2, <2>2, <2>3, OthersAreNoTurns
  <1>4. ASSUME NEW e \in Edits, ProfileSet(e) PROVE Once'
    <2>1. at' = at /\ run' = run /\ doc'.list = doc.list
      BY <1>4 DEF ProfileSet, TypeInv, TypeOK, Documents
    <2>. QED  BY <1>1, <2>1 DEF Once, Aged, Pending, Counted, Active
  <1>5. CASE ReaderMisses
    <2>. DEFINE a == [Idle EXCEPT !.phase = "fill", !.copy = doc]
    <2>1. a \in ThreadStates /\ a.phase = "fill"
      BY IdleType DEF ThreadStates, Phases, TypeInv, TypeOK
    <2>2. at' = [at EXCEPT !["reader"] = a] /\ UNCHANGED <<doc, run>>
      BY <1>5 DEF ReaderMisses
    <2>. HIDE DEF a
    <2>. QED  BY <1>2, <2>1, <2>2, OthersAreNoTurns
  <1>6. CASE ReaderFills
    <2>1. Idle.phase = "idle" /\ at' = [at EXCEPT !["reader"] = Idle] /\ UNCHANGED <<doc, run>>
      BY <1>6 DEF ReaderFills, Idle
    <2>. QED  BY <1>2, <2>1, IdleType, OthersAreNoTurns
  <1>7. CASE Restart
    <2>1. /\ \A t \in Turns : ~at[t].dirty
          /\ \A t \in Threads : at'[t] = Idle /\ ~Active(at'[t])
          /\ UNCHANGED <<doc, run>>
      BY <1>7 DEF Restart, If, Active, Idle
    <2>2. \A t \in Threads : Queued(t, at'[t], stored', says')
      BY <2>1, IdleQueues
    <2>3. Waits(run.pending, stored, says)
      BY <1>1, <2>1 DEF Once, Pending
    <2>4. Aged' /\ Pending' /\ Counted'
      BY <1>1, <1>7, <2>1, <2>3, PageIsATurn DEF Once, Aged, Pending, Counted, Restart
    <2>. QED  BY <2>2, <2>4 DEF Once
  <1>. QED  BY <1>0, <1>3, <1>4, <1>5, <1>6, <1>7 DEF Others

LEMMA NextOnce == TypeInv /\ Kept /\ Once /\ [Next]_vars => Once'
  <1>. SUFFICES ASSUME TypeInv, Kept, Once, [Next]_vars PROVE Once'
    OBVIOUS
  <1>1. CASE UNCHANGED vars
    BY <1>1 DEF vars, Once, Aged, Pending, Counted, Active
  <1>2. CASE Turning
    <2>1. CASE Answer \/ AnswerFails \/ \E g \in Gens : RematchFails(g)
      BY <2>1, AnswerOnce, BreakOffOnce
    <2>2. CASE \E g \in Gens : GenStart(g) \/ RematchDone(g)
      BY <2>2, GenStartOnce, RematchDoneOnce
    <2>3. CASE \E t \in Threads : ReadList(t) \/ ReadDoc(t) \/ Put(t) \/ PutFails(t) \/ EndApply(t)
      BY <2>3, ReadListOnce, ReadDocOnce, PutOnce, EndApplyOnce
    <2>. QED  BY <1>2, <2>1, <2>2, <2>3 DEF Turning
  <1>. QED  BY <1>1, <1>2, CommandsOnce, OthersOnce, NextForms

LEMMA OnceHolds == Spec => []Once
  BY InitOnce, NextOnce, TypeInvHolds, KeptHolds, PTL DEF Spec

\* Without a mishap a list has no more entries of a fact than the owner gave it
\* himself and proposals of it were confirmed: none is stored twice, whatever
\* failed, was asked again, undone, stopped or left to a generation.
THEOREM StoredAsConfirmed == Spec => []AppliedAsConfirmed
  <1>1. Once => AppliedAsConfirmed
    BY DEF Once, Counted, AppliedAsConfirmed, Of
  <1>. QED  BY <1>1, OnceHolds, PTL
=============================================================================
