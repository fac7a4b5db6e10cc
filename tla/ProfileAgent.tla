---------------------------- MODULE ProfileAgent ----------------------------
(***************************************************************************)
(* The profile chat (pocs/profile_agent, apps/api/routers/profile_agent.py)*)
(* and the other writers of the profile document.                          *)
(*                                                                         *)
(* The document is read through a cache of the API process and written     *)
(* whole: a writer copies it, changes its copy, stores that and clears the *)
(* cache.  The conversation is a file, loaded at the start of a turn and   *)
(* saved at its end.  The threads are the page's inline turn, the          *)
(* generations in the pool behind /generate, the owner's editor (PATCH     *)
(* /fact on any path, POST /seed), a reader that fills the cache, and      *)
(* `profile set`, one step of a process of its own.                        *)
(*                                                                         *)
(* Left out: preferences and house rules (documents of their own), the     *)
(* time and money caps, which end a run the way the cap on turns does.  A  *)
(* handler that loads and saves the conversation with nothing in between   *)
(* is one step.                                                            *)
(***************************************************************************)
EXTENDS Integers, Sequences, FiniteSets

CONSTANTS
    Facts,        \* what an entry of a list of the profile can say
    Projects,     \* the facts that are a project's title, stored once
    Gens,         \* generations that can be queued or run at the same time
    Edits,        \* values the owner gives a field apart from the list
    Lists,        \* the facts the owner writes as a whole list, each alone
    MAX_TURNS,    \* turns of a conversation
    MaxBatch,     \* bound: proposals of one answer, about different facts
    MaxSays,      \* bound: messages
    MaxMishaps    \* bound: crashes, failed writes, answers and generations

ASSUME ConstantsAssumption ==
    /\ Projects \subseteq Facts /\ Lists \subseteq Facts
    /\ MAX_TURNS \in Nat /\ MaxBatch \in Nat /\ MaxSays \in Nat /\ MaxMishaps \in Nat
    /\ Gens \cap {"page", "editor", "reader"} = {}

Turns   == Gens \cup {"page"}
Threads == Turns \cup {"editor", "reader"}

VARIABLES
    doc,          \* the stored profile: entries of its list, an edited field
    cached,       \* load_profile's cache in the API process: <<>> or <<copy>>
    run,          \* status.json of the conversation
    at,           \* what each thread is doing
    says,         \* messages so far
    failures,     \* what failed so far
    stored,       \* ghost: the proposals that were ever stored
    meant,        \* ghost: the document, had every write been one step
    given,        \* ghost: the last list the owner wrote, and what an /undo
                  \*        would put an outdated list back for
    mishaps       \* ghost: what the guarantees below except

vars == <<doc, cached, run, at, says, failures, stored, meant, given, mishaps>>

Entries   == [Facts -> Nat]
Documents == [list : Entries, field : Edits \cup {"none"}]
Proposals == [say : 1 .. MaxSays, value : Facts]
Applied   == [by : Proposals, old : Entries]
Runs      == [state : {"running", "done", "stopped"}, pending : Seq(Proposals),
              applied : Seq(Applied), turns : 0 .. MAX_TURNS]

Empty     == [list |-> [f \in Facts |-> 0], field |-> "none"]
NewRun    == [state |-> "running", pending |-> <<>>, applied |-> <<>>, turns |-> 0]
NoneGiven == [list |-> Empty.list, before |-> {}]
Idle      == [phase |-> "idle", run |-> NewRun, todo |-> <<>>, more |-> FALSE,
              job |-> "none", copy |-> Empty, old |-> Empty.list, dirty |-> FALSE]

\* "ask" waits for the model; "list" and "doc" are about to read; "put" holds
\* the changed copy; "fill" holds what it will cache.
Phases == {"idle", "queued", "ask", "list", "doc", "put", "fill", "rematch"}

ThreadStates == [phase : Phases, run : Runs, todo : Seq(Proposals), more : BOOLEAN,
                 job : {"none", "apply", "undo", "field", "list", "seed"},
                 copy : Documents, old : Entries, dirty : BOOLEAN]

TypeOK ==
    /\ doc \in Documents /\ meant \in Documents
    /\ cached \in Seq(Documents) /\ Len(cached) <= 1
    /\ run \in Runs
    /\ at \in [Threads -> ThreadStates]
    /\ says \in 0 .. MaxSays /\ failures \in 0 .. MaxMishaps
    /\ stored \subseteq Proposals
    /\ given \in [list : Entries, before : SUBSET Proposals]
    /\ mishaps \subseteq {"raced", "broken", "elsewhere", "reverted"}

Init ==
    /\ doc = Empty /\ meant = Empty /\ cached = <<>> /\ run = NewRun
    /\ at = [t \in Threads |-> Idle]
    /\ says = 0 /\ failures = 0 /\ stored = {} /\ given = NoneGiven /\ mishaps = {}

-----------------------------------------------------------------------------
Over(r) == r.state \in {"done", "stopped"}

\* Threads that hold something they read of the document, and the turns, other
\* than t, that hold the conversation.
Holding    == {u \in Threads : at[u].phase \in {"doc", "put", "fill"}}
InTurn(t)  == {u \in Turns \ {t} : at[u].phase \notin {"idle", "queued"}}

If(cond, name) == IF cond THEN {name} ELSE {}

\* load_profile, when nothing writes between its query and its cache.
Loaded     == IF cached = <<>> THEN doc ELSE cached[1]
LoadCaches == cached' = <<Loaded>>

\* store.load at the start of t's turn and store.save at its end.
Load(t)    == mishaps' = mishaps \cup If(InTurn(t) # {}, "raced") /\ UNCHANGED run
Save(t, r) == mishaps' = mishaps \cup If(InTurn(t) # {}, "raced") /\ run' = r

\* A turn that ends without its save.
BreakOff(t) ==
    /\ at' = [at EXCEPT ![t] = Idle]
    /\ mishaps' = mishaps \cup If(at[t].dirty, "broken")
    /\ UNCHANGED run

\* Bound: after a mishap only what is under way goes on, and the Stop button.
\* (The run that only asks what holds before a mishap ends there altogether.)
Undisturbed == mishaps = {}

Fails == failures < MaxMishaps /\ failures' = failures + 1

\* Mutant of cap_status: one turn too many.
cap_status_late(r) == r.turns <= MAX_TURNS
cap_status(r) == r.turns < MAX_TURNS

-----------------------------------------------------------------------------
(* The page: one message at a time, the others wait for its answer.         *)

Says ==
    /\ at["page"].phase = "idle" /\ ~Over(run)
    /\ Undisturbed /\ says < MaxSays /\ says' = says + 1
    /\ UNCHANGED <<doc, cached, failures, stored, meant, given>>

\* A message that is not a command: the model is asked, or the cap ends the
\* run.  "yes" is such a message when nothing is pending.
Tell ==
    /\ Says
    /\ \/ /\ cap_status(run)
          /\ at' = [at EXCEPT !["page"] = [Idle EXCEPT !.phase = "ask",
                                                       !.run = [run EXCEPT !.turns = run.turns + 1]]]
          /\ Load("page")
       \/ /\ ~cap_status(run)
          /\ Save("page", [run EXCEPT !.state = "done"])
          /\ UNCHANGED at

\* "yes", with or without something new after it.
Yes ==
    /\ Says
    /\ run.pending # <<>>
    /\ \E more \in BOOLEAN :
          at' = [at EXCEPT !["page"] = [Idle EXCEPT !.phase = "list", !.run = run, !.more = more,
                                                    !.todo = run.pending, !.job = "apply"]]
    /\ Load("page")

Skip == Says /\ Save("page", [run EXCEPT !.pending = <<>>]) /\ UNCHANGED at
Done == Says /\ Save("page", [run EXCEPT !.state = "done"]) /\ UNCHANGED at

\* /undo: the last applied write gives back the list it found.
Undo ==
    /\ Says
    /\ run.applied # <<>>
    /\ LET before == SubSeq(run.applied, 1, Len(run.applied) - 1)
           last == run.applied[Len(run.applied)]
       IN  at' = [at EXCEPT !["page"] =
                     [Idle EXCEPT !.phase = "doc", !.job = "undo", !.old = last.old, !.todo = <<last.by>>,
                                  !.run = [run EXCEPT !.applied = before]]]
    /\ Load("page")

\* /generate: queued behind the request, whatever is already under way.
Generate ==
    /\ Says
    /\ Save("page", [run EXCEPT !.state = "running"])
    /\ \E g \in Gens :
          /\ at[g].phase = "idle"
          /\ at' = [at EXCEPT ![g] = [Idle EXCEPT !.phase = "queued"]]

\* /stop: what is pending is dropped.
StopMessage == Says /\ Save("page", [run EXCEPT !.state = "stopped", !.pending = <<>>]) /\ UNCHANGED at

\* Mutant of Stop: the proposals stay pending.
StopKeepsPending ==
    /\ run' = [run EXCEPT !.state = "stopped"]
    /\ UNCHANGED <<doc, cached, at, says, failures, stored, meant, given, mishaps>>

\* The Stop button, a request of its own: it looks at no state and waits for no
\* turn.  A turn that is under way saves over it.
Stop ==
    /\ run' = [run EXCEPT !.state = "stopped", !.pending = <<>>]
    /\ UNCHANGED <<doc, cached, at, says, failures, stored, meant, given, mishaps>>

-----------------------------------------------------------------------------
(* The model's answer.                                                      *)

\* Of what the model makes of a message, the proposals that quote it await
\* their yes (to_proposals drops the others), and replace those that waited.
Answer ==
    /\ at["page"].phase = "ask"
    /\ \E n \in 0 .. MaxBatch : \E value \in [1 .. n -> Facts] :
          /\ \A i, j \in 1 .. n : value[i] = value[j] => i = j
          /\ Save("page", [at["page"].run EXCEPT !.pending =
                              [i \in 1 .. n |-> [say |-> says, value |-> value[i]]]])
    /\ at' = [at EXCEPT !["page"] = Idle]
    /\ UNCHANGED <<doc, cached, says, failures, stored, meant, given>>

\* The provider fails: the turn is not saved, what it applied stays applied.
AnswerFails ==
    /\ at["page"].phase = "ask"
    /\ Fails /\ BreakOff("page")
    /\ UNCHANGED <<doc, cached, says, stored, meant, given>>

-----------------------------------------------------------------------------
(* Applying the pending proposals, one at a time.                           *)

\* A generation's thread loads the conversation; it looks at no state.
GenStart(g) ==
    /\ at[g].phase = "queued"
    /\ at' = [at EXCEPT ![g] = [Idle EXCEPT !.phase = "list", !.run = run, !.todo = run.pending,
                                            !.job = "apply"]]
    /\ Load(g)
    /\ UNCHANGED <<doc, cached, says, failures, stored, meant, given>>

\* apply_proposal reads the list; a project that is there is not added again.
ReadList(t) ==
    /\ at[t].phase = "list" /\ at[t].todo # <<>>
    /\ LoadCaches
    /\ LET this == at[t]
           p == Head(this.todo)
           there == p.value \in Projects /\ Loaded.list[p.value] > 0
       IN  at' = [at EXCEPT ![t] = IF there THEN [this EXCEPT !.todo = Tail(this.todo)]
                                   ELSE [this EXCEPT !.phase = "doc", !.old = Loaded.list]]
    /\ UNCHANGED <<doc, run, says, failures, stored, meant, given, mishaps>>

\* What the writer makes of the copy it loads.
Changed(t) ==
    [Loaded EXCEPT !.list = IF at[t].job = "undo" THEN at[t].old
                            ELSE [at[t].old EXCEPT ![Head(at[t].todo).value] = @ + 1]]

\* update_profile_fact loads the whole document, again.
ReadDoc(t) ==
    /\ at[t].phase = "doc"
    /\ LoadCaches
    /\ at' = [at EXCEPT ![t].phase = "put", ![t].copy = Changed(t)]
    /\ UNCHANGED <<doc, run, says, failures, stored, meant, given, mishaps>>

\* What is meant: one entry more, one entry less, what the owner gave.  After a
\* mishap it is what the document says.
Meant(t) ==
    IF mishaps # {} THEN doc'
    ELSE CASE at[t].job = "apply" -> [meant EXCEPT !.list[Head(at[t].todo).value] = @ + 1]
           [] at[t].job = "undo"  -> [meant EXCEPT !.list[Head(at[t].todo).value] =
                                                      IF @ > 0 THEN @ - 1 ELSE 0]
           [] at[t].job = "field" -> [meant EXCEPT !.field = at[t].copy.field]
           [] at[t].job = "list"  -> [meant EXCEPT !.list = at[t].copy.list]
           [] OTHER               -> at[t].copy

\* What follows a write: the next proposal, or the end of the turn or request.
After(t, logged, wrote) ==
    LET this == at[t]
        done == Append(this.run.applied, [by |-> Head(this.todo), old |-> this.old])
    IN  CASE this.job = "apply" ->
                [this EXCEPT !.phase = "list", !.todo = Tail(this.todo), !.dirty = this.dirty \/ wrote,
                             !.run = IF logged THEN [this.run EXCEPT !.applied = done] ELSE this.run]
          [] this.job = "undo" /\ logged -> [this EXCEPT !.phase = "list", !.todo = <<>>, !.dirty = TRUE]
          [] OTHER -> Idle

\* The list is no longer what the applied proposals made of it: the owner wrote
\* it whole, or the conversation does not know of this write.
Outdates(t, logged) == at[t].job \in {"list", "seed"} \/ (at[t].job \in {"apply", "undo"} /\ ~logged)

\* put_document stores the copy; then update_profile_fact logs the change.
Stored(t, logged) ==
    /\ at[t].phase = "put"
    /\ doc' = at[t].copy
    /\ meant' = Meant(t)
    /\ stored' = stored \cup (IF at[t].job = "apply" THEN {Head(at[t].todo)} ELSE {})
    /\ given' = [list   |-> IF at[t].job \in {"list", "seed"} THEN at[t].copy.list ELSE given.list,
                 before |-> IF Outdates(t, logged) THEN stored' ELSE given.before]
    /\ at' = [at EXCEPT ![t] = After(t, logged, TRUE)]
    /\ mishaps' = mishaps \cup If(Holding # {t}, "raced")
                          \cup If(at[t].job = "undo" /\ Head(at[t].todo) \in given.before, "reverted")
    /\ UNCHANGED <<run, says>>

\* Mutant of Put: the cache outlives the write.
PutForgets(t) == Stored(t, TRUE) /\ UNCHANGED <<cached, failures>>

\* save_profile stores the copy and clears the cache.  (A copy loaded between
\* the two is the one that was cached before.)
Put(t) == Stored(t, TRUE) /\ cached' = <<>> /\ UNCHANGED failures

\* The write or, after it, the log of it fails: a proposal is skipped and told
\* as not applied, an undo or an edit ends in an error.
PutFails(t) ==
    /\ at[t].phase = "put"
    /\ Fails
    /\ \/ /\ at' = [at EXCEPT ![t] = After(t, FALSE, FALSE)]
          /\ UNCHANGED <<doc, cached, run, says, stored, meant, given, mishaps>>
       \/ /\ at[t].job # "seed"
          /\ Stored(t, FALSE) /\ cached' = <<>>

\* Mutant of EndApply: the queue is not cleared.
EndApplyKeepsQueue(t) ==
    /\ at[t].phase = "list" /\ at[t].todo = <<>>
    /\ LET r == at[t].run
           asks == at[t].more /\ cap_status(r)
       IN  IF t \in Gens \/ asks
           THEN /\ at' = [at EXCEPT ![t].phase = IF t \in Gens THEN "rematch" ELSE "ask",
                                    ![t].run = IF asks THEN [r EXCEPT !.turns = r.turns + 1] ELSE r]
                /\ UNCHANGED <<run, mishaps>>
           ELSE Save(t, r) /\ at' = [at EXCEPT ![t] = Idle]
    /\ UNCHANGED <<doc, cached, says, failures, stored, meant, given>>

\* The queue of an apply is cleared.  What came after the yes is analysed in the same
\* turn, a generation goes on to the pipeline, any other turn is saved.
EndApply(t) ==
    /\ at[t].phase = "list" /\ at[t].todo = <<>>
    /\ LET r == IF at[t].job = "apply" THEN [at[t].run EXCEPT !.pending = <<>>] ELSE at[t].run
           asks == at[t].more /\ cap_status(r)
       IN  IF t \in Gens \/ asks
           THEN /\ at' = [at EXCEPT ![t].phase = IF t \in Gens THEN "rematch" ELSE "ask",
                                    ![t].run = IF asks THEN [r EXCEPT !.turns = r.turns + 1] ELSE r]
                /\ UNCHANGED <<run, mishaps>>
           ELSE Save(t, r) /\ at' = [at EXCEPT ![t] = Idle]
    /\ UNCHANGED <<doc, cached, says, failures, stored, meant, given>>

\* The re-match and the resume are done, minutes later.
RematchDone(g) ==
    /\ at[g].phase = "rematch"
    /\ Save(g, [at[g].run EXCEPT !.state = "done"])
    /\ at' = [at EXCEPT ![g] = Idle]
    /\ UNCHANGED <<doc, cached, says, failures, stored, meant, given>>

\* They fail: the exception ends the thread, and nothing is saved.
RematchFails(g) ==
    /\ at[g].phase = "rematch"
    /\ Fails /\ BreakOff(g)
    /\ UNCHANGED <<doc, cached, says, stored, meant, given>>

-----------------------------------------------------------------------------
(* The other writers, and a reader.                                         *)

\* The lists the owner writes (bound: one entry).
OwnerLists == {[f \in Facts |-> IF f = g THEN 1 ELSE 0] : g \in Lists}

\* A request of the owner's editor loads the document; Put stores the copy.
Edit(job, copy) ==
    /\ Undisturbed
    /\ at["editor"].phase = "idle" /\ copy # Loaded
    /\ LoadCaches
    /\ at' = [at EXCEPT !["editor"] = [Idle EXCEPT !.phase = "put", !.job = job, !.copy = copy]]
    /\ UNCHANGED <<doc, run, says, failures, stored, meant, given, mishaps>>

\* PATCH /v1/profile/fact sets what is at a path, the list included.
PatchFact ==
    \/ \E e \in Edits : Edit("field", [Loaded EXCEPT !.field = e])
    \/ \E l \in OwnerLists : Edit("list", [Loaded EXCEPT !.list = l])

\* POST /v1/profile/seed replaces the whole document, an existing one only by
\* force (without it the request only loads, as a reader does).
Seed ==
    \E e \in Edits, l \in OwnerLists, force \in BOOLEAN :
        /\ Loaded = Empty \/ force
        /\ Edit("seed", [list |-> l, field |-> e])

\* `profile set`, in a process of its own: the API's cache does not hear of it.
ProfileSet(e) ==
    /\ Undisturbed
    /\ doc.field # e
    /\ doc' = [doc EXCEPT !.field = e]
    /\ meant' = IF mishaps = {} THEN [meant EXCEPT !.field = e] ELSE doc'
    /\ mishaps' = mishaps \cup If(cached # <<>> \/ Holding # {}, "elsewhere")
    /\ UNCHANGED <<cached, run, at, says, failures, stored, given>>

\* A handler that only reads (a page, a prompt, a match) misses the cache ...
ReaderMisses ==
    /\ Undisturbed
    /\ at["reader"].phase = "idle" /\ cached = <<>>
    /\ at' = [at EXCEPT !["reader"] = [Idle EXCEPT !.phase = "fill", !.copy = doc]]
    /\ UNCHANGED <<doc, cached, run, says, failures, stored, meant, given, mishaps>>

\* ... and fills it, unless somebody did.
ReaderFills ==
    /\ at["reader"].phase = "fill"
    /\ cached' = IF cached = <<>> THEN <<at["reader"].copy>> ELSE cached
    /\ at' = [at EXCEPT !["reader"] = Idle]
    /\ UNCHANGED <<doc, run, says, failures, stored, meant, given, mishaps>>

\* The API process restarts: its threads, its pool and its cache are gone.
Restart ==
    /\ Fails
    /\ at' = [t \in Threads |-> Idle]
    /\ cached' = <<>>
    /\ mishaps' = mishaps \cup If(\E t \in Turns : at[t].dirty, "broken")
    /\ UNCHANGED <<doc, run, says, stored, meant, given>>

-----------------------------------------------------------------------------
Next ==
    \/ Tell \/ Yes \/ Skip \/ Done \/ Undo \/ Generate \/ StopMessage \/ Stop
    \/ Answer \/ AnswerFails
    \/ \E g \in Gens : GenStart(g) \/ RematchDone(g) \/ RematchFails(g)
    \/ \E t \in Threads : ReadList(t) \/ ReadDoc(t) \/ Put(t) \/ PutFails(t) \/ EndApply(t)
    \/ PatchFact \/ Seed
    \/ \E e \in Edits : ProfileSet(e)
    \/ ReaderMisses \/ ReaderFills
    \/ Restart

Spec == Init /\ [][Next]_vars

-----------------------------------------------------------------------------
\* The document is what its writers meant, whatever was batched, undone, edited,
\* seeded, refused or not logged in between: chained whole-document writes see
\* each other (apply_proposal's comment).  Excepted: two writers overlapped, a
\* turn broke off after a write, the command line wrote beside a warm cache, or
\* an /undo put back the list from before a later write that it does not know
\* of (the owner's, or one whose log failed).
NothingIsLost == mishaps = {} => doc = meant

\* Without such a mishap each proposal was stored once, whatever was skipped,
\* failed or asked again: the list has no more entries than the owner gave it
\* himself and confirmed proposals.
AppliedAsConfirmed ==
    mishaps = {} =>
        \A f \in Facts :
            doc.list[f] <= given.list[f] + Cardinality({p \in stored : p.value = f})

\* After a stop proposals are stored only by a turn that had loaded the
\* conversation before it.  The stop stays, unless the page's turn that had
\* loaded the conversation before it, or a generation that was still to end,
\* saves over it: the button waits for neither.
StopHolds ==
    [][ /\ stored' # stored =>
              \E t \in Turns : at[t].phase = "put" /\ at[t].run.state # "stopped"
        /\ (run.state = "stopped" /\ run' # run) =>
              \/ at["page"].phase \in {"ask", "list"} /\ at["page"].run.state # "stopped"
              \/ \E g \in Gens : at[g].phase = "rematch" ]_vars
=============================================================================
