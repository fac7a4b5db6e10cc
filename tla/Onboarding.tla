----------------------------- MODULE Onboarding -----------------------------
(* Agentic onboarding of one company: the row of its onboarding run, the    *)
(* background threads that resolve it (deterministic first, then a          *)
(* sandboxed agent), and the owner who answers the agent's question or      *)
(* stops the run.  A thread works on its own copy of the row and writes the *)
(* whole copy back through _emit, which first reads the row to see whether  *)
(* the run was stopped: the check and the write are two accesses.           *)
(*                                                                          *)
(* Abstractions: of the row only `state' is kept (events, evidence, cost,   *)
(* board and question follow the same overwrite); searches and the agent    *)
(* are one step with an outcome; nobody removes the company meanwhile.      *)
EXTENDS Naturals

CONSTANTS
    Threads,     \* background tasks at a time (bound: the pool runs two)
    MaxClicks    \* answers and stops of the owner, crashes (bound)

ASSUME BoundsAssumption == MaxClicks \in Nat
ASSUME ThreadsAssumption == Threads \cap {"answer", "stop"} = {}

VARIABLES
    state,       \* onboarding_runs: the state in the row, "absent" before start
    watchlist,   \* is the company on the watchlist?
    thread,      \* the background tasks
    answering,   \* how far a provide_input request has got
    stopping,    \* how far a stop request has got
    late,        \* history: the writers that were past their check when a
                 \* stop or a kill was written
    clicks,      \* owner's requests and crashes so far
    lost         \* history: did a crash take threads or requests with it?

vars == <<state, watchlist, thread, answering, stopping, late, clicks, lost>>

-----------------------------------------------------------------------------
Stopped == {"stopped", "killed"}                       \* _EXTERNAL_TERMINAL
Settled == {"resolved", "unresolved", "needs_input", "drafted", "error"} \cup Stopped
States == {"running"} \cup Settled

\* Where a thread is, and what follows the write it is busy with.  `mine' is
\* the state in the thread's copy of the row.
Thread == [pc: {"free", "queued", "check", "write", "search", "agent", "contract",
                "resolve", "add"},
           then: {"search", "agent", "contract", "over"}, mine: States, resumed: BOOLEAN]
FreeThread == [pc |-> "free", then |-> "over", mine |-> "running", resumed |-> FALSE]

Answer == "answer"       \* the provide_input request, as a writer of the row
Writers == Threads \cup {Answer}

TypeOK ==
    /\ state \in States \cup {"absent"}
    /\ watchlist \in BOOLEAN
    /\ thread \in [Threads -> Thread]
    /\ answering \in {"no", "check", "write", "submit"}
    /\ stopping \in {"no", "write"}
    /\ late \in SUBSET Writers
    /\ clicks \in 0 .. MaxClicks
    /\ lost \in BOOLEAN

Init ==
    /\ state = "absent"
    /\ watchlist = FALSE
    /\ thread = [t \in Threads |-> FreeThread]
    /\ answering = "no"
    /\ stopping = "no"
    /\ late = {}
    /\ clicks = 0
    /\ lost = FALSE

Click == clicks < MaxClicks /\ clicks' = clicks + 1

-----------------------------------------------------------------------------
(* _emit: check for a stop, then write the whole copy.                      *)

\* Mutant of Cancelled: only a stop counts, not a kill.
CancelledByStop(mine) == state = "stopped" /\ mine \notin Stopped

Cancelled(mine) == state \in Stopped /\ mine \notin Stopped

PastCheck ==
    {t \in Threads : thread[t].pc = "write"}
    \cup (IF answering = "write" THEN {Answer} ELSE {})

\* The row takes the writer's state.
WriteState(w, s) ==
    /\ state' = s
    /\ late' = IF s \in Stopped THEN PastCheck \ {w} ELSE late \ {w}

-----------------------------------------------------------------------------
(* Requests.                                                                *)

\* submit to the pool: a thread for _run or _resume.
Submit(resumed) ==
    \E t \in Threads :
        /\ thread[t].pc = "free"
        /\ thread' = [thread EXCEPT ![t] = [FreeThread EXCEPT !.pc = "queued",
                                                              !.resumed = resumed]]

Start ==
    /\ state = "absent"
    /\ state' = "running"
    /\ Submit(FALSE)
    /\ UNCHANGED <<watchlist, answering, stopping, late, clicks, lost>>

\* provide_input reads the row, whatever its state, and sets its copy running.
ProvideInput ==
    /\ state # "absent" /\ answering = "no"
    /\ Click
    /\ answering' = "check"
    /\ UNCHANGED <<state, watchlist, thread, stopping, late, lost>>

AnswerCheck ==
    /\ answering = "check"
    /\ answering' = IF Cancelled("running") THEN "no" ELSE "write"
    /\ UNCHANGED <<state, watchlist, thread, stopping, late, clicks, lost>>

AnswerWrite ==
    /\ answering = "write"
    /\ WriteState(Answer, "running")
    /\ answering' = "submit"
    /\ UNCHANGED <<watchlist, thread, stopping, clicks, lost>>

AnswerSubmit ==
    /\ answering = "submit"
    /\ Submit(TRUE)
    /\ answering' = "no"
    /\ UNCHANGED <<state, watchlist, stopping, late, clicks, lost>>

\* stop: kill the sandbox, ...
Stop ==
    /\ state # "absent" /\ stopping = "no"
    /\ Click
    /\ stopping' = "write"
    /\ UNCHANGED <<state, watchlist, thread, answering, late, lost>>

\* ... then write "stopped"; a copy in a terminal state is never cancelled.
StopWrite ==
    /\ stopping = "write"
    /\ WriteState("stop", "stopped")
    /\ stopping' = "no"
    /\ UNCHANGED <<watchlist, thread, answering, clicks, lost>>

-----------------------------------------------------------------------------
(* A background thread.                                                     *)

Goto(t, pc) == thread' = [thread EXCEPT ![t].pc = pc]

\* Next comes _emit with the copy in state `s', then `next'.
Emit(t, s, next) ==
    thread' = [thread EXCEPT ![t].pc = "check", ![t].mine = s, ![t].then = next]

Free(t) == thread' = [thread EXCEPT ![t] = FreeThread]

\* Mutant of Crashed: the exception is only logged.
CrashedSilently(t) == Free(t)

\* Any other exception: _finish with "error".
Crashed(t) == Emit(t, "error", "over")

RowUnchanged == UNCHANGED <<state, watchlist, answering, stopping, late, clicks, lost>>

\* _run and _resume read the row; _run announces the deterministic search.
\* The copy is in whatever state the row is by now.
Load(t) ==
    /\ thread[t].pc = "queued"
    /\ thread' = [thread EXCEPT ![t].mine = state, ![t].then = "search",
                                ![t].pc = IF thread[t].resumed THEN "agent" ELSE "check"]
    /\ RowUnchanged

\* _Cancelled ends the thread: it is caught, or lost in the pool's future.
Check(t) ==
    /\ thread[t].pc = "check"
    /\ IF Cancelled(thread[t].mine) THEN Free(t) ELSE Goto(t, "write")
    /\ RowUnchanged

Write(t) ==
    /\ thread[t].pc = "write"
    /\ WriteState(t, thread[t].mine)
    /\ IF thread[t].then = "over" THEN Free(t) ELSE Goto(t, thread[t].then)
    /\ UNCHANGED <<watchlist, answering, stopping, clicks, lost>>

\* A confident, validated board; none (escalate to the agent); an exception.
Search(t) ==
    /\ thread[t].pc = "search"
    /\ \/ Goto(t, "resolve")
       \/ Emit(t, thread[t].mine, "agent")
       \/ Crashed(t)
    /\ RowUnchanged

\* The agent reports progress ...
AgentReports(t) ==
    /\ thread[t].pc = "agent"
    /\ Emit(t, thread[t].mine, "agent")
    /\ RowUnchanged

\* ... until it returns a contract or raises; its time limit sees to that.
AgentEnds(t) ==
    /\ thread[t].pc = "agent"
    /\ Goto(t, "contract") \/ Crashed(t)
    /\ RowUnchanged

\* Mutant of Verdicts: the agent's own word for a company without a board.
VerdictsVerbatim == {"not_found", "drafted", "needs_input", "killed"}

\* What a contract that does not resolve the company makes of the run; a
\* status the service does not know, or an invalid board, is "unresolved".
Verdicts == {"unresolved", "drafted", "needs_input", "killed"}

\* _apply_agent_contract: respect a stop that landed while the agent ran,
\* then act on the status of the contract.
Contract(t) ==
    /\ thread[t].pc = "contract"
    /\ IF state \in Stopped
       THEN Free(t)
       ELSE \/ Goto(t, "resolve")
            \/ \E s \in Verdicts : Emit(t, s, "over")
    /\ RowUnchanged

\* _resolve_and_add: not if the run was stopped, ...
Resolve(t) ==
    /\ thread[t].pc = "resolve"
    /\ IF Cancelled(thread[t].mine) THEN Free(t) ELSE Goto(t, "add")
    /\ RowUnchanged

\* Mutant of AddCompany: the row is written without the company.
AddNothing == UNCHANGED watchlist

AddCompany == watchlist' = TRUE

\* ... add the company, then write the row.
Add(t) ==
    /\ thread[t].pc = "add"
    /\ AddCompany
    /\ Emit(t, "resolved", "over")
    /\ UNCHANGED <<state, answering, stopping, late, clicks, lost>>

-----------------------------------------------------------------------------
\* The process dies with its threads and requests; the row stays.
Crash ==
    /\ Click
    /\ thread' = [t \in Threads |-> FreeThread]
    /\ answering' = "no"
    /\ stopping' = "no"
    /\ lost' = TRUE
    /\ late' = {}
    /\ UNCHANGED <<state, watchlist>>

Handler == AnswerCheck \/ AnswerWrite \/ AnswerSubmit \/ StopWrite

Work(t) ==
    \/ Load(t) \/ Check(t) \/ Write(t) \/ Search(t) \/ AgentReports(t) \/ AgentEnds(t)
    \/ Contract(t) \/ Resolve(t) \/ Add(t)

Next ==
    \/ Start \/ ProvideInput \/ Stop
    \/ Handler
    \/ \E t \in Threads : Work(t)
    \/ Crash

SafetySpec == Init /\ [][Next]_vars

\* Threads and requests run on, and an agent ends within its time limit.
Fairness ==
    /\ WF_vars(AnswerCheck) /\ WF_vars(AnswerWrite) /\ WF_vars(AnswerSubmit)
    /\ WF_vars(StopWrite)
    /\ \A t \in Threads : WF_vars(Work(t)) /\ SF_vars(AgentEnds(t))

Spec == SafetySpec /\ Fairness

-----------------------------------------------------------------------------
(* Properties.                                                              *)

\* "Don't add to the watchlist if the user stopped it" (_resolve_and_add).  The
\* code does not keep this promise: a thread that starts after the stop reads
\* "stopped" into its own copy, and no check ever cancels such a copy.
StoppedIsNotAdded == [][(state \in Stopped) => (watchlist' = watchlist)]_vars

\* "The worker bails WITHOUT overwriting that state with its own (now stale)
\* in-memory state" (_Cancelled) holds but for one race: a stop or a kill is
\* undone only by a write whose check was already past when the stop was
\* written - never by a writer that checked afterwards, however old its copy.
StopUndoneOnlyByALateWrite ==
    [][(state \in Stopped /\ state' \notin Stopped) => (late \ late' # {})]_vars

\* A run reported as resolved has its company on the watchlist.
ResolvedIsAdded == state = "resolved" => watchlist

\* The frontend polls while a run is "running": it does not for ever, in
\* whatever order answers, stops and threads write - unless the process died.
RunSettles == (state = "running") ~> (state \in Settled \/ lost)

=============================================================================
