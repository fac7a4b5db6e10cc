-------------------------- MODULE OnboardingProofs --------------------------
(* What TLAPS proves about Onboarding, for every set of threads and every   *)
(* number of requests.                                                      *)
EXTENDS Onboarding, TLAPS

-----------------------------------------------------------------------------
(* The inductive invariant.                                                 *)

\* A copy is in state "resolved" only when the company was added.
CopiesAdded ==
    \A t \in Threads : thread[t].mine = "resolved" => watchlist

\* While a run is stopped, a writer that is past its check and would undo the
\* stop was past it when the stop was written.
LateOnly ==
    state \in Stopped =>
        /\ \A t \in Threads :
              thread[t].pc = "write" /\ thread[t].mine \notin Stopped => t \in late
        /\ answering = "write" => Answer \in late

\* Threads and requests read a row that is there.
Begun ==
    state = "absent" => /\ \A t \in Threads : thread[t].pc = "free"
                        /\ answering = "no"
                        /\ stopping = "no"

Inv == TypeOK /\ Begun /\ ResolvedIsAdded /\ CopiesAdded /\ LateOnly

-----------------------------------------------------------------------------
LEMMA FreeThreadType == FreeThread \in Thread /\ FreeThread.mine = "running"
  BY DEF FreeThread, Thread, States, Settled, Stopped

LEMMA ClickType == ASSUME TypeOK, Click PROVE clicks' \in 0 .. MaxClicks
  <1>1. clicks \in 0 .. MaxClicks /\ MaxClicks \in Nat
    BY BoundsAssumption DEF TypeOK
  <1>. QED  BY <1>1 DEF Click

\* One thread moves; the others stay where they are.
LEMMA ThreadMoves ==
    ASSUME TypeOK, NEW t \in Threads, NEW r \in Thread, thread' = [thread EXCEPT ![t] = r]
    PROVE  /\ thread' \in [Threads -> Thread]
           /\ thread'[t] = r
           /\ \A x \in Threads : x # t => thread'[x] = thread[x]
  BY DEF TypeOK

\* A thread takes a step that writes no row: what it takes over into its copy
\* is "resolved" only with the company added, and it gets past a check only if
\* the run is not stopped or its copy is.
LEMMA QuietStep ==
    ASSUME Inv, NEW t \in Threads, NEW r \in Thread,
           thread' = [thread EXCEPT ![t] = r],
           thread[t].pc # "free",
           UNCHANGED <<state, answering, stopping, late, clicks, lost>>,
           watchlist' \in BOOLEAN,
           watchlist => watchlist',
           r.mine = "resolved" => watchlist',
           r.pc = "write" /\ r.mine \notin Stopped => state \notin Stopped
    PROVE  Inv'
  <1>1. /\ thread' \in [Threads -> Thread]
        /\ thread'[t] = r
        /\ \A x \in Threads : x # t => thread'[x] = thread[x]
    BY ThreadMoves DEF Inv
  <1>2. TypeOK'
    BY <1>1 DEF Inv, TypeOK
  <1>3. Begun' /\ ResolvedIsAdded' /\ CopiesAdded'
    BY <1>1 DEF Inv, Begun, ResolvedIsAdded, CopiesAdded
  <1>4. LateOnly'
    BY <1>1 DEF Inv, LateOnly
  <1>. QED  BY <1>2, <1>3, <1>4 DEF Inv

\* A write of the row by `w', whatever its thread does next.
LEMMA WriteStep ==
    ASSUME Inv, NEW w \in Writers \cup {"stop"}, NEW s \in States,
           WriteState(w, s),
           s = "resolved" => watchlist,
           thread' \in [Threads -> Thread],
           \A x \in Threads : thread'[x].mine \in {thread[x].mine, "running"},
           \A x \in Threads :
               thread'[x].pc = "write" => x # w /\ thread'[x] = thread[x],
           answering' \in {"no", "check", "write", "submit"},
           answering' = "write" => answering = "write" /\ w # Answer,
           stopping' \in {"no", "write"},
           UNCHANGED <<watchlist, clicks, lost>>
    PROVE  Inv'
  <1>1. state' = s /\ late' = IF s \in Stopped THEN PastCheck \ {w} ELSE late \ {w}
    BY DEF WriteState
  <1>2. PastCheck \subseteq Writers
    BY DEF PastCheck, Writers
  <1>3. TypeOK'
    BY <1>1, <1>2 DEF Inv, TypeOK
  <1>4. Begun' /\ ResolvedIsAdded'
    BY <1>1 DEF Inv, Begun, ResolvedIsAdded, States, Settled, Stopped
  <1>5. CopiesAdded'
    BY DEF Inv, CopiesAdded
  <1>6. LateOnly'
    <2>. SUFFICES ASSUME s \in Stopped
                  PROVE  /\ \A x \in Threads : thread'[x].pc = "write" => x \in late'
                         /\ answering' = "write" => Answer \in late'
      BY <1>1 DEF LateOnly
    <2>. QED  BY <1>1 DEF PastCheck
  <1>. QED  BY <1>3, <1>4, <1>5, <1>6 DEF Inv

LEMMA SubmitType ==
    ASSUME TypeOK, NEW b \in BOOLEAN, Submit(b)
    PROVE  /\ thread' \in [Threads -> Thread]
           /\ \A x \in Threads : \/ thread'[x] = thread[x]
                                 \/ thread'[x].pc = "queued" /\ thread'[x].mine = "running"
  <1>1. PICK t \in Threads :
          thread' = [thread EXCEPT ![t] = [FreeThread EXCEPT !.pc = "queued", !.resumed = b]]
    BY DEF Submit
  <1>. DEFINE r == [FreeThread EXCEPT !.pc = "queued", !.resumed = b]
  <1>2. r \in Thread /\ r.pc = "queued" /\ r.mine = "running"
    BY DEF FreeThread, Thread, States, Settled, Stopped
  <1>3. thread' = [thread EXCEPT ![t] = r]
    BY <1>1
  <1>. HIDE DEF r
  <1>. QED  BY <1>2, <1>3, ThreadMoves

-----------------------------------------------------------------------------
LEMMA InitInv == Init => Inv
  <1>. SUFFICES ASSUME Init PROVE Inv
    OBVIOUS
  <1>1. TypeOK
    <2>1. /\ thread \in [Threads -> Thread] /\ clicks \in 0 .. MaxClicks
          /\ state \in States \cup {"absent"}
      BY FreeThreadType, BoundsAssumption DEF Init
    <2>2. watchlist \in BOOLEAN /\ lost \in BOOLEAN
      BY DEF Init
    <2>. QED  BY <2>1, <2>2 DEF Init, TypeOK
  <1>2. ResolvedIsAdded /\ LateOnly
    BY DEF Init, ResolvedIsAdded, LateOnly, Stopped
  <1>3. Begun /\ CopiesAdded
    BY FreeThreadType DEF Init, Begun, CopiesAdded, FreeThread
  <1>. QED  BY <1>1, <1>2, <1>3 DEF Inv

LEMMA OwnerInv ==
    ASSUME Inv, Start \/ ProvideInput \/ Stop \/ Handler \/ Crash
    PROVE  Inv'
  <1>1. CASE Start
    <2>1. /\ state' = "running" /\ state = "absent"
          /\ Submit(FALSE)
          /\ UNCHANGED <<watchlist, answering, stopping, late, clicks, lost>>
      BY <1>1 DEF Start
    <2>2. /\ thread' \in [Threads -> Thread]
          /\ \A x \in Threads : \/ thread'[x] = thread[x]
                                \/ thread'[x].pc = "queued" /\ thread'[x].mine = "running"
      BY <2>1, SubmitType DEF Inv
    <2>3. TypeOK'
      BY <2>1, <2>2 DEF Inv, TypeOK, States
    <2>4. Begun' /\ ResolvedIsAdded' /\ CopiesAdded' /\ LateOnly'
      BY <2>1, <2>2 DEF Inv, Begun, ResolvedIsAdded, CopiesAdded, LateOnly, Stopped
    <2>. QED  BY <2>3, <2>4 DEF Inv
  <1>2. CASE ProvideInput
    <2>1. TypeOK'
      BY <1>2, ClickType DEF ProvideInput, Inv, TypeOK
    <2>2. Begun' /\ ResolvedIsAdded' /\ CopiesAdded' /\ LateOnly'
      BY <1>2
      DEF ProvideInput, Inv, Begun, ResolvedIsAdded, CopiesAdded, LateOnly
    <2>. QED  BY <2>1, <2>2 DEF Inv
  <1>3. CASE Stop
    <2>1. TypeOK'
      BY <1>3, ClickType DEF Stop, Inv, TypeOK
    <2>2. Begun' /\ ResolvedIsAdded' /\ CopiesAdded' /\ LateOnly'
      BY <1>3
      DEF Stop, Inv, Begun, ResolvedIsAdded, CopiesAdded, LateOnly
    <2>. QED  BY <2>1, <2>2 DEF Inv
  <1>4. CASE AnswerCheck
    <2>1. TypeOK'
      BY <1>4 DEF AnswerCheck, Inv, TypeOK
    <2>2. answering' = "write" => state \notin Stopped
      BY <1>4 DEF AnswerCheck, Cancelled, Stopped
    <2>3. Begun' /\ ResolvedIsAdded' /\ CopiesAdded' /\ LateOnly'
      BY <1>4, <2>2
      DEF AnswerCheck, Inv, Begun, ResolvedIsAdded, CopiesAdded, LateOnly
    <2>. QED  BY <2>1, <2>2, <2>3 DEF Inv
  <1>5. CASE AnswerWrite
    BY <1>5, WriteStep, ThreadsAssumption DEF AnswerWrite, Inv, TypeOK, States, Answer, Writers
  <1>6. CASE AnswerSubmit
    <2>1. /\ thread' \in [Threads -> Thread]
          /\ \A x \in Threads : \/ thread'[x] = thread[x]
                                \/ thread'[x].pc = "queued" /\ thread'[x].mine = "running"
      BY <1>6, SubmitType DEF AnswerSubmit, Inv
    <2>2. TypeOK'
      BY <1>6, <2>1 DEF AnswerSubmit, Inv, TypeOK
    <2>3. Begun' /\ ResolvedIsAdded' /\ CopiesAdded' /\ LateOnly'
      BY <1>6, <2>1
      DEF AnswerSubmit, Inv, Begun, ResolvedIsAdded, CopiesAdded, LateOnly
    <2>. QED  BY <2>1, <2>2, <2>3 DEF Inv
  <1>7. CASE StopWrite
    BY <1>7, WriteStep, ThreadsAssumption DEF StopWrite, Inv, TypeOK, States, Settled, Stopped, Answer
  <1>8. CASE Crash
    <2>1. TypeOK'
      BY <1>8, ClickType, FreeThreadType DEF Crash, Inv, TypeOK
    <2>2. \A t \in Threads : thread'[t] = FreeThread
      BY <1>8 DEF Crash
    <2>3. Begun' /\ ResolvedIsAdded' /\ CopiesAdded' /\ LateOnly'
      BY <1>8, <2>2, FreeThreadType
      DEF Inv, Crash, Begun, ResolvedIsAdded, CopiesAdded, LateOnly, FreeThread
    <2>. QED  BY <2>1, <2>3 DEF Inv
  <1>. QED  BY <1>1, <1>2, <1>3, <1>4, <1>5, <1>6, <1>7, <1>8 DEF Handler

-----------------------------------------------------------------------------
(* The steps of a thread.                                                   *)

\* A step of QuietStep that leaves the watchlist alone.
LEMMA QuietWork ==
    ASSUME Inv, NEW t \in Threads, NEW r \in Thread,
           thread' = [thread EXCEPT ![t] = r],
           thread[t].pc # "free",
           RowUnchanged,
           r.mine \in {thread[t].mine, state, "running", "error"} \cup Verdicts,
           r.pc = "write" /\ r.mine \notin Stopped => state \notin Stopped
    PROVE  Inv'
  <1>1. UNCHANGED <<state, answering, stopping, late, clicks, lost>>
    BY DEF RowUnchanged
  <1>2. watchlist' \in BOOLEAN /\ (watchlist => watchlist')
    BY DEF RowUnchanged, Inv, TypeOK
  <1>3. r.mine = "resolved" => watchlist'
    BY DEF RowUnchanged, Inv, CopiesAdded, ResolvedIsAdded, Verdicts
  <1>. QED  BY <1>1, <1>2, <1>3, QuietStep

LEMMA FreeInv ==
    ASSUME Inv, NEW t \in Threads, thread[t].pc # "free", Free(t), RowUnchanged
    PROVE  Inv'
  <1>1. FreeThread \in Thread /\ FreeThread.mine = "running" /\ FreeThread.pc = "free"
    BY FreeThreadType DEF FreeThread
  <1>2. thread' = [thread EXCEPT ![t] = FreeThread]
    BY DEF Free
  <1>. HIDE DEF FreeThread
  <1>. QED  BY <1>1, <1>2, QuietWork

LEMMA GotoInv ==
    ASSUME Inv, NEW t \in Threads, thread[t].pc # "free", RowUnchanged,
           NEW pc \in {"write", "contract", "resolve", "add"}, Goto(t, pc),
           pc = "write" => ~Cancelled(thread[t].mine)
    PROVE  Inv'
  <1>. DEFINE r == [thread[t] EXCEPT !.pc = pc]
  <1>1. r \in Thread /\ r.mine = thread[t].mine /\ r.pc = pc
    BY DEF Inv, TypeOK, Thread
  <1>2. thread' = [thread EXCEPT ![t] = r]
    BY DEF Goto
  <1>. HIDE DEF r
  <1>3. r.pc = "write" /\ r.mine \notin Stopped => state \notin Stopped
    BY <1>1 DEF Cancelled
  <1>. QED  BY <1>1, <1>2, <1>3, QuietWork

LEMMA EmitInv ==
    ASSUME Inv, NEW t \in Threads, thread[t].pc # "free", RowUnchanged,
           NEW s \in {thread[t].mine, "error"} \cup Verdicts,
           NEW next \in {"agent", "over"}, Emit(t, s, next)
    PROVE  Inv'
  <1>. DEFINE r == [thread[t] EXCEPT !.pc = "check", !.mine = s, !.then = next]
  <1>1. r \in Thread /\ r.mine = s /\ r.pc = "check"
    BY DEF Inv, TypeOK, Thread, States, Settled, Stopped, Verdicts
  <1>2. thread' = [thread EXCEPT ![t] = r]
    BY DEF Emit, Inv, TypeOK
  <1>. HIDE DEF r
  <1>. QED  BY <1>1, <1>2, QuietWork

LEMMA LoadInv == ASSUME Inv, NEW t \in Threads, Load(t) PROVE Inv'
  <1>. DEFINE p == IF thread[t].resumed THEN "agent" ELSE "check"
              r == [thread[t] EXCEPT !.mine = state, !.then = "search", !.pc = p]
  <1>1. state \in States
    BY DEF Load, Inv, TypeOK, Begun
  <1>2. r \in Thread /\ r.mine = state /\ r.pc # "write"
    BY <1>1 DEF Inv, TypeOK, Thread
  <1>3. thread' = [thread EXCEPT ![t] = r] /\ thread[t].pc # "free" /\ RowUnchanged
    BY DEF Load, Inv, TypeOK
  <1>. HIDE DEF r
  <1>. QED  BY <1>2, <1>3, QuietWork

LEMMA WriteInv == ASSUME Inv, NEW t \in Threads, Write(t) PROVE Inv'
  <1>. DEFINE r == IF thread[t].then = "over" THEN FreeThread
                   ELSE [thread[t] EXCEPT !.pc = thread[t].then]
  <1>1. r \in Thread /\ r.mine \in {thread[t].mine, "running"} /\ r.pc # "write"
    BY FreeThreadType DEF Inv, TypeOK, Thread, FreeThread
  <1>2. thread' = [thread EXCEPT ![t] = r]
    BY DEF Write, Free, Goto
  <1>. HIDE DEF r
  <1>3. /\ thread' \in [Threads -> Thread]
        /\ \A x \in Threads : thread'[x].mine \in {thread[x].mine, "running"}
        /\ \A x \in Threads : thread'[x].pc = "write" => x # t /\ thread'[x] = thread[x]
    BY <1>1, <1>2, ThreadMoves DEF Inv
  <1>4. WriteState(t, thread[t].mine) /\ UNCHANGED <<watchlist, answering, stopping, clicks, lost>>
    BY DEF Write
  <1>5. thread[t].mine \in States /\ t \in Writers /\ t # Answer
    BY ThreadsAssumption DEF Inv, TypeOK, Thread, Writers, Answer
  <1>6. thread[t].mine = "resolved" => watchlist
    BY DEF Inv, CopiesAdded
  <1>7. answering' \in {"no", "check", "write", "submit"} /\ stopping' \in {"no", "write"}
    BY <1>4 DEF Inv, TypeOK
  <1>. QED  BY <1>3, <1>4, <1>5, <1>6, <1>7, WriteStep

LEMMA AddInv == ASSUME Inv, NEW t \in Threads, Add(t) PROVE Inv'
  <1>. DEFINE r == [thread[t] EXCEPT !.pc = "check", !.mine = "resolved", !.then = "over"]
  <1>1. r \in Thread /\ r.pc = "check"
    BY DEF Inv, TypeOK, Thread, States, Settled
  <1>2. thread' = [thread EXCEPT ![t] = r]
    BY DEF Add, Emit, Inv, TypeOK
  <1>3. /\ thread[t].pc # "free"
        /\ UNCHANGED <<state, answering, stopping, late, clicks, lost>>
    BY DEF Add
  <1>4. watchlist' = TRUE
    BY DEF Add, AddCompany
  <1>. HIDE DEF r
  <1>. QED  BY <1>1, <1>2, <1>3, <1>4, QuietStep

LEMMA WorkInv == ASSUME Inv, NEW t \in Threads, Work(t) PROVE Inv'
  <1>1. CASE Load(t)
    BY <1>1, LoadInv
  <1>2. CASE Check(t)
    BY <1>2, FreeInv, GotoInv DEF Check
  <1>3. CASE Write(t)
    BY <1>3, WriteInv
  <1>4. CASE Search(t)
    BY <1>4, GotoInv, EmitInv DEF Search, Crashed
  <1>5. CASE AgentReports(t)
    BY <1>5, EmitInv DEF AgentReports
  <1>6. CASE AgentEnds(t)
    BY <1>6, GotoInv, EmitInv DEF AgentEnds, Crashed
  <1>7. CASE Contract(t)
    BY <1>7, FreeInv, GotoInv, EmitInv DEF Contract
  <1>8. CASE Resolve(t)
    BY <1>8, FreeInv, GotoInv DEF Resolve
  <1>9. CASE Add(t)
    BY <1>9, AddInv
  <1>. QED  BY <1>1, <1>2, <1>3, <1>4, <1>5, <1>6, <1>7, <1>8, <1>9 DEF Work

-----------------------------------------------------------------------------
LEMMA NextInv == ASSUME Inv, [Next]_vars PROVE Inv'
  <1>1. CASE UNCHANGED vars
    BY <1>1 DEF vars, Inv, TypeOK, Begun, ResolvedIsAdded, CopiesAdded, LateOnly
  <1>2. CASE Next
    BY <1>2, OwnerInv, WorkInv DEF Next
  <1>. QED  BY <1>1, <1>2

LEMMA Invariance == SafetySpec => []Inv
  BY InitInv, NextInv, PTL DEF SafetySpec

\* Every reachable state is of its type; above all, the row is only ever given
\* states the frontend knows.
THEOREM TypeCorrect == SafetySpec => []TypeOK
  <1>1. Inv => TypeOK
    BY DEF Inv
  <1>. QED  BY <1>1, Invariance, PTL

\* A run reported as resolved has its company on the watchlist.
THEOREM ResolvedMeansAdded == SafetySpec => []ResolvedIsAdded
  <1>1. Inv => ResolvedIsAdded
    BY DEF Inv
  <1>. QED  BY <1>1, Invariance, PTL

\* A stop or a kill is undone only by a write whose check (_cancelled) was past
\* when the stop was written.
THEOREM StopsAreUndoneLate == SafetySpec => StopUndoneOnlyByALateWrite
  <1>. DEFINE P == (state \in Stopped /\ state' \notin Stopped) => (late \ late' # {})
  <1>1. ASSUME Inv, [Next]_vars PROVE P
    <2>. SUFFICES ASSUME state \in Stopped, state' \notin Stopped
                  PROVE  late \ late' # {}
      OBVIOUS
    <2>1. ASSUME NEW t \in Threads, Write(t) PROVE late \ late' # {}
      BY <1>1, <2>1 DEF Write, WriteState, Inv, LateOnly
    <2>2. ASSUME AnswerWrite PROVE late \ late' # {}
      BY <1>1, <2>2 DEF AnswerWrite, WriteState, Inv, LateOnly, Stopped
    <2>3. ASSUME StopWrite PROVE FALSE
      BY <2>3 DEF StopWrite, WriteState, Stopped
    <2>4. ASSUME Start PROVE FALSE
      BY <2>4 DEF Start, Stopped
    <2>5. ASSUME UNCHANGED state PROVE FALSE
      BY <2>5
    <2>. QED
      BY <1>1, <2>1, <2>2, <2>3, <2>4, <2>5
      DEF Next, vars, ProvideInput, Stop, Handler, AnswerCheck, AnswerSubmit, Crash, Work,
          RowUnchanged, Load, Check, Search, AgentReports, AgentEnds, Contract, Resolve, Add
  <1>. QED  BY <1>1, Invariance, PTL DEF SafetySpec, StopUndoneOnlyByALateWrite

=============================================================================
