------------------------------- MODULE Mailer -------------------------------
(* The email digest: postings arrive in the jobs table, and digest runs -   *)
(* the hourly mailer tick, and `notify --send' typed by the owner - select  *)
(* the wanted postings not emailed yet, send them, and mark them notified.  *)
(* The select, the send and the mark are three separate accesses, and two   *)
(* runs can be under way at once; the owner edits the filter, the cap and   *)
(* the preferences in between, and a send can fail after the message has    *)
(* left.  The filter and the cap are read anew by every digest; the         *)
(* preferences are cached by each process until it edits them itself.       *)
(*                                                                          *)
(* Abstractions: the filter and the preferences are the sets of postings    *)
(* that pass them (a posting whose content changes moves in or out of a set *)
(* like an edit does); the ticks of a deployment are served by one instance *)
(* at a time; the order that decides which postings a cap keeps is left     *)
(* open; the wording of the digest is left out.                             *)
EXTENDS Naturals, FiniteSets

CONSTANTS
    Postings,    \* keys (source, external_id) of postings
    Tick,        \* the mailer tick: it looks at the whole jobs table
    Cli,         \* the command line: it looks at some of the postings
    Caps,        \* values of max_postings; 0 is no cap
    MaxEvents    \* nights, edits, failures and crashes (bound)

Drivers == {Tick, Cli}

ASSUME CapsAssumption == Caps \subseteq Nat /\ MaxEvents \in Nat

VARIABLES
    jobs,        \* the jobs table
    passing,     \* the postings that pass the Mailer page's filter
    onTarget,    \* the postings that match the preferences document
    copy,        \* the copy of it that the tick's process has read, if any
    shared,      \* do the ticks run in the process that serves the edits (the
                 \* in-process scheduler), or in a service of their own?  (fixed)
    cap,         \* max_postings
    quiet,       \* is it quiet hours?
    configured,  \* are a recipient and a sender set? (environment, fixed)
    notified,    \* the notified table
    run,         \* the digest runs under way
    inbox,       \* how often the owner received each posting (0, 1, 2 or more)
    counted,     \* history: postings counted by a digest that reached the owner
    events,      \* nights, edits, failures and crashes so far
    mishaps      \* history: did runs overlap, did a run break off after its
                 \* message had left?

vars == <<jobs, passing, onTarget, copy, shared, cap, quiet, configured, notified, run, inbox, counted,
          events, mishaps>>

-----------------------------------------------------------------------------
Run == [pc: {"idle", "listed", "sending", "sent"}, listed: SUBSET Postings,
        candidates: SUBSET Postings, sent: SUBSET Postings]
NoCopy == [read |-> FALSE, targets |-> {}]
IdleRun == [pc |-> "idle", listed |-> {}, candidates |-> {}, sent |-> {}]

TypeOK ==
    /\ jobs \in SUBSET Postings
    /\ passing \in SUBSET Postings
    /\ onTarget \in SUBSET Postings
    /\ copy \in [read: BOOLEAN, targets: SUBSET Postings]
    /\ shared \in BOOLEAN
    /\ cap \in Caps
    /\ quiet \in BOOLEAN
    /\ configured \in BOOLEAN
    /\ notified \in SUBSET Postings
    /\ run \in [Drivers -> Run]
    /\ inbox \in [Postings -> 0 .. 2]
    /\ counted \in SUBSET Postings
    /\ events \in 0 .. MaxEvents
    /\ mishaps \in SUBSET {"overlap", "broken off"}

Init ==
    /\ jobs = {}
    /\ passing = Postings
    /\ onTarget \in SUBSET Postings
    /\ copy = NoCopy
    /\ shared \in BOOLEAN
    /\ cap \in Caps
    /\ quiet \in BOOLEAN
    /\ configured \in BOOLEAN
    /\ notified = {}
    /\ run = [d \in Drivers |-> IdleRun]
    /\ inbox = [p \in Postings |-> 0]
    /\ counted = {}
    /\ events = 0
    /\ mishaps = {}

\* What the owner has set, and the environment.
settings == <<passing, onTarget, shared, cap, configured>>

Event == events < MaxEvents /\ events' = events + 1

-----------------------------------------------------------------------------
(* Around the mailer.                                                       *)

\* An ingestion tick stores a posting; postings are never deleted.
Arrive(p) ==
    /\ p \notin jobs
    /\ jobs' = jobs \cup {p}
    /\ UNCHANGED <<settings, copy, quiet, notified, run, inbox, counted, events, mishaps>>

\* PUT /mailer: the owner saves the Mailer page.
EditMailer(f, c) ==
    /\ <<f, c>> # <<passing, cap>>
    /\ passing' = f /\ cap' = c
    /\ Event
    /\ UNCHANGED <<jobs, onTarget, copy, shared, quiet, configured, notified, run, inbox,
                   counted, mishaps>>

\* Mutant of CopyAfterEdit: save_preferences does not invalidate.
CopyKept == copy

\* invalidate() drops the copy of the process that makes the edit, no other's.
CopyAfterEdit == IF shared THEN NoCopy ELSE copy

\* PUT /profile/preferences: the owner saves target and avoid roles.
EditPrefs(w) ==
    /\ w # onTarget
    /\ onTarget' = w
    /\ copy' = CopyAfterEdit
    /\ Event
    /\ UNCHANGED <<jobs, passing, shared, cap, quiet, configured, notified, run, inbox,
                   counted, mishaps>>

\* The next tick finds a fresh process: a restart, a cold start, scaling.
NewInstance ==
    /\ copy.read
    /\ copy' = NoCopy
    /\ UNCHANGED <<jobs, settings, quiet, notified, run, inbox, counted, events, mishaps>>

Dusk ==
    /\ ~quiet /\ quiet' = TRUE
    /\ Event
    /\ UNCHANGED <<jobs, settings, copy, notified, run, inbox, counted, mishaps>>

Dawn ==
    /\ quiet /\ quiet' = FALSE
    /\ UNCHANGED <<jobs, settings, copy, notified, run, inbox, counted, events, mishaps>>

-----------------------------------------------------------------------------
(* A digest run.                                                            *)

\* list_jobs, or the recent postings the command line asks for.
Start(d) ==
    /\ run[d].pc = "idle"
    /\ \E L \in (IF d = Tick THEN {jobs} ELSE SUBSET jobs) :
          run' = [run EXCEPT ![d].pc = "listed", ![d].listed = L]
    /\ mishaps' = IF \E x \in Drivers : run[x].pc # "idle"
                  THEN mishaps \cup {"overlap"} ELSE mishaps
    /\ UNCHANGED <<jobs, settings, copy, quiet, notified, inbox, counted, events>>

\* matches_preferences: the tick's process reads the document once and keeps
\* it; every command is a process of its own.
Target(d) == IF d = Tick /\ copy.read THEN copy.targets ELSE onTarget

CopyRead(d) ==
    IF d = Tick /\ run[d].listed # {} THEN [read |-> TRUE, targets |-> Target(d)] ELSE copy

\* Mutant of Pending: postings emailed before are not left out.
PendingAll(d) == run[d].listed \cap passing \cap Target(d)

Pending(d) == (run[d].listed \cap passing \cap Target(d)) \ notified

\* What the cap lets into the message.
Capped(C) ==
    IF cap > 0 /\ cap < Cardinality(C)
    THEN {S \in SUBSET C : Cardinality(S) = cap} ELSE {C}

\* Mutant of QuietOutcome: the digest that is put off is marked all the same.
QuietMarks(C) == notified \cup C

\* What a run put off by quiet hours leaves in the notified table.
QuietOutcome(C) == notified

\* No candidates, quiet hours, no recipient or sender: nothing is sent.
Skip(d) ==
    LET C == Pending(d) IN
    /\ run[d].pc = "listed"
    /\ C = {} \/ quiet \/ ~configured
    /\ notified' = IF quiet THEN QuietOutcome(C) ELSE notified
    /\ run' = [run EXCEPT ![d] = IdleRun]
    /\ copy' = CopyRead(d)
    /\ UNCHANGED <<jobs, settings, quiet, inbox, counted, events, mishaps>>

Compose(d) ==
    LET C == Pending(d) IN
    /\ run[d].pc = "listed"
    /\ C # {} /\ ~quiet /\ configured
    /\ \E S \in Capped(C) :
          run' = [run EXCEPT ![d].pc = "sending", ![d].candidates = C, ![d].sent = S]
    /\ copy' = CopyRead(d)
    /\ UNCHANGED <<jobs, settings, quiet, notified, inbox, counted, events, mishaps>>

Deliver(d) ==
    /\ inbox' = [p \in Postings |-> IF p \in run[d].sent /\ inbox[p] < 2
                                    THEN inbox[p] + 1 ELSE inbox[p]]
    /\ counted' = counted \cup run[d].candidates

Send(d) ==
    /\ run[d].pc = "sending"
    /\ Deliver(d)
    /\ run' = [run EXCEPT ![d].pc = "sent"]
    /\ UNCHANGED <<jobs, settings, copy, quiet, notified, events, mishaps>>

\* _send raises: the message was refused, or it left and the answer did not
\* come.  email_pending swallows the exception; nothing is marked.
SendFails(d) ==
    /\ run[d].pc = "sending"
    /\ Event
    /\ run' = [run EXCEPT ![d] = IdleRun]
    /\ \/ UNCHANGED <<inbox, counted, mishaps>>
       \/ Deliver(d) /\ mishaps' = mishaps \cup {"broken off"}
    /\ UNCHANGED <<jobs, settings, copy, quiet, notified>>

\* Mutant of Marked: the postings the cap left out stay pending.
MarkedSentOnly(r) == r.sent

\* Mutant of Marked: the time of the mark becomes part of the key.
MarkedWithTime(r) == {<<p, quiet>> : p \in r.candidates}

\* "Mark ALL seen": the candidates the cap left out as well.
Marked(r) == r.candidates

Mark(d) ==
    /\ run[d].pc = "sent"
    /\ notified' = notified \cup Marked(run[d])
    /\ run' = [run EXCEPT ![d] = IdleRun]
    /\ UNCHANGED <<jobs, settings, copy, quiet, inbox, counted, events, mishaps>>

\* The process dies, or the mark itself fails.
Crash(d) ==
    /\ run[d].pc # "idle"
    /\ Event
    /\ run' = [run EXCEPT ![d] = IdleRun]
    /\ mishaps' = IF run[d].pc = "sent" THEN mishaps \cup {"broken off"} ELSE mishaps
    /\ UNCHANGED <<jobs, settings, copy, quiet, notified, inbox, counted>>

-----------------------------------------------------------------------------
Digest(d) == Skip(d) \/ Compose(d) \/ Send(d) \/ Mark(d)

Next ==
    \/ \E p \in Postings : Arrive(p)
    \/ \E f \in SUBSET Postings, c \in Caps : EditMailer(f, c)
    \/ \E w \in SUBSET Postings : EditPrefs(w)
    \/ NewInstance
    \/ Dusk \/ Dawn
    \/ \E d \in Drivers : Start(d) \/ Digest(d) \/ SendFails(d) \/ Crash(d)

SafetySpec == Init /\ [][Next]_vars

\* The scheduler starts a tick every hour (the frequency is never left at
\* "off"), a run goes on to its end, and quiet hours end.  Nothing makes the
\* owner type a command or replaces a warm instance.
Fairness ==
    /\ WF_vars(Start(Tick))
    /\ \A d \in Drivers : WF_vars(Digest(d))
    /\ WF_vars(Dawn)

Spec == SafetySpec /\ Fairness

-----------------------------------------------------------------------------
(* Properties.                                                              *)

\* "Deduped so a posting is never emailed twice" (notify.py), as far as the
\* code goes: as long as no two runs overlapped and none broke off between
\* its message and its mark, whatever was edited, deferred or capped.
OnceWithoutMishap ==
    mishaps = {} => \A p \in Postings : inbox[p] <= 1

\* The promise as it is written.  The code does not keep it.
NeverTwice == \A p \in Postings : inbox[p] <= 1

\* Nothing is given up unseen: a posting marked notified was in a digest that
\* reached the owner, or was counted there ("X of total") and left out by the
\* cap - a digest put off by quiet hours, refused by the server or cut short
\* marks nothing.
MarkedWasCounted == notified \subseteq counted

Wanted == passing \cap onTarget

\* The ticks' own service still goes by preferences that leave p out.
Outdated(p) == ~shared /\ copy.read /\ p \notin copy.targets

\* The backlog is flushed: a wanted posting is marked in the end, whatever
\* nights, edits, failures and crashes delayed it, unless the owner changes
\* his mind, no email is configured, or the ticks are served by a process that
\* read the preferences before they were edited elsewhere: nothing tells it.
BacklogFlushed ==
    \A p \in Postings :
        p \in jobs /\ p \in Wanted
            ~> p \in notified \/ p \notin Wanted \/ ~configured \/ Outdated(p)

\* A posting the cap left out of a digest is not emailed later: it "surfaces
\* in Discovery, not email" (email_new) - when no other run is under way and
\* none broke off.
CappedOutStaysOut ==
    [][\A p \in Postings :
          p \in counted /\ inbox[p] = 0 /\ mishaps' = {} => inbox'[p] = 0]_vars

=============================================================================
