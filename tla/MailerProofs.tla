---------------------------- MODULE MailerProofs ----------------------------
(* What TLAPS proves about Mailer, for every set of postings, every caps    *)
(* and every number of events.                                              *)
EXTENDS Mailer, TLAPS

-----------------------------------------------------------------------------
(* The inductive invariant.                                                 *)

\* Without a mishap one digest run at a time is under way.
Alone ==
    mishaps = {} =>
        \A d, e \in Drivers : run[d].pc # "idle" /\ run[e].pc # "idle" => d = e

\* A message carries candidates only; one that left has them counted.
Composed ==
    \A d \in Drivers :
        /\ run[d].pc \in {"sending", "sent"} => run[d].sent \subseteq run[d].candidates
        /\ run[d].pc = "sent" => run[d].candidates \subseteq counted

\* Without a mishap, what is about to be sent was not marked meanwhile, ...
Fresh ==
    mishaps = {} =>
        \A d \in Drivers : run[d].pc = "sending" => run[d].candidates \cap notified = {}

\* ... and what was counted is marked, or is by the run that sent it.
InFlight ==
    mishaps = {} =>
        \A p \in counted :
            p \in notified \/ \E d \in Drivers : run[d].pc = "sent" /\ p \in run[d].candidates

Received == \A p \in Postings : inbox[p] # 0 => p \in counted

Inv ==
    /\ TypeOK /\ Alone /\ Composed /\ Fresh /\ InFlight /\ Received
    /\ MarkedWasCounted /\ OnceWithoutMishap

-----------------------------------------------------------------------------
LEMMA NoCopyType == NoCopy \in [read: BOOLEAN, targets: SUBSET Postings]
  BY DEF NoCopy

LEMMA IdleRunType == IdleRun \in Run
  BY DEF IdleRun, Run

\* One run moves; the other stays where it is.
LEMMA RunMoves ==
    ASSUME TypeOK, NEW d \in Drivers, NEW r \in Run, run' = [run EXCEPT ![d] = r]
    PROVE  /\ run' \in [Drivers -> Run]
           /\ run'[d] = r
           /\ \A e \in Drivers : e # d => run'[e] = run[e]
  BY DEF TypeOK

LEMMA CappedType ==
    ASSUME NEW C \in SUBSET Postings, NEW S \in Capped(C)
    PROVE  S \subseteq C
  BY DEF Capped

\* Reading the preferences into the process makes a proper copy of them.
LEMMA CopyType ==
    ASSUME TypeOK, NEW d \in Drivers
    PROVE  CopyRead(d) \in [read: BOOLEAN, targets: SUBSET Postings]
  <1>1. Target(d) \in SUBSET Postings
    BY DEF TypeOK, Target
  <1>. QED  BY <1>1 DEF TypeOK, CopyRead

LEMMA EventType == ASSUME TypeOK, Event PROVE events' \in 0 .. MaxEvents
  <1>1. events \in 0 .. MaxEvents /\ MaxEvents \in Nat
    BY CapsAssumption DEF TypeOK
  <1>. QED  BY <1>1 DEF Event

\* A delivery adds the sent postings to the inbox and counts the candidates.
LEMMA DeliverEffect ==
    ASSUME Inv, NEW d \in Drivers, run[d].pc = "sending", Deliver(d)
    PROVE  /\ inbox' \in [Postings -> 0 .. 2]
           /\ counted' \in SUBSET Postings
           /\ counted \subseteq counted'
           /\ run[d].candidates \subseteq counted'
           /\ \A p \in Postings : p \notin run[d].sent => inbox'[p] = inbox[p]
           /\ \A p \in Postings : inbox[p] = 0 => inbox'[p] <= 1
           /\ \A p \in Postings : inbox'[p] # 0 => p \in counted'
  <1>1. run[d] \in Run /\ inbox \in [Postings -> 0 .. 2] /\ counted \in SUBSET Postings
    BY DEF Inv, TypeOK
  <1>2. run[d].sent \subseteq run[d].candidates /\ run[d].candidates \in SUBSET Postings
    BY <1>1 DEF Inv, Composed, Run
  <1>3. /\ inbox' \in [Postings -> 0 .. 2]
        /\ \A p \in Postings : p \notin run[d].sent => inbox'[p] = inbox[p]
        /\ \A p \in Postings : inbox[p] = 0 => inbox'[p] <= 1
    BY <1>1 DEF Deliver
  <1>4. counted' = counted \cup run[d].candidates
    BY DEF Deliver
  <1>5. \A p \in Postings : inbox'[p] # 0 => p \in counted'
    BY <1>2, <1>3, <1>4 DEF Inv, Received
  <1>. QED  BY <1>1, <1>2, <1>3, <1>4, <1>5

-----------------------------------------------------------------------------
LEMMA InitInv == Init => Inv
  <1>. SUFFICES ASSUME Init PROVE Inv
    OBVIOUS
  <1>1. \A d \in Drivers : run[d] = IdleRun
    BY DEF Init
  <1>2. TypeOK
    BY IdleRunType, NoCopyType, CapsAssumption DEF Init, TypeOK
  <1>3. Alone /\ Composed /\ Fresh
    BY <1>1 DEF Alone, Composed, Fresh, IdleRun
  <1>4. InFlight /\ Received /\ MarkedWasCounted /\ OnceWithoutMishap
    BY DEF Init, InFlight, Received, MarkedWasCounted, OnceWithoutMishap
  <1>. QED  BY <1>2, <1>3, <1>4 DEF Inv

\* Steps that leave the digest runs and all they did alone.
LEMMA Around ==
    ASSUME Inv, TypeOK', UNCHANGED <<notified, run, inbox, counted, mishaps>>
    PROVE  Inv'
  BY DEF Inv, Alone, Composed, Fresh, InFlight, Received, MarkedWasCounted, OnceWithoutMishap

LEMMA StartInv == ASSUME Inv, NEW d \in Drivers, Start(d) PROVE Inv'
  <1>1. PICK L \in SUBSET Postings :
          run' = [run EXCEPT ![d] = [run[d] EXCEPT !.pc = "listed", !.listed = L]]
    BY DEF Start, Inv, TypeOK
  <1>. DEFINE r == [run[d] EXCEPT !.pc = "listed", !.listed = L]
  <1>2. r \in Run /\ r.pc = "listed"
    BY DEF Inv, TypeOK, Run
  <1>3. run' = [run EXCEPT ![d] = r]
    BY <1>1
  <1>. HIDE DEF r
  <1>4. /\ run' \in [Drivers -> Run]
        /\ run'[d] = r
        /\ \A e \in Drivers : e # d => run'[e] = run[e]
    BY <1>2, <1>3, RunMoves DEF Inv
  <1>5. /\ run[d].pc = "idle"
        /\ mishaps' \in {mishaps, mishaps \cup {"overlap"}}
        /\ mishaps' = {} => \A e \in Drivers : run[e].pc = "idle"
        /\ UNCHANGED <<jobs, settings, copy, quiet, notified, inbox, counted, events>>
    BY DEF Start
  <1>6. TypeOK'
    BY <1>4, <1>5 DEF Inv, TypeOK, settings
  <1>7. mishaps' = {} => mishaps = {}
    BY <1>5
  <1>8. Alone' /\ Composed' /\ Fresh'
    BY <1>2, <1>4, <1>5, <1>7 DEF Inv, Alone, Composed, Fresh
  <1>9. InFlight'
    BY <1>4, <1>5, <1>7 DEF Inv, InFlight
  <1>10. Received' /\ MarkedWasCounted' /\ OnceWithoutMishap'
    BY <1>5, <1>7 DEF Inv, Received, MarkedWasCounted, OnceWithoutMishap
  <1>. QED  BY <1>6, <1>8, <1>9, <1>10 DEF Inv

\* A run is over before it sent anything, or breaks off.
LEMMA EndInv ==
    ASSUME Inv, TypeOK', NEW d \in Drivers, run' = [run EXCEPT ![d] = IdleRun],
           UNCHANGED <<notified, inbox, counted>>,
           mishaps \subseteq mishaps',
           run[d].pc = "sent" => mishaps' # {}
    PROVE  Inv'
  <1>1. /\ run'[d] = IdleRun
        /\ \A e \in Drivers : e # d => run'[e] = run[e]
    BY IdleRunType, RunMoves DEF Inv
  <1>2. mishaps' = {} => mishaps = {}
    OBVIOUS
  <1>3. Alone' /\ Composed' /\ Fresh'
    BY <1>1, <1>2 DEF Inv, Alone, Composed, Fresh, IdleRun
  <1>4. InFlight'
    BY <1>1, <1>2 DEF Inv, InFlight
  <1>5. Received' /\ MarkedWasCounted' /\ OnceWithoutMishap'
    BY <1>2 DEF Inv, Received, MarkedWasCounted, OnceWithoutMishap
  <1>. QED  BY <1>3, <1>4, <1>5 DEF Inv

LEMMA SkipInv == ASSUME Inv, NEW d \in Drivers, Skip(d) PROVE Inv'
  <1>1. /\ run' = [run EXCEPT ![d] = IdleRun]
        /\ run[d].pc = "listed"
        /\ copy' \in [read: BOOLEAN, targets: SUBSET Postings]
        /\ UNCHANGED <<jobs, settings, quiet, notified, inbox, counted, events, mishaps>>
    BY CopyType DEF Skip, QuietOutcome, Inv
  <1>2. TypeOK'
    BY <1>1, IdleRunType, RunMoves DEF Inv, TypeOK, settings
  <1>. QED  BY <1>1, <1>2, EndInv

LEMMA ComposeInv == ASSUME Inv, NEW d \in Drivers, Compose(d) PROVE Inv'
  <1>. DEFINE C == Pending(d)
  <1>1. PICK S \in Capped(C) :
          run' = [run EXCEPT ![d].pc = "sending", ![d].candidates = C, ![d].sent = S]
    BY DEF Compose
  <1>. DEFINE r == [run[d] EXCEPT !.pc = "sending", !.candidates = C, !.sent = S]
  <1>2. C \in SUBSET Postings /\ C \cap notified = {}
    BY DEF Inv, TypeOK, Pending
  <1>. HIDE DEF C
  <1>3. S \subseteq C
    BY <1>2, CappedType
  <1>4. r \in Run /\ r.pc = "sending" /\ r.candidates = C /\ r.sent = S
    BY <1>2, <1>3 DEF Inv, TypeOK, Run
  <1>5. run' = [run EXCEPT ![d] = r]
    BY <1>1 DEF Inv, TypeOK
  <1>. HIDE DEF r
  <1>6. /\ run' \in [Drivers -> Run]
        /\ run'[d] = r
        /\ \A e \in Drivers : e # d => run'[e] = run[e]
    BY <1>4, <1>5, RunMoves DEF Inv
  <1>7. /\ run[d].pc = "listed"
        /\ copy' \in [read: BOOLEAN, targets: SUBSET Postings]
        /\ UNCHANGED <<jobs, settings, quiet, notified, inbox, counted, events, mishaps>>
    BY CopyType DEF Compose, Inv
  <1>8. TypeOK'
    BY <1>6, <1>7 DEF Inv, TypeOK, settings
  <1>9. Alone' /\ Composed' /\ Fresh'
    BY <1>2, <1>3, <1>4, <1>6, <1>7 DEF Inv, Alone, Composed, Fresh
  <1>10. InFlight'
    BY <1>6, <1>7 DEF Inv, InFlight
  <1>11. Received' /\ MarkedWasCounted' /\ OnceWithoutMishap'
    BY <1>7 DEF Inv, Received, MarkedWasCounted, OnceWithoutMishap
  <1>. QED  BY <1>8, <1>9, <1>10, <1>11 DEF Inv

LEMMA SendInv == ASSUME Inv, NEW d \in Drivers, Send(d) PROVE Inv'
  <1>. DEFINE r == [run[d] EXCEPT !.pc = "sent"]
  <1>1. /\ run[d].pc = "sending"
        /\ Deliver(d)
        /\ run' = [run EXCEPT ![d] = r]
        /\ UNCHANGED <<jobs, settings, copy, quiet, notified, events, mishaps>>
    BY DEF Send
  <1>2. /\ r \in Run /\ r.pc = "sent"
        /\ r.candidates = run[d].candidates /\ r.sent = run[d].sent
        /\ run[d].candidates \subseteq Postings
        /\ run[d].sent \subseteq run[d].candidates
    BY <1>1 DEF Inv, TypeOK, Run, Composed
  <1>. HIDE DEF r
  <1>3. /\ run' \in [Drivers -> Run]
        /\ run'[d] = r
        /\ \A e \in Drivers : e # d => run'[e] = run[e]
    BY <1>1, <1>2, RunMoves DEF Inv
  <1>4. /\ inbox' \in [Postings -> 0 .. 2]
        /\ counted' \in SUBSET Postings
        /\ counted \subseteq counted'
        /\ run[d].candidates \subseteq counted'
        /\ \A p \in Postings : p \notin run[d].sent => inbox'[p] = inbox[p]
        /\ \A p \in Postings : inbox[p] = 0 => inbox'[p] <= 1
        /\ \A p \in Postings : inbox'[p] # 0 => p \in counted'
    BY <1>1, DeliverEffect
  <1>5. TypeOK'
    BY <1>1, <1>3, <1>4 DEF Inv, TypeOK, settings
  <1>6. Alone' /\ Composed'
    BY <1>1, <1>2, <1>3, <1>4 DEF Inv, Alone, Composed
  <1>7. Fresh'
    BY <1>1, <1>2, <1>3 DEF Inv, Fresh
  <1>8. InFlight'
    <2>1. counted' = counted \cup run[d].candidates
      BY <1>1 DEF Deliver
    <2>. QED  BY <2>1, <1>1, <1>2, <1>3 DEF Inv, InFlight
  <1>9. Received' /\ MarkedWasCounted'
    BY <1>1, <1>4 DEF Inv, Received, MarkedWasCounted
  <1>10. OnceWithoutMishap'
    <2>. SUFFICES ASSUME mishaps = {}, NEW p \in Postings PROVE inbox'[p] <= 1
      BY <1>1 DEF OnceWithoutMishap
    <2>1. CASE p \notin run[d].sent
      BY <2>1, <1>4 DEF Inv, OnceWithoutMishap
    <2>2. CASE p \in run[d].sent
      \* No other run is under way, so what was counted is marked: p was not.
      <3>1. \A e \in Drivers : run[e].pc # "sent"
        BY <1>1 DEF Inv, Alone
      <3>2. p \notin notified
        BY <1>1, <1>2, <2>2 DEF Inv, Fresh
      <3>3. inbox[p] = 0
        BY <3>1, <3>2 DEF Inv, InFlight, Received
      <3>. QED  BY <3>3, <1>4
    <2>. QED  BY <2>1, <2>2
  <1>. QED  BY <1>5, <1>6, <1>7, <1>8, <1>9, <1>10 DEF Inv

LEMMA SendFailsInv == ASSUME Inv, NEW d \in Drivers, SendFails(d) PROVE Inv'
  <1>1. /\ run[d].pc = "sending"
        /\ events' \in 0 .. MaxEvents
        /\ run' = [run EXCEPT ![d] = IdleRun]
        /\ UNCHANGED <<jobs, settings, copy, quiet, notified>>
    BY EventType DEF SendFails, Inv
  <1>2. /\ run' \in [Drivers -> Run]
        /\ run'[d] = IdleRun
        /\ \A e \in Drivers : e # d => run'[e] = run[e]
    BY <1>1, IdleRunType, RunMoves DEF Inv
  <1>3. CASE UNCHANGED <<inbox, counted, mishaps>>
    <2>1. TypeOK'
      BY <1>1, <1>2, <1>3 DEF Inv, TypeOK, settings
    <2>. QED  BY <1>1, <1>3, <2>1, EndInv
  <1>4. CASE Deliver(d) /\ mishaps' = mishaps \cup {"broken off"}
    <2>1. /\ inbox' \in [Postings -> 0 .. 2]
          /\ counted' \in SUBSET Postings
          /\ counted \subseteq counted'
          /\ \A p \in Postings : inbox'[p] # 0 => p \in counted'
      BY <1>1, <1>4, DeliverEffect
    <2>2. TypeOK'
      BY <1>1, <1>2, <1>4, <2>1 DEF Inv, TypeOK, settings
    <2>3. Composed'
      BY <1>2, <2>1 DEF Inv, Composed, IdleRun
    <2>4. mishaps' # {}
      BY <1>4
    <2>5. Alone' /\ Fresh' /\ InFlight' /\ OnceWithoutMishap'
      BY <2>4 DEF Alone, Fresh, InFlight, OnceWithoutMishap
    <2>6. Received' /\ MarkedWasCounted'
      BY <1>1, <2>1 DEF Inv, Received, MarkedWasCounted
    <2>. QED  BY <2>2, <2>3, <2>5, <2>6 DEF Inv
  <1>. QED  BY <1>3, <1>4 DEF SendFails

LEMMA MarkInv == ASSUME Inv, NEW d \in Drivers, Mark(d) PROVE Inv'
  <1>1. /\ run[d].pc = "sent"
        /\ notified' = notified \cup run[d].candidates
        /\ run' = [run EXCEPT ![d] = IdleRun]
        /\ UNCHANGED <<jobs, settings, copy, quiet, inbox, counted, events, mishaps>>
    BY DEF Mark, Marked
  <1>2. /\ run' \in [Drivers -> Run]
        /\ run'[d] = IdleRun
        /\ \A e \in Drivers : e # d => run'[e] = run[e]
    BY <1>1, IdleRunType, RunMoves DEF Inv
  <1>3. run[d].candidates \subseteq counted /\ run[d].candidates \subseteq Postings
    BY <1>1 DEF Inv, TypeOK, Run, Composed
  <1>4. TypeOK'
    BY <1>1, <1>2, <1>3 DEF Inv, TypeOK, settings
  <1>5. Alone' /\ Composed'
    BY <1>1, <1>2 DEF Inv, Alone, Composed, IdleRun
  <1>6. Fresh'
    \* Without a mishap this run was the only one.
    BY <1>1, <1>2 DEF Inv, Alone, Fresh, IdleRun
  <1>7. InFlight'
    BY <1>1, <1>2 DEF Inv, Alone, InFlight
  <1>8. Received' /\ MarkedWasCounted' /\ OnceWithoutMishap'
    BY <1>1, <1>3 DEF Inv, Received, MarkedWasCounted, OnceWithoutMishap
  <1>. QED  BY <1>4, <1>5, <1>6, <1>7, <1>8 DEF Inv

LEMMA CrashInv == ASSUME Inv, NEW d \in Drivers, Crash(d) PROVE Inv'
  <1>1. /\ events' \in 0 .. MaxEvents
        /\ run' = [run EXCEPT ![d] = IdleRun]
        /\ mishaps' \in {mishaps, mishaps \cup {"broken off"}}
        /\ run[d].pc = "sent" => mishaps' # {}
        /\ UNCHANGED <<jobs, settings, copy, quiet, notified, inbox, counted>>
    BY EventType DEF Crash, Inv
  <1>2. TypeOK'
    BY <1>1, IdleRunType, RunMoves DEF Inv, TypeOK, settings
  <1>. QED  BY <1>1, <1>2, EndInv

-----------------------------------------------------------------------------
LEMMA NextInv == ASSUME Inv, [Next]_vars PROVE Inv'
  <1>1. ASSUME NEW p \in Postings, Arrive(p) PROVE Inv'
    BY <1>1, Around DEF Arrive, settings, Inv, TypeOK
  <1>2. ASSUME NEW f \in SUBSET Postings, NEW c \in Caps, EditMailer(f, c) PROVE Inv'
    BY <1>2, Around, EventType DEF EditMailer, Inv, TypeOK
  <1>7. ASSUME NEW w \in SUBSET Postings, EditPrefs(w) PROVE Inv'
    <2>1. copy' \in {NoCopy, copy}
      BY <1>7 DEF EditPrefs, CopyAfterEdit
    <2>. QED  BY <1>7, <2>1, NoCopyType, Around, EventType DEF EditPrefs, Inv, TypeOK
  <1>8. ASSUME NewInstance PROVE Inv'
    BY <1>8, NoCopyType, Around DEF NewInstance, settings, Inv, TypeOK
  <1>3. ASSUME Dusk PROVE Inv'
    BY <1>3, Around, EventType DEF Dusk, settings, Inv, TypeOK
  <1>4. ASSUME Dawn PROVE Inv'
    BY <1>4, Around DEF Dawn, settings, Inv, TypeOK
  <1>5. ASSUME UNCHANGED vars PROVE Inv'
    BY <1>5, Around DEF vars, Inv, TypeOK
  <1>6. ASSUME NEW d \in Drivers, Start(d) \/ Digest(d) \/ SendFails(d) \/ Crash(d)
        PROVE  Inv'
    BY <1>6, StartInv, SkipInv, ComposeInv, SendInv, MarkInv, SendFailsInv, CrashInv DEF Digest
  <1>. QED  BY <1>1, <1>2, <1>3, <1>4, <1>5, <1>6, <1>7, <1>8 DEF Next

LEMMA Invariance == SafetySpec => []Inv
  BY InitInv, NextInv, PTL DEF SafetySpec

\* Every reachable state is of its type.
THEOREM TypeCorrect == SafetySpec => []TypeOK
  <1>1. Inv => TypeOK
    BY DEF Inv
  <1>. QED  BY <1>1, Invariance, PTL

\* No posting is marked notified that no digest counted (_notified is never
\* written for a deferred, refused or interrupted digest).
THEOREM MarkedIsCounted == SafetySpec => []MarkedWasCounted
  <1>1. Inv => MarkedWasCounted
    BY DEF Inv
  <1>. QED  BY <1>1, Invariance, PTL

\* As long as digest runs do not overlap and none breaks off after its message
\* has left, no posting is emailed twice.
THEOREM NoneIsEmailedTwice == SafetySpec => []OnceWithoutMishap
  <1>1. Inv => OnceWithoutMishap
    BY DEF Inv
  <1>. QED  BY <1>1, Invariance, PTL

-----------------------------------------------------------------------------
\* Under the same condition a posting that a digest counted and left out is
\* not emailed by a later one.
THEOREM CappedOutIsNotEmailed == SafetySpec => CappedOutStaysOut
  <1>. DEFINE P == \A p \in Postings :
                      p \in counted /\ inbox[p] = 0 /\ mishaps' = {} => inbox'[p] = 0
  <1>1. ASSUME Inv, [Next]_vars PROVE P
    <2>1. ASSUME NEW d \in Drivers, Send(d) PROVE P
      <3>. SUFFICES ASSUME NEW p \in Postings, p \in counted, inbox[p] = 0, mishaps' = {}
                    PROVE  inbox'[p] = 0
        OBVIOUS
      <3>1. mishaps = {} /\ run[d].pc = "sending" /\ Deliver(d)
        BY <2>1 DEF Send
      <3>2. \A e \in Drivers : run[e].pc # "sent"
        BY <1>1, <3>1 DEF Inv, Alone
      <3>3. p \in notified
        BY <1>1, <3>1, <3>2 DEF Inv, InFlight
      <3>4. p \notin run[d].sent
        BY <1>1, <3>1, <3>3 DEF Inv, Fresh, Composed
      <3>. QED  BY <1>1, <3>1, <3>4, DeliverEffect
    <2>2. ASSUME NEW d \in Drivers, SendFails(d) PROVE P
      BY <2>2 DEF SendFails
    <2>3. ASSUME UNCHANGED inbox PROVE P
      BY <2>3
    <2>. QED
      BY <1>1, <2>1, <2>2, <2>3
      DEF Next, vars, Arrive, EditMailer, EditPrefs, NewInstance, Dusk, Dawn, Digest, Start, Skip, Compose, Mark, Crash
  <1>. QED  BY <1>1, Invariance, PTL DEF SafetySpec, CappedOutStaysOut

=============================================================================
