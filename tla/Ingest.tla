------------------------------ MODULE Ingest -------------------------------
(* Watchlist ingestion.  Sweeps (one over the fast sources, one over the    *)
(* slow ones) read the watchlist, fetch the boards until the tick's         *)
(* deadline, and write everything they fetched in one batch; `ingest one    *)
(* company' works board by board and posting by posting.  Meanwhile the     *)
(* boards change, the owner adds, pauses and removes companies, fetches     *)
(* fail or end early, and a run dies with what it had fetched.              *)
(*                                                                          *)
(* Greenhouse boards answer `not modified' to a request that carries the    *)
(* tag of their current content; the adapter caches the tag as soon as the  *)
(* full answer arrives, before anything is stored, and sends it when the    *)
(* jobs table has a greenhouse posting of the company that owns the board.  *)
(*                                                                          *)
(* Abstractions: a posting's content is a version number, which stands for  *)
(* the hash over title, location and date; the filters of a sweep are a set *)
(* of (posting, version) pairs; a tag is the content it identifies; a board *)
(* lists a posting once.                                                    *)
EXTENDS Naturals, FiniteSets

CONSTANTS
    Companies, Boards, Keys,
    OwnerOf,        \* board -> company
    BoardOf,        \* posting -> board
    Conditional,    \* boards that answer conditional requests (greenhouse)
    Slow,           \* boards of the slow sources
    Quiet,          \* boards whose adapter ends early instead of raising
    Passing,        \* (posting, version) pairs that pass the tech and US filters
    Preferred,      \* postings that also match the owner's preferences
    MaxVersion,     \* versions of a posting (bound)
    MaxEvents       \* edits of the watchlist, failures, crashes (bound)

Versions == 1 .. MaxVersion
Content == Keys \X Versions
Sweeps == {"fast", "slow"}
Drivers == Sweeps \cup {"manual"}

ASSUME IngestAssumption ==
    /\ OwnerOf \in [Boards -> Companies]
    /\ BoardOf \in [Keys -> Boards]
    /\ Conditional \subseteq Boards /\ Slow \subseteq Boards /\ Quiet \subseteq Boards
    /\ Passing \subseteq Content /\ Preferred \subseteq Keys
    /\ MaxVersion \in Nat /\ MaxEvents \in Nat

VARIABLES
    site,           \* the last version of each posting its board published
    listed,         \* the postings on their boards now
    boards,         \* the boards on the watchlist
    active,         \* the companies that are not paused
    jobs,           \* the jobs table: the version stored; 0 is no row
    etag,           \* the adapter's cache of tags: none or one for each board
    run,            \* the ingestions under way
    events,         \* watchlist edits, failures and crashes so far
    mishaps         \* history: boards whose tag may cover what was not stored

vars == <<site, listed, boards, active, jobs, etag, run, events, mishaps>>

-----------------------------------------------------------------------------
\* shared: another run was under way at some time during this one (history).
Runs == [under: BOOLEAN, todo: SUBSET Boards, batch: SUBSET Content,
         choosy: BOOLEAN, shared: BOOLEAN]
IdleRun == [under |-> FALSE, todo |-> {}, batch |-> {}, choosy |-> FALSE, shared |-> FALSE]

TypeOK ==
    /\ site \in [Keys -> 0 .. MaxVersion]
    /\ listed \in SUBSET Keys
    /\ boards \in SUBSET Boards
    /\ active \in SUBSET Companies
    /\ jobs \in [Keys -> 0 .. MaxVersion]
    /\ etag \in [Boards -> SUBSET SUBSET Content]
    /\ run \in [Drivers -> Runs]
    /\ events \in 0 .. MaxEvents
    /\ mishaps \in SUBSET Boards

Init ==
    /\ site = [k \in Keys |-> 0]
    /\ listed = {}
    /\ boards = {}
    /\ active = {}
    /\ jobs = [k \in Keys |-> 0]
    /\ etag = [b \in Boards |-> {}]
    /\ run = [d \in Drivers |-> IdleRun]
    /\ events = 0
    /\ mishaps = {}

Event == events < MaxEvents /\ events' = events + 1

-----------------------------------------------------------------------------
(* The boards.                                                              *)

On(b) == {k \in Keys : BoardOf[k] = b}
ContentOf(b) == {<<k, site[k]>> : k \in listed \cap On(b)}

Publish(k) ==
    /\ site[k] < MaxVersion
    /\ site' = [site EXCEPT ![k] = @ + 1]
    /\ listed' = listed \cup {k}
    /\ UNCHANGED <<boards, active, jobs, etag, run, events, mishaps>>

Close(k) ==
    /\ Event
    /\ k \in listed
    /\ listed' = listed \ {k}
    /\ UNCHANGED <<site, boards, active, jobs, etag, run, mishaps>>

-----------------------------------------------------------------------------
(* Fetching one board.                                                      *)

SameOwner(b) == {b2 \in Boards : OwnerOf[b2] = OwnerOf[b]}

\* The count behind the conditional request: greenhouse postings of the
\* company that has this board on the watchlist, from whichever board.
PersistedJobs(b) ==
    {k \in Keys : b \in boards /\ BoardOf[k] \in Conditional \cap SameOwner(b) /\ jobs[k] > 0}

\* Mutant of SendsTag: a tag is trusted although nothing is stored yet.
SendsTagAlways(b) == b \in Conditional /\ etag[b] # {}

SendsTag(b) == b \in Conditional /\ etag[b] # {} /\ PersistedJobs(b) # {}
NotModified(b) == SendsTag(b) /\ ContentOf(b) \in etag[b]

\* The listing a fetch returns, and the tags it leaves behind.
Listing(b) == IF NotModified(b) THEN {} ELSE ContentOf(b)
TagsAfter(b) ==
    IF b \in Conditional /\ ~NotModified(b) THEN [etag EXCEPT ![b] = {ContentOf(b)}] ELSE etag

\* The filters of an ingestion, and whether they leave out a posting that
\* another ingestion would keep.
Kept(d, rows) == {p \in rows \cap Passing : run[d].choosy => p[1] \in Preferred}
LeavesOut(d, rows) == Kept(d, rows) # rows \cap Passing

\* A run takes a board, keeps the rows, and forgets the board.
Take(d, b, rows) ==
    run' = [run EXCEPT ![d].todo = @ \ {b}, ![d].batch = @ \cup Kept(d, rows)]

\* A company's own ingestion stores a board's postings before the next board.
CanFetch(d, b) == b \in run[d].todo /\ (d = "manual" => run[d].batch = {})

Fetch(d, b) ==
    /\ CanFetch(d, b)
    /\ Take(d, b, Listing(b))
    /\ etag' = TagsAfter(b)
    /\ mishaps' = mishaps \cup (IF LeavesOut(d, Listing(b)) THEN {b} ELSE {})
    /\ UNCHANGED <<site, listed, boards, active, jobs, events>>

\* The host refuses: the board's error is a value in the run's result.
FetchFails(d, b) ==
    /\ Event
    /\ CanFetch(d, b)
    /\ Take(d, b, {})
    /\ UNCHANGED <<site, listed, boards, active, jobs, etag, mishaps>>

\* An adapter that ends its paging on a refusal returns what it has.
FetchEndsEarly(d, b) ==
    /\ Event
    /\ CanFetch(d, b) /\ b \in Quiet \ Conditional
    /\ \E rows \in SUBSET ContentOf(b) : Take(d, b, rows)
    /\ UNCHANGED <<site, listed, boards, active, jobs, etag, mishaps>>

-----------------------------------------------------------------------------
(* A sweep.                                                                 *)

\* Mutant of Begin: the run queues companies instead of their boards.
BeginCompanies(d, todo, choosy) ==
    run' = [run EXCEPT ![d] = [IdleRun EXCEPT !.under = TRUE, !.choosy = choosy,
                                              !.todo = {OwnerOf[b] : b \in todo}]]

Begin(d, todo, choosy) ==
    LET others == {e \in Drivers \ {d} : run[e].under}
    IN  run' = [e \in Drivers |->
                 IF e = d THEN [under |-> TRUE, todo |-> todo, batch |-> {},
                                choosy |-> choosy, shared |-> others # {}]
                 ELSE IF e \in others THEN [run[e] EXCEPT !.shared = TRUE]
                 ELSE run[e]]

InSweep(d, b) == (b \in Slow) <=> (d = "slow")

\* The active companies' boards on the sources of this sweep.
BeginSweep(d) ==
    /\ ~run[d].under
    /\ \E todo \in {{b \in boards : InSweep(d, b) /\ OwnerOf[b] \in active}} :
          /\ todo # {}
          /\ Begin(d, todo, FALSE)
    /\ UNCHANGED <<site, listed, boards, active, jobs, etag, events, mishaps>>

\* The deadline passes: no new fetch starts.  Boards are taken in a random
\* order, so any of them may be the ones left out.
Deadline(d) ==
    /\ Event
    /\ run[d].todo # {}
    /\ run' = [run EXCEPT ![d].todo = {}]
    /\ UNCHANGED <<site, listed, boards, active, jobs, etag, mishaps>>

\* Mutant of Upsert: the sweep replaces the table instead of being merged into
\* it.
UpsertReplaces(rows) ==
    [k \in Keys |-> IF \E v \in Versions : <<k, v>> \in rows
                    THEN CHOOSE v \in Versions : <<k, v>> \in rows ELSE 0]

\* New postings are inserted, changed ones rewritten, the others left alone.
Upsert(rows) ==
    [k \in Keys |-> IF \E v \in Versions : <<k, v>> \in rows
                    THEN CHOOSE v \in Versions : <<k, v>> \in rows ELSE jobs[k]]

\* Boards of which these rows put an older version over a newer one.
SetBack(rows) == {BoardOf[p[1]] : p \in {q \in rows : q[2] < jobs[q[1]]}}

\* The whole sweep is written in one transaction, when the last board is in.
WriteBatch(d) ==
    /\ run[d].under /\ run[d].todo = {}
    /\ jobs' = Upsert(run[d].batch)
    /\ mishaps' = mishaps \cup SetBack(run[d].batch)
    /\ run' = [run EXCEPT ![d] = IdleRun]
    /\ UNCHANGED <<site, listed, boards, active, etag, events>>

-----------------------------------------------------------------------------
(* One company, on demand: a paused one too, with the preference filter or  *)
(* without it.                                                              *)

BeginManual(c, choosy) ==
    /\ Event
    /\ ~run["manual"].under
    /\ \E todo \in {{b \in boards : OwnerOf[b] = c}} :
          /\ todo # {}
          /\ Begin("manual", todo, choosy)
    /\ UNCHANGED <<site, listed, boards, active, jobs, etag, mishaps>>

\* Every posting is a transaction of its own.
StoreOne(p) ==
    /\ p \in run["manual"].batch
    /\ jobs' = Upsert({p})
    /\ mishaps' = mishaps \cup SetBack({p})
    /\ run' = [run EXCEPT !["manual"].batch = @ \ {p}]
    /\ UNCHANGED <<site, listed, boards, active, etag, events>>

EndManual ==
    /\ run["manual"].under /\ run["manual"].todo = {} /\ run["manual"].batch = {}
    /\ run' = [run EXCEPT !["manual"] = IdleRun]
    /\ UNCHANGED <<site, listed, boards, active, jobs, etag, events, mishaps>>

-----------------------------------------------------------------------------
(* The instance and the watchlist.                                          *)

\* The run dies with what it fetched; the tags it cached stay on the disk ...
Crash(d) ==
    /\ Event
    /\ run[d].under
    /\ run' = [run EXCEPT ![d] = IdleRun]
    /\ mishaps' = mishaps \cup {BoardOf[p[1]] : p \in run[d].batch}
    /\ UNCHANGED <<site, listed, boards, active, jobs, etag>>

\* ... until the instance and its disk are replaced.
NewInstance ==
    /\ Event
    /\ \A d \in Drivers : ~run[d].under
    /\ etag' = [b \in Boards |-> {}]
    /\ UNCHANGED <<site, listed, boards, active, jobs, run, mishaps>>

\* Adding a board also resumes a paused company.  The slug probe lists the
\* board first, and misses when the listing is empty or `not modified'.
AddCompany(b) ==
    /\ Event
    /\ boards' = boards \cup {b}
    /\ active' = active \cup {OwnerOf[b]}
    /\ UNCHANGED <<site, listed, jobs, etag, run, mishaps>>

\* A probe does no harm to a company that has no other such board and none of
\* its postings stored or on the way.
ProbedFirst(b) ==
    /\ SameOwner(b) \cap Conditional \subseteq {b}
    /\ \A k \in On(b) : jobs[k] = 0 /\ \A d \in Drivers : \A p \in run[d].batch : p[1] # k

Onboard(b) ==
    /\ Event
    /\ etag' = TagsAfter(b)
    /\ IF Listing(b) # {}
       THEN boards' = boards \cup {b} /\ active' = active \cup {OwnerOf[b]}
       ELSE UNCHANGED <<boards, active>>
    /\ mishaps' = mishaps \cup (IF ProbedFirst(b) THEN {} ELSE {b})
    /\ UNCHANGED <<site, listed, jobs, run>>

SetActive(c, on) ==
    /\ Event
    /\ \E b \in boards : OwnerOf[b] = c
    /\ active' = IF on THEN active \cup {c} ELSE active \ {c}
    /\ UNCHANGED <<site, listed, boards, jobs, etag, run, mishaps>>

RemoveCompany(c) ==
    /\ Event
    /\ boards' = {b \in boards : OwnerOf[b] # c}
    /\ active' = active \ {c}
    /\ UNCHANGED <<site, listed, jobs, etag, run, mishaps>>

-----------------------------------------------------------------------------
Watchlist ==
    \/ \E b \in Boards : AddCompany(b) \/ Onboard(b)
    \/ \E c \in Companies : RemoveCompany(c) \/ \E on \in BOOLEAN : SetActive(c, on)

Ingestion ==
    \/ \E d \in Drivers, b \in Boards :
          Fetch(d, b) \/ FetchFails(d, b) \/ FetchEndsEarly(d, b)
    \/ \E d \in Sweeps : BeginSweep(d) \/ Deadline(d) \/ WriteBatch(d)
    \/ \E c \in Companies, choosy \in BOOLEAN : BeginManual(c, choosy)
    \/ \E p \in Content : StoreOne(p)
    \/ EndManual
    \/ \E d \in Drivers : Crash(d)
    \/ NewInstance

Next ==
    \/ \E k \in Keys : Publish(k) \/ Close(k)
    \/ Watchlist
    \/ Ingestion

\* The cron jobs keep firing, a run gets to its end, and a host that is asked
\* again and again answers at last; nothing makes the owner or a board act.
Fairness ==
    /\ \A d \in Sweeps : WF_vars(BeginSweep(d)) /\ WF_vars(WriteBatch(d))
    /\ \A d \in Drivers, b \in Boards : WF_vars(Fetch(d, b))
    /\ \A p \in Content : WF_vars(StoreOne(p))
    /\ WF_vars(EndManual)

SafetySpec == Init /\ [][Next]_vars
Spec == SafetySpec /\ Fairness

-----------------------------------------------------------------------------
(* Properties.                                                              *)

InFlight(b) == \E d \in Drivers, p \in Content : p \in run[d].batch /\ BoardOf[p[1]] = b

\* What a board lists now, passes the filters and is not in the jobs table.
Missing(b) == {p \in ContentOf(b) \cap Passing : jobs[p[1]] # p[2]}

\* A board is only skipped as `not modified' when the jobs table has what it
\* lists: the tag is not trusted for a board whose full answer was never
\* stored (the count of stored postings in the greenhouse adapter).
SkippedIsStored ==
    \A b \in Boards :
        (NotModified(b) /\ ~InFlight(b) /\ b \notin mishaps) => Missing(b) = {}

\* A stored posting never goes back to an older version while only one
\* ingestion is under way: a run never writes what an earlier run fetched.
NeverSetBackAlone ==
    [][\A k \in Keys : jobs'[k] < jobs[k] =>
            \E d \in Drivers : run[d].shared /\ \E v \in Versions : <<k, v>> \in run[d].batch]_vars

Wanted(k) ==
    /\ <<k, site[k]>> \in Passing /\ k \in listed
    /\ BoardOf[k] \in boards /\ OwnerOf[BoardOf[k]] \in active

\* A posting that stays wanted on a watched board reaches the jobs table in
\* the version listed, through failed fetches, cut sweeps, crashes and a
\* probe that cached the board's tag before the first ingest.
WantedIsStored ==
    \A k \in Keys :
        (Wanted(k) /\ BoardOf[k] \notin mishaps)
            ~> (jobs[k] = site[k] \/ ~Wanted(k) \/ BoardOf[k] \in mishaps)

\* Ingestion keeps the promise of the jobs table.
Feed == INSTANCE JobFeed WITH published <- site, stored <- jobs
FeedSpec == Feed!Spec
=============================================================================
