---------------------------- MODULE IngestProofs ----------------------------
(* What TLAPS proves about Ingest, for any boards, postings, filters and    *)
(* bounds.                                                                  *)
EXTENDS Ingest, TLAPS

-----------------------------------------------------------------------------
(* The inductive invariants.                                                *)

\* What is on a board, fetched or stored was published.
Published ==
    /\ \A k \in listed : site[k] > 0
    /\ \A k \in Keys : jobs[k] <= site[k]
    /\ \A d \in Drivers : \A p \in run[d].batch : p[2] <= site[p[1]]

\* A run that is not under way holds nothing; one that still has a board to
\* fetch has no rows of it; a manual run has the rows of one board; so a run
\* never holds two versions of a posting.
Tidy ==
    \A d \in Drivers :
        /\ ~run[d].under => run[d].todo = {} /\ run[d].batch = {}
        /\ \A p \in run[d].batch : BoardOf[p[1]] \notin run[d].todo
        /\ \A p, q \in run[d].batch : p[1] = q[1] => p = q

\* Runs that overlap know it.
SharedKnown ==
    \A d, e \in Drivers : d # e /\ run[d].under /\ run[e].under => run[d].shared

\* What a run that was alone holds is not older than what is stored.
AloneIsFresh ==
    \A d \in Drivers : ~run[d].shared => \A p \in run[d].batch : jobs[p[1]] <= p[2]

TypeInv == TypeOK /\ Published
Inv == TypeInv /\ Tidy /\ SharedKnown /\ AloneIsFresh

-----------------------------------------------------------------------------
(* Steps on the runs.                                                       *)

LEMMA EventType == ASSUME TypeOK, Event PROVE events' \in 0 .. MaxEvents
  <1>1. events \in 0 .. MaxEvents /\ MaxEvents \in Nat
    BY IngestAssumption DEF TypeOK
  <1>. QED  BY <1>1 DEF Event

\* Replacing the record of one run.
LEMMA RunMoves ==
    ASSUME TypeOK, NEW d \in Drivers, NEW r \in Runs, run' = [run EXCEPT ![d] = r]
    PROVE  /\ run' \in [Drivers -> Runs]
           /\ run'[d] = r
           /\ \A e \in Drivers : e # d => run'[e] = run[e]
  BY DEF TypeOK

LEMMA IdleType == IdleRun \in Runs /\ IdleRun.todo = {} /\ IdleRun.batch = {} /\ ~IdleRun.under /\ ~IdleRun.shared
  BY DEF IdleRun, Runs

\* A listing is published content of its board, one version of each posting.
LEMMA ContentIsPublished ==
    ASSUME TypeInv, NEW b \in Boards
    PROVE  /\ ContentOf(b) \subseteq Content
           /\ \A p \in ContentOf(b) : p[1] \in listed /\ BoardOf[p[1]] = b /\ p[2] = site[p[1]]
  <1>1. ASSUME NEW k \in listed \cap On(b)
        PROVE  <<k, site[k]>> \in Content
    <2>1. k \in Keys /\ site[k] \in 0 .. MaxVersion /\ site[k] > 0
      BY DEF TypeInv, TypeOK, Published, On
    <2>2. site[k] \in 1 .. MaxVersion
      BY <2>1, IngestAssumption
    <2>. QED  BY <2>1, <2>2 DEF Content, Versions
  <1>. QED  BY <1>1 DEF ContentOf, On

\* A fetch moves the run of its driver, and only that.
LEMMA TakeMoves ==
    ASSUME TypeOK, NEW d \in Drivers, NEW b \in Boards,
           NEW rows \in SUBSET Content, CanFetch(d, b), Take(d, b, rows)
    PROVE  /\ run' \in [Drivers -> Runs]
           /\ run'[d].todo = run[d].todo \ {b}
           /\ run'[d].batch = run[d].batch \cup Kept(d, rows)
           /\ run'[d].under = run[d].under /\ run'[d].shared = run[d].shared
           /\ run'[d].choosy = run[d].choosy
           /\ \A e \in Drivers : e # d => run'[e] = run[e]
  <1>1. run[d] \in Runs /\ Kept(d, rows) \subseteq Content
    BY DEF TypeOK, Kept
  <1>2. /\ DOMAIN run' = Drivers
        /\ \A e \in Drivers : e # d => run'[e] = run[e]
        /\ run'[d] = [run[d] EXCEPT !.todo = @ \ {b}, !.batch = @ \cup Kept(d, rows)]
    BY DEF Take, TypeOK
  <1>3. run'[d] = [under |-> run[d].under, todo |-> run[d].todo \ {b},
                  batch |-> run[d].batch \cup Kept(d, rows),
                  choosy |-> run[d].choosy, shared |-> run[d].shared]
    BY <1>1, <1>2 DEF Runs
  <1>4. run'[d] \in Runs
    BY <1>1, <1>3 DEF Runs
  <1>5. run' \in [Drivers -> Runs]
    BY <1>2, <1>4 DEF TypeOK, Take
  <1>. QED  BY <1>2, <1>3, <1>5

\* A run begins, and those under way learn of it.
LEMMA BeginMoves ==
    ASSUME Inv, NEW d \in Drivers, NEW todo \in SUBSET Boards, NEW choosy \in BOOLEAN,
           ~run[d].under, Begin(d, todo, choosy)
    PROVE  /\ run' \in [Drivers -> Runs]
           /\ run'[d].under /\ run'[d].todo = todo /\ run'[d].batch = {}
           /\ \A e \in Drivers : e # d =>
                 /\ run'[e].under = run[e].under /\ run'[e].todo = run[e].todo
                 /\ run'[e].batch = run[e].batch
                 /\ run[e].shared => run'[e].shared
                 /\ run[e].under => run'[e].shared /\ run'[d].shared
  <1>. DEFINE others == {e \in Drivers \ {d} : run[e].under}
              fresh == [under |-> TRUE, todo |-> todo, batch |-> {},
                        choosy |-> choosy, shared |-> others # {}]
  <1>1. /\ run' = [e \in Drivers |-> IF e = d THEN fresh
                                     ELSE IF e \in others THEN [run[e] EXCEPT !.shared = TRUE]
                                     ELSE run[e]]
        /\ run \in [Drivers -> Runs]
    BY DEF Begin, Inv, TypeInv, TypeOK
  <1>2. run'[d] = fresh /\ fresh \in Runs
    BY <1>1 DEF Runs
  <1>3. ASSUME NEW e \in Drivers, e # d
        PROVE  /\ run'[e] \in Runs
               /\ run'[e].under = run[e].under /\ run'[e].todo = run[e].todo
               /\ run'[e].batch = run[e].batch
               /\ run[e].shared => run'[e].shared
               /\ run[e].under => run'[e].shared /\ e \in others
    <2>1. run[e] \in Runs
      BY <1>1
    <2>2. CASE run[e].under
      <3>1. e \in others
        BY <1>3, <2>2
      <3>2. run'[e] = [run[e] EXCEPT !.shared = TRUE]
        BY <1>1, <1>3, <3>1
      <3>. HIDE DEF others
      <3>. QED  BY <2>1, <3>1, <3>2 DEF Runs
    <2>3. CASE ~run[e].under
      <3>1. e \notin others
        BY <2>3
      <3>2. run'[e] = run[e]
        BY <1>1, <1>3, <3>1
      <3>. QED  BY <2>1, <2>3, <3>2
    <2>. QED  BY <2>2, <2>3
  <1>4. run' \in [Drivers -> Runs]
    BY <1>1, <1>2, <1>3
  <1>5. ASSUME NEW e \in Drivers, e # d, run[e].under PROVE run'[d].shared
    <2>1. others # {}
      BY <1>5
    <2>. HIDE DEF others
    <2>2. run'[d].shared = (others # {})
      BY <1>2
    <2>. QED  BY <2>1, <2>2
  <1>. QED  BY <1>2, <1>3, <1>4, <1>5

-----------------------------------------------------------------------------
(* Steps of the system, by what they do to the runs and the jobs table.     *)

\* Neither the runs nor the jobs table change.
LEMMA QuietStep ==
    ASSUME Inv, UNCHANGED <<jobs, run>>, TypeOK',
           \A k \in Keys : site[k] <= site'[k],
           \A k \in listed' : site'[k] > 0
    PROVE  Inv'
  <1>. USE IngestAssumption
  <1>1. Published'
    <2>1. \A k \in Keys : site[k] \in Nat /\ site'[k] \in Nat /\ jobs[k] \in Nat
      BY DEF Inv, TypeInv, TypeOK
    <2>2. \A d \in Drivers : \A p \in run[d].batch : p[1] \in Keys /\ p[2] \in Nat
      BY DEF Inv, TypeInv, TypeOK, Runs, Content, Versions
    <2>3. \A k \in Keys : jobs'[k] <= site'[k]
      BY <2>1 DEF Inv, TypeInv, Published
    <2>4. \A d \in Drivers : \A p \in run'[d].batch : p[2] <= site'[p[1]]
      BY <2>1, <2>2 DEF Inv, TypeInv, Published
    <2>. QED  BY <2>3, <2>4 DEF Published
  <1>2. Tidy' /\ SharedKnown'
    BY DEF Inv, Tidy, SharedKnown
  <1>3. AloneIsFresh'
    BY DEF Inv, AloneIsFresh
  <1>. QED  BY <1>1, <1>2, <1>3 DEF Inv, TypeInv

\* A driver takes a board and rows that the board lists.
LEMMA TakeStep ==
    ASSUME Inv, NEW d \in Drivers, NEW b \in Boards, NEW rows \in SUBSET ContentOf(b),
           CanFetch(d, b), Take(d, b, rows), UNCHANGED <<site, listed, boards, active, jobs>>,
           etag' \in [Boards -> SUBSET SUBSET Content],
           events' \in 0 .. MaxEvents, mishaps' \in SUBSET Boards
    PROVE  Inv'
  <1>. USE IngestAssumption
  <1>1. /\ rows \in SUBSET Content
        /\ \A p \in rows : p[1] \in Keys /\ BoardOf[p[1]] = b /\ p[2] = site[p[1]]
        /\ \A p \in rows : p = <<p[1], p[2]>>
    BY ContentIsPublished DEF Inv, TypeInv, TypeOK, Content
  <1>2. /\ run' \in [Drivers -> Runs]
        /\ run'[d].todo = run[d].todo \ {b}
        /\ run'[d].batch = run[d].batch \cup Kept(d, rows)
        /\ run'[d].under = run[d].under /\ run'[d].shared = run[d].shared
        /\ \A e \in Drivers : e # d => run'[e] = run[e]
    BY <1>1, TakeMoves DEF Inv, TypeInv
  <1>3. Kept(d, rows) \subseteq rows
    BY DEF Kept
  <1>4. b \in run[d].todo /\ run[d].under
    BY DEF CanFetch, Inv, Tidy
  <1>5. TypeOK'
    BY <1>2 DEF Inv, TypeInv, TypeOK
  <1>6. Published'
    <2>1. ASSUME NEW e \in Drivers, NEW p \in run'[e].batch PROVE p[2] <= site[p[1]]
      <3>1. CASE p \in run[e].batch
        BY <3>1 DEF Inv, TypeInv, Published
      <3>2. CASE p \in rows
        <4>1. site[p[1]] \in Nat
          BY <1>1, <3>2 DEF Inv, TypeInv, TypeOK
        <4>. QED  BY <1>1, <3>2, <4>1
      <3>. QED  BY <1>2, <1>3, <3>1, <3>2
    <2>. QED  BY <2>1 DEF Inv, TypeInv, Published
  <1>7. Tidy'
    <2>1. ASSUME NEW p \in run[d].batch, NEW q \in rows PROVE p[1] # q[1]
      BY <1>1, <1>4 DEF Inv, Tidy
    <2>2. ASSUME NEW p \in rows, NEW q \in rows, p[1] = q[1] PROVE p = q
      BY <1>1, <2>2
    <2>3. \A p, q \in run'[d].batch : p[1] = q[1] => p = q
      BY <1>2, <1>3, <2>1, <2>2 DEF Inv, Tidy
    <2>4. \A p \in run'[d].batch : BoardOf[p[1]] \notin run'[d].todo
      BY <1>1, <1>2, <1>3 DEF Inv, Tidy
    <2>5. run'[d].under
      BY <1>2, <1>4
    <2>. QED  BY <1>2, <2>3, <2>4, <2>5 DEF Inv, Tidy
  <1>8. SharedKnown'
    BY <1>2 DEF Inv, SharedKnown
  <1>9. AloneIsFresh'
    <2>1. \A p \in rows : jobs[p[1]] <= p[2]
      BY <1>1 DEF Inv, TypeInv, Published
    <2>. QED  BY <1>2, <1>3, <2>1 DEF Inv, AloneIsFresh
  <1>. QED  BY <1>5, <1>6, <1>7, <1>8, <1>9 DEF Inv, TypeInv

LEMMA BeginStep ==
    ASSUME Inv, NEW d \in Drivers, NEW todo \in SUBSET Boards, NEW choosy \in BOOLEAN,
           ~run[d].under, Begin(d, todo, choosy),
           UNCHANGED <<site, listed, boards, active, jobs, etag, mishaps>>,
           events' \in 0 .. MaxEvents
    PROVE  Inv'
  <1>1. /\ run' \in [Drivers -> Runs]
        /\ run'[d].under /\ run'[d].todo = todo /\ run'[d].batch = {}
        /\ \A e \in Drivers : e # d =>
              /\ run'[e].under = run[e].under /\ run'[e].todo = run[e].todo
              /\ run'[e].batch = run[e].batch
              /\ run[e].shared => run'[e].shared
              /\ run[e].under => run'[e].shared /\ run'[d].shared
    BY BeginMoves
  <1>2. TypeOK'
    BY <1>1 DEF Inv, TypeInv, TypeOK
  <1>3. \A e \in Drivers : run'[e].batch \subseteq run[e].batch
    BY <1>1
  <1>4. Published'
    BY <1>3 DEF Inv, TypeInv, Published
  <1>5. Tidy'
    BY <1>1 DEF Inv, Tidy
  <1>6. SharedKnown'
    BY <1>1 DEF Inv, SharedKnown
  <1>7. AloneIsFresh'
    BY <1>1 DEF Inv, AloneIsFresh
  <1>. QED  BY <1>2, <1>4, <1>5, <1>6, <1>7 DEF Inv, TypeInv

\* A run loses boards, or ends with what it held; the jobs table is left alone.
LEMMA ShrinkStep ==
    ASSUME Inv, NEW d \in Drivers, NEW r \in Runs, run' = [run EXCEPT ![d] = r],
           \/ r = IdleRun
           \/ r.todo = {} /\ r.batch = run[d].batch /\ r.under = run[d].under /\ r.shared = run[d].shared,
           UNCHANGED <<site, listed, boards, active, jobs, etag>>,
           events' \in 0 .. MaxEvents, mishaps' \in SUBSET Boards
    PROVE  Inv'
  <1>1. /\ run' \in [Drivers -> Runs] /\ run'[d] = r
        /\ \A e \in Drivers : e # d => run'[e] = run[e]
    BY RunMoves DEF Inv, TypeInv
  <1>2. /\ r.batch \subseteq run[d].batch /\ r.todo = {}
        /\ r.under => run[d].under /\ (run[d].shared => r.shared)
        /\ ~r.under => r.batch = {}
        /\ r.batch = {} \/ r.shared = run[d].shared
    BY IdleType DEF Inv, Tidy
  <1>3. TypeOK'
    BY <1>1 DEF Inv, TypeInv, TypeOK
  <1>4. \A e \in Drivers : run'[e].batch \subseteq run[e].batch
    BY <1>1, <1>2
  <1>5. Published'
    BY <1>4 DEF Inv, TypeInv, Published
  <1>6. Tidy'
    BY <1>1, <1>2 DEF Inv, Tidy
  <1>7. SharedKnown'
    BY <1>1, <1>2 DEF Inv, SharedKnown
  <1>8. AloneIsFresh'
    BY <1>1, <1>2 DEF Inv, AloneIsFresh
  <1>. QED  BY <1>3, <1>5, <1>6, <1>7, <1>8 DEF Inv, TypeInv

\* What an upsert of a part of a run's rows makes of the jobs table.
LEMMA UpsertStores ==
    ASSUME Inv, NEW d \in Drivers, NEW rows \in SUBSET run[d].batch, jobs' = Upsert(rows)
    PROVE  /\ jobs' \in [Keys -> 0 .. MaxVersion]
           /\ \A p \in rows : jobs'[p[1]] = p[2]
           /\ \A k \in Keys : (\A p \in rows : p[1] # k) => jobs'[k] = jobs[k]
           /\ \A k \in Keys : jobs'[k] # jobs[k] => \E p \in rows : p[1] = k /\ jobs'[k] = p[2]
  <1>. USE IngestAssumption
  <1>1. rows \subseteq Content /\ jobs \in [Keys -> 0 .. MaxVersion]
    BY DEF Inv, TypeInv, TypeOK, Runs
  <1>2. \A p \in rows : p = <<p[1], p[2]>> /\ p[1] \in Keys /\ p[2] \in Versions /\ p[2] \in 0 .. MaxVersion
    BY <1>1 DEF Content, Versions
  <1>3. \A p, q \in rows : p[1] = q[1] => p = q
    BY DEF Inv, Tidy
  <1>4. ASSUME NEW k \in Keys, NEW p \in rows, p[1] = k
        PROVE  jobs'[k] = p[2]
    <2>1. <<k, p[2]>> \in rows /\ p[2] \in Versions
      BY <1>2, <1>4
    <2>2. jobs'[k] = CHOOSE v \in Versions : <<k, v>> \in rows
      BY <2>1 DEF Upsert
    <2>3. jobs'[k] \in Versions /\ <<k, jobs'[k]>> \in rows
      BY <2>1, <2>2
    <2>. QED  BY <1>3, <1>4, <2>3
  <1>5. ASSUME NEW k \in Keys, \A p \in rows : p[1] # k
        PROVE  jobs'[k] = jobs[k]
    <2>1. ~ \E v \in Versions : <<k, v>> \in rows
      BY <1>5
    <2>. QED  BY <2>1 DEF Upsert
  <1>6. jobs' \in [Keys -> 0 .. MaxVersion]
    <2>1. \A k \in Keys : jobs'[k] \in 0 .. MaxVersion
      BY <1>1, <1>2, <1>4, <1>5
    <2>. QED  BY <2>1 DEF Upsert
  <1>. QED  BY <1>2, <1>4, <1>5, <1>6

\* A run writes rows of its batch and forgets them.
LEMMA StoreStep ==
    ASSUME Inv, NEW d \in Drivers, NEW rows \in SUBSET run[d].batch, NEW r \in Runs,
           jobs' = Upsert(rows), run' = [run EXCEPT ![d] = r],
           \/ r = IdleRun
           \/ /\ r.batch = run[d].batch \ rows /\ r.todo = run[d].todo
              /\ r.under = run[d].under /\ r.shared = run[d].shared,
           UNCHANGED <<site, listed, boards, active, etag>>,
           events' \in 0 .. MaxEvents, mishaps' \in SUBSET Boards
    PROVE  Inv'
  <1>. USE IngestAssumption
  <1>1. /\ run' \in [Drivers -> Runs] /\ run'[d] = r
        /\ \A e \in Drivers : e # d => run'[e] = run[e]
    BY RunMoves DEF Inv, TypeInv
  <1>2. /\ r.batch \subseteq run[d].batch \ rows
        /\ r.todo \subseteq run[d].todo
        /\ r.under => run[d].under /\ (run[d].shared => r.shared)
        /\ ~r.under => r.batch = {} /\ r.todo = {}
        /\ r.batch = {} \/ r.shared = run[d].shared
    BY IdleType DEF Inv, Tidy
  <1>3. /\ jobs' \in [Keys -> 0 .. MaxVersion]
        /\ \A p \in rows : jobs'[p[1]] = p[2]
        /\ \A k \in Keys : (\A p \in rows : p[1] # k) => jobs'[k] = jobs[k]
        /\ \A k \in Keys : jobs'[k] # jobs[k] => \E p \in rows : p[1] = k /\ jobs'[k] = p[2]
    BY UpsertStores
  <1>4. TypeOK'
    BY <1>1, <1>3 DEF Inv, TypeInv, TypeOK
  <1>5. \A e \in Drivers : run'[e].batch \subseteq run[e].batch
    BY <1>1, <1>2
  <1>6. Published'
    BY <1>3, <1>5 DEF Inv, TypeInv, Published
  <1>7. Tidy'
    BY <1>1, <1>2 DEF Inv, Tidy
  <1>8. SharedKnown'
    BY <1>1, <1>2 DEF Inv, SharedKnown
  <1>9. AloneIsFresh'
    <2>. SUFFICES ASSUME NEW e \in Drivers, ~run'[e].shared, NEW p \in run'[e].batch
                  PROVE  jobs'[p[1]] <= p[2]
      BY DEF AloneIsFresh
    <2>1. p \in run[e].batch /\ ~run[e].shared /\ jobs[p[1]] <= p[2]
      BY <1>1, <1>2, <1>5 DEF Inv, AloneIsFresh
    <2>2. p[1] \in Keys
      BY <2>1 DEF Inv, TypeInv, TypeOK, Runs, Content
    <2>3. CASE e = d
      <3>1. p \in run[d].batch /\ p \notin rows
        BY <1>1, <1>2, <2>3
      <3>2. \A q \in rows : q[1] # p[1]
        BY <3>1 DEF Inv, Tidy
      <3>. QED  BY <1>3, <2>1, <2>2, <3>2
    <2>4. CASE e # d
      <3>1. run[e].under
        BY <2>1 DEF Inv, Tidy
      <3>2. ~run[d].under
        BY <2>1, <2>4, <3>1 DEF Inv, SharedKnown
      <3>3. rows = {}
        BY <3>2 DEF Inv, Tidy
      <3>. QED  BY <1>3, <2>1, <2>2, <3>3
    <2>. QED  BY <2>3, <2>4
  <1>. QED  BY <1>4, <1>6, <1>7, <1>8, <1>9 DEF Inv, TypeInv

LEMMA TagsType ==
    ASSUME Inv, NEW b \in Boards
    PROVE  TagsAfter(b) \in [Boards -> SUBSET SUBSET Content]
  BY ContentIsPublished DEF TagsAfter, Inv, TypeInv, TypeOK

-----------------------------------------------------------------------------
(* Every step keeps the invariant.                                          *)

LEMMA InitInv == Init => Inv
  <1>. SUFFICES ASSUME Init PROVE Inv
    OBVIOUS
  <1>. USE IngestAssumption
  <1>1. TypeOK
    BY IdleType DEF Init, TypeOK
  <1>2. Published
    BY IdleType DEF Init, Published
  <1>3. Tidy /\ SharedKnown /\ AloneIsFresh
    BY IdleType DEF Init, Tidy, SharedKnown, AloneIsFresh
  <1>. QED  BY <1>1, <1>2, <1>3 DEF Inv, TypeInv

LEMMA BoardsStep ==
    ASSUME Inv, NEW k \in Keys, Publish(k) \/ Close(k)
    PROVE  Inv'
  <1>. USE IngestAssumption
  <1>1. site \in [Keys -> 0 .. MaxVersion] /\ \A x \in listed : site[x] > 0
    BY DEF Inv, TypeInv, TypeOK, Published
  <1>2. CASE Publish(k)
    <2>1. site' = [site EXCEPT ![k] = site[k] + 1] /\ listed' = listed \cup {k} /\ site[k] < MaxVersion
      BY <1>2 DEF Publish
    <2>2. site[k] \in 0 .. MaxVersion /\ site[k] + 1 \in 0 .. MaxVersion /\ site[k] + 1 > 0 /\ site[k] <= site[k] + 1
      BY <1>1, <2>1
    <2>3. site' \in [Keys -> 0 .. MaxVersion]
      BY <1>1, <2>1, <2>2
    <2>4. site'[k] = site[k] + 1 /\ \A x \in Keys : x # k => site'[x] = site[x]
      BY <1>1, <2>1
    <2>5. \A x \in Keys : site[x] <= site'[x]
      <3>1. \A x \in Keys : site[x] \in Nat
        BY <1>1
      <3>. QED  BY <2>2, <2>4, <3>1
    <2>6. listed \subseteq Keys
      BY DEF Inv, TypeInv, TypeOK
    <2>7. \A x \in listed' : site'[x] > 0
      BY <1>1, <2>1, <2>2, <2>4, <2>6
    <2>8. TypeOK'
      BY <1>2, <2>1, <2>3 DEF Publish, Inv, TypeInv, TypeOK
    <2>. QED  BY <1>2, <2>5, <2>7, <2>8, QuietStep DEF Publish
  <1>3. CASE Close(k)
    <2>1. events' \in 0 .. MaxEvents
      BY <1>3, EventType DEF Close, Inv, TypeInv
    <2>2. TypeOK'
      BY <1>3, <2>1 DEF Close, Inv, TypeInv, TypeOK
    <2>3. \A x \in Keys : site[x] <= site'[x]
      BY <1>1, <1>3 DEF Close
    <2>. QED  BY <1>1, <1>3, <2>2, <2>3, QuietStep DEF Close
  <1>. QED  BY <1>2, <1>3

LEMMA WatchlistStep ==
    ASSUME Inv, Watchlist \/ NewInstance
    PROVE  Inv'
  <1>. USE IngestAssumption
  <1>. DEFINE Effect == /\ UNCHANGED <<site, listed, jobs, run>> /\ Event
                        /\ boards' \in SUBSET Boards /\ active' \in SUBSET Companies
                        /\ etag' \in [Boards -> SUBSET SUBSET Content]
                        /\ mishaps' \in SUBSET Boards
  <1>1. Effect
    <2>1. ASSUME NEW b \in Boards, AddCompany(b) PROVE Effect
      BY <2>1 DEF AddCompany, Inv, TypeInv, TypeOK
    <2>2. ASSUME NEW b \in Boards, Onboard(b) PROVE Effect
      BY <2>2, TagsType DEF Onboard, Inv, TypeInv, TypeOK
    <2>3. ASSUME NEW c \in Companies, RemoveCompany(c) PROVE Effect
      BY <2>3 DEF RemoveCompany, Inv, TypeInv, TypeOK
    <2>4. ASSUME NEW c \in Companies, NEW on \in BOOLEAN, SetActive(c, on) PROVE Effect
      BY <2>4 DEF SetActive, Inv, TypeInv, TypeOK
    <2>5. CASE NewInstance
      BY <2>5 DEF NewInstance, Inv, TypeInv, TypeOK
    <2>. HIDE DEF Effect
    <2>. QED  BY <2>1, <2>2, <2>3, <2>4, <2>5 DEF Watchlist
  <1>2. events' \in 0 .. MaxEvents
    BY <1>1, EventType DEF Inv, TypeInv
  <1>3. TypeOK'
    BY <1>1, <1>2 DEF Inv, TypeInv, TypeOK
  <1>4. \A k \in Keys : site[k] <= site'[k]
    BY <1>1 DEF Inv, TypeInv, TypeOK
  <1>5. \A k \in listed' : site'[k] > 0
    BY <1>1 DEF Inv, TypeInv, Published
  <1>. QED  BY <1>1, <1>3, <1>4, <1>5, QuietStep

LEMMA FetchStep ==
    ASSUME Inv, NEW d \in Drivers, NEW b \in Boards,
           Fetch(d, b) \/ FetchFails(d, b) \/ FetchEndsEarly(d, b)
    PROVE  Inv'
  <1>1. /\ etag \in [Boards -> SUBSET SUBSET Content] /\ mishaps \in SUBSET Boards
        /\ events \in 0 .. MaxEvents
    BY DEF Inv, TypeInv, TypeOK
  <1>2. CASE Fetch(d, b)
    <2>1. Listing(b) \in SUBSET ContentOf(b)
      BY DEF Listing
    <2>2. mishaps' \in SUBSET Boards /\ events' \in 0 .. MaxEvents
      BY <1>1, <1>2 DEF Fetch
    <2>3. etag' \in [Boards -> SUBSET SUBSET Content]
      BY <1>2, TagsType DEF Fetch
    <2>. QED  BY <1>2, <2>1, <2>2, <2>3, TakeStep DEF Fetch
  <1>3. CASE FetchFails(d, b)
    <2>1. events' \in 0 .. MaxEvents
      BY <1>3, EventType DEF FetchFails, Inv, TypeInv
    <2>2. {} \in SUBSET ContentOf(b)
      OBVIOUS
    <2>. QED  BY <1>1, <1>3, <2>1, <2>2, TakeStep DEF FetchFails
  <1>4. CASE FetchEndsEarly(d, b)
    <2>1. events' \in 0 .. MaxEvents
      BY <1>4, EventType DEF FetchEndsEarly, Inv, TypeInv
    <2>. QED  BY <1>1, <1>4, <2>1, TakeStep DEF FetchEndsEarly
  <1>. QED  BY <1>2, <1>3, <1>4

LEMMA RunStep ==
    ASSUME Inv,
           \/ \E d \in Sweeps : BeginSweep(d) \/ Deadline(d) \/ WriteBatch(d)
           \/ \E c \in Companies, choosy \in BOOLEAN : BeginManual(c, choosy)
           \/ \E p \in Content : StoreOne(p)
           \/ EndManual
           \/ \E d \in Drivers : Crash(d)
    PROVE  Inv'
  <1>. USE DEF Drivers
  <1>1. /\ run \in [Drivers -> Runs] /\ mishaps \in SUBSET Boards /\ events \in 0 .. MaxEvents
        /\ BoardOf \in [Keys -> Boards]
    BY IngestAssumption DEF Inv, TypeInv, TypeOK
  <1>2. \A d \in Drivers : \A p \in run[d].batch : BoardOf[p[1]] \in Boards
    BY <1>1 DEF Runs, Content
  <1>3. ASSUME NEW d \in Sweeps, BeginSweep(d) PROVE Inv'
    <2>1. PICK todo \in SUBSET Boards : Begin(d, todo, FALSE)
      BY <1>3 DEF BeginSweep, Inv, TypeInv, TypeOK
    <2>. QED  BY <1>1, <1>3, <2>1, BeginStep DEF BeginSweep
  <1>4. ASSUME NEW d \in Sweeps, Deadline(d) PROVE Inv'
    <2>. DEFINE r == [run[d] EXCEPT !.todo = {}]
    <2>1. run' = [run EXCEPT ![d] = r]
      BY <1>1, <1>4 DEF Deadline
    <2>2. /\ r \in Runs /\ r.todo = {} /\ r.batch = run[d].batch
          /\ r.under = run[d].under /\ r.shared = run[d].shared
      BY <1>1 DEF Runs
    <2>3. events' \in 0 .. MaxEvents
      BY <1>4, EventType DEF Deadline, Inv, TypeInv
    <2>. HIDE DEF r
    <2>. QED  BY <1>1, <1>4, <2>1, <2>2, <2>3, ShrinkStep DEF Deadline
  <1>5. ASSUME NEW d \in Sweeps, WriteBatch(d) PROVE Inv'
    <2>1. mishaps' \in SUBSET Boards
      BY <1>1, <1>2, <1>5 DEF WriteBatch, SetBack
    <2>. QED  BY <1>1, <1>5, <2>1, IdleType, StoreStep DEF WriteBatch
  <1>6. ASSUME NEW c \in Companies, NEW choosy \in BOOLEAN, BeginManual(c, choosy) PROVE Inv'
    <2>1. PICK todo \in SUBSET Boards : Begin("manual", todo, choosy)
      BY <1>6 DEF BeginManual, Inv, TypeInv, TypeOK
    <2>2. events' \in 0 .. MaxEvents
      BY <1>6, EventType DEF BeginManual, Inv, TypeInv
    <2>. QED  BY <1>6, <2>1, <2>2, BeginStep DEF BeginManual
  <1>7. ASSUME NEW p \in Content, StoreOne(p) PROVE Inv'
    <2>. DEFINE r == [run["manual"] EXCEPT !.batch = @ \ {p}]
    <2>1. run' = [run EXCEPT !["manual"] = r]
      BY <1>1, <1>7 DEF StoreOne
    <2>2. /\ r \in Runs /\ r.todo = run["manual"].todo /\ r.batch = run["manual"].batch \ {p}
          /\ r.under = run["manual"].under /\ r.shared = run["manual"].shared
      BY <1>1 DEF Runs
    <2>3. {p} \in SUBSET run["manual"].batch
      BY <1>7 DEF StoreOne
    <2>4. mishaps' \in SUBSET Boards
      BY <1>1, <1>2, <1>7 DEF StoreOne, SetBack
    <2>. HIDE DEF r
    <2>. QED  BY <1>1, <1>7, <2>1, <2>2, <2>3, <2>4, StoreStep DEF StoreOne
  <1>8. CASE EndManual
    BY <1>1, <1>8, IdleType, ShrinkStep DEF EndManual
  <1>9. ASSUME NEW d \in Drivers, Crash(d) PROVE Inv'
    <2>1. mishaps' \in SUBSET Boards
      BY <1>1, <1>2, <1>9 DEF Crash
    <2>2. events' \in 0 .. MaxEvents
      BY <1>9, EventType DEF Crash, Inv, TypeInv
    <2>. QED  BY <1>9, <2>1, <2>2, IdleType, ShrinkStep DEF Crash
  <1>. QED  BY <1>3, <1>4, <1>5, <1>6, <1>7, <1>8, <1>9

LEMMA NextInv == Inv /\ [Next]_vars => Inv'
  <1>. SUFFICES ASSUME Inv, [Next]_vars PROVE Inv'
    OBVIOUS
  <1>1. CASE UNCHANGED vars
    BY <1>1 DEF vars, Inv, TypeInv, TypeOK, Published, Tidy, SharedKnown, AloneIsFresh
  <1>2. CASE Next
    BY <1>2, BoardsStep, WatchlistStep, FetchStep, RunStep DEF Next, Ingestion
  <1>. QED  BY <1>1, <1>2

THEOREM InvHolds == SafetySpec => []Inv
  BY InitInv, NextInv, PTL DEF SafetySpec

\* The variables keep their types: a sweep holds boards and rows, a tag is
\* content, whatever overlaps or breaks off.
THEOREM TypeCorrect == SafetySpec => []TypeOK
  BY InvHolds, PTL DEF Inv, TypeInv

-----------------------------------------------------------------------------
(* What the jobs table goes through.                                        *)

\* A posting is published, or a run upserts rows that it holds, or neither the
\* table nor what was published changes.
LEMMA TableStep ==
    ASSUME Inv, [Next]_vars
    PROVE  \/ UNCHANGED <<site, jobs>>
           \/ \E k \in Keys : Publish(k)
           \/ /\ UNCHANGED site
              /\ \E d \in Drivers : \E rows \in SUBSET run[d].batch : jobs' = Upsert(rows)
  <1>. DEFINE Lone == UNCHANGED <<site, jobs>>
              Written == /\ UNCHANGED site
                         /\ \E d \in Drivers : \E rows \in SUBSET run[d].batch : jobs' = Upsert(rows)
  <1>1. CASE UNCHANGED vars
    BY <1>1 DEF vars
  <1>2. ASSUME NEW k \in Keys, Publish(k) \/ Close(k) PROVE Lone \/ Publish(k)
    BY <1>2 DEF Close
  <1>3. CASE Watchlist
    BY <1>3 DEF Watchlist, AddCompany, Onboard, RemoveCompany, SetActive
  <1>4. CASE Ingestion
    <2>1. ASSUME NEW d \in Sweeps, WriteBatch(d) PROVE Written
      BY <2>1 DEF WriteBatch, Drivers
    <2>2. ASSUME NEW r \in Content, StoreOne(r) PROVE Written
      <3>1. {r} \in SUBSET run["manual"].batch
        BY <2>2 DEF StoreOne
      <3>. QED  BY <2>2, <3>1 DEF StoreOne, Drivers
    <2>3. ASSUME NEW d \in Drivers, NEW b \in Boards,
                 Fetch(d, b) \/ FetchFails(d, b) \/ FetchEndsEarly(d, b)
          PROVE  Lone
      BY <2>3 DEF Fetch, FetchFails, FetchEndsEarly
    <2>4. ASSUME NEW d \in Drivers, BeginSweep(d) \/ Deadline(d) \/ Crash(d) PROVE Lone
      BY <2>4 DEF BeginSweep, Deadline, Crash
    <2>5. ASSUME NEW c \in Companies, NEW choosy \in BOOLEAN, BeginManual(c, choosy) PROVE Lone
      BY <2>5 DEF BeginManual
    <2>6. ASSUME EndManual \/ NewInstance PROVE Lone
      BY <2>6 DEF EndManual, NewInstance
    <2>. HIDE DEF Lone, Written
    <2>7. Lone \/ Written
      BY <1>4, <2>1, <2>2, <2>3, <2>4, <2>5, <2>6 DEF Ingestion, Drivers
    <2>. QED  BY <2>7 DEF Lone, Written
  <1>. QED  BY <1>1, <1>2, <1>3, <1>4 DEF Next

LEMMA NeverSetBackStep ==
    ASSUME Inv, [Next]_vars, NEW k \in Keys, jobs'[k] < jobs[k]
    PROVE  \E d \in Drivers : run[d].shared /\ \E v \in Versions : <<k, v>> \in run[d].batch
  <1>. USE IngestAssumption
  <1>1. jobs[k] \in Nat
    BY DEF Inv, TypeInv, TypeOK
  <1>2. PICK d \in Drivers : \E rows \in SUBSET run[d].batch : jobs' = Upsert(rows)
    BY <1>1, TableStep DEF Publish
  <1>3. PICK p \in run[d].batch : p[1] = k /\ jobs'[k] = p[2]
    BY <1>1, <1>2, UpsertStores
  <1>4. p = <<k, p[2]>> /\ p[2] \in Versions /\ p[2] \in Nat
    BY <1>3 DEF Inv, TypeInv, TypeOK, Runs, Content, Versions
  <1>5. run[d].shared
    BY <1>1, <1>3, <1>4 DEF Inv, AloneIsFresh
  <1>. QED  BY <1>3, <1>4, <1>5

\* Only a run that overlapped another one puts an older version of a posting
\* over a newer one: what a run alone holds was fetched after every store.
THEOREM NeverSetBack == SafetySpec => NeverSetBackAlone
  <1>. DEFINE Older == \A k \in Keys : jobs'[k] < jobs[k] =>
            \E d \in Drivers : run[d].shared /\ \E v \in Versions : <<k, v>> \in run[d].batch
  <1>1. Inv /\ [Next]_vars => [Older]_vars
    BY NeverSetBackStep
  <1>. QED  BY <1>1, InvHolds, PTL DEF SafetySpec, NeverSetBackAlone

\* The jobs table is a JobFeed: a posting once stored stays, and what is shown
\* of it was published, whatever the sweeps and the owner do at the same time.
THEOREM FeedIsKept == SafetySpec => FeedSpec
  <1>. USE IngestAssumption
  <1>1. Init => Feed!Init
    BY DEF Init, Feed!Init
  <1>2. ASSUME Inv, [Next]_vars PROVE [Feed!Next]_(Feed!vars)
    <2>1. /\ site \in [Keys -> 0 .. MaxVersion] /\ jobs \in [Keys -> 0 .. MaxVersion]
      BY <1>2 DEF Inv, TypeInv, TypeOK
    <2>2. CASE UNCHANGED <<site, jobs>>
      BY <2>2 DEF Feed!vars
    <2>3. CASE \E k \in Keys : Publish(k)
      <3>1. PICK k \in Keys : Publish(k)
        BY <2>3
      <3>2. Feed!Publish(k)
        BY <3>1 DEF Publish, Feed!Publish
      <3>. QED  BY <3>2 DEF Feed!Next
    <2>4. CASE UNCHANGED site /\ \E d \in Drivers : \E rows \in SUBSET run[d].batch : jobs' = Upsert(rows)
      <3>1. PICK d \in Drivers : \E rows \in SUBSET run[d].batch : jobs' = Upsert(rows)
        BY <2>4
      <3>2. /\ jobs' \in [Keys -> 0 .. MaxVersion]
            /\ \A k \in Keys : jobs'[k] # jobs[k] => \E p \in run[d].batch : p[1] = k /\ jobs'[k] = p[2]
        BY <1>2, <3>1, UpsertStores
      <3>3. \A p \in run[d].batch : p[2] \in Versions /\ p[2] <= site[p[1]]
        BY <1>2 DEF Inv, TypeInv, TypeOK, Published, Runs, Content
      <3>4. \A k \in Keys : jobs'[k] # jobs[k] => jobs'[k] \in 1 .. site[k]
        BY <2>1, <3>2, <3>3 DEF Versions
      <3>5. jobs' \in [Keys -> Nat]
        BY <3>2
      <3>6. Feed!Store
        BY <2>4, <3>4, <3>5 DEF Feed!Store
      <3>. QED  BY <3>6 DEF Feed!Next
    <2>. QED  BY <1>2, <2>2, <2>3, <2>4, TableStep
  <1>. QED  BY <1>1, <1>2, InvHolds, PTL DEF SafetySpec, FeedSpec, Feed!Spec

-----------------------------------------------------------------------------
(* What a cached tag covers.                                                *)

Accounted(p) == jobs[p[1]] = p[2] \/ \E d \in Drivers : p \in run[d].batch

\* Nothing is stored or on the way in a newer version than the tag has.
Newest(C) ==
    \A p \in C : /\ jobs[p[1]] <= p[2]
                 /\ \A d \in Drivers : \A q \in run[d].batch : q[1] = p[1] => q[2] <= p[2]

\* Without a mishap of the board, what its tag covers is stored or on the way,
\* or the tag comes from a probe and is not sent yet.
TagsCover ==
    \A b \in Boards :
        /\ b \notin Conditional => etag[b] = {}
        /\ \A C \in etag[b] :
              /\ \A p \in C : p[1] \in On(b)
              /\ Newest(C)
              /\ b \notin mishaps => ProbedFirst(b) \/ \A p \in C \cap Passing : Accounted(p)

\* A step that leaves the tags alone, adds no rows of a tagged board, and
\* accounts for what was accounted for.
LEMMA TagsKept ==
    ASSUME Inv, Inv', TagsCover, UNCHANGED etag, mishaps \subseteq mishaps',
           \A k \in Keys : jobs'[k] # jobs[k] =>
               \E d \in Drivers : \E p \in run[d].batch : p[1] = k /\ jobs'[k] = p[2],
           \A d \in Drivers : \A q \in run'[d].batch :
               (\E e \in Drivers : q \in run[e].batch) \/ etag[BoardOf[q[1]]] = {},
           \A b \in Boards : \A C \in etag[b] : \A p \in C :
               b \notin mishaps' /\ Accounted(p) => Accounted(p)'
    PROVE  TagsCover'
  <1>. USE IngestAssumption
  <1>. SUFFICES ASSUME NEW b \in Boards, NEW C \in etag[b]
                PROVE  /\ \A p \in C : p[1] \in On(b)
                       /\ Newest(C)'
                       /\ b \notin mishaps' => ProbedFirst(b)' \/ \A p \in C \cap Passing : Accounted(p)'
    BY DEF TagsCover, On
  <1>1. \A p \in C : p[1] \in On(b)
    BY DEF TagsCover
  <1>2. \A d \in Drivers : \A q \in run'[d].batch :
            BoardOf[q[1]] = b => \E e \in Drivers : q \in run[e].batch
    OBVIOUS
  <1>3. Newest(C)'
    <2>. SUFFICES ASSUME NEW p \in C
                  PROVE  /\ jobs'[p[1]] <= p[2]
                         /\ \A d \in Drivers : \A q \in run'[d].batch : q[1] = p[1] => q[2] <= p[2]
      BY DEF Newest
    <2>1. p[1] \in Keys /\ BoardOf[p[1]] = b
      BY <1>1 DEF On
    <2>2. /\ jobs[p[1]] <= p[2]
          /\ \A d \in Drivers : \A q \in run[d].batch : q[1] = p[1] => q[2] <= p[2]
      BY DEF TagsCover, Newest
    <2>. QED  BY <1>2, <2>1, <2>2
  <1>4. ASSUME ProbedFirst(b) PROVE ProbedFirst(b)'
    <2>1. ASSUME NEW k \in On(b)
          PROVE  jobs'[k] = 0 /\ \A d \in Drivers : \A p \in run'[d].batch : p[1] # k
      <3>1. k \in Keys /\ BoardOf[k] = b /\ jobs[k] = 0
        BY <1>4 DEF ProbedFirst, On
      <3>2. \A d \in Drivers : \A p \in run[d].batch : p[1] # k
        BY <1>4 DEF ProbedFirst
      <3>. QED  BY <1>2, <3>1, <3>2
    <2>. QED  BY <1>4, <2>1 DEF ProbedFirst, SameOwner, On
  <1>5. b \notin mishaps' => b \notin mishaps
    OBVIOUS
  <1>6. b \notin mishaps => ProbedFirst(b) \/ \A p \in C \cap Passing : Accounted(p)
    BY DEF TagsCover
  <1>7. b \notin mishaps' => ProbedFirst(b)' \/ \A p \in C \cap Passing : Accounted(p)'
    BY <1>4, <1>5, <1>6
  <1>. QED  BY <1>1, <1>3, <1>7

\* A step that changes neither the table, nor the tags, nor what is on the way.
LEMMA TagsQuiet ==
    ASSUME Inv, Inv', TagsCover, UNCHANGED <<etag, jobs>>, mishaps \subseteq mishaps',
           \A d \in Drivers : run'[d].batch = run[d].batch
    PROVE  TagsCover'
  <1>1. \A p : Accounted(p) => Accounted(p)'
    BY DEF Accounted
  <1>. QED  BY <1>1, TagsKept

\* A full answer of a conditional board replaces its tag.
LEMMA TagReplaced ==
    ASSUME Inv, Inv', TagsCover, NEW b \in Boards, ~NotModified(b), etag' = TagsAfter(b),
           UNCHANGED <<site, listed, jobs>>, mishaps \subseteq mishaps',
           \A d \in Drivers : \A q \in run'[d].batch : q \in run[d].batch \/ BoardOf[q[1]] = b,
           \A d \in Drivers : \A q \in run[d].batch : q \in run'[d].batch,
           b \notin mishaps' => ProbedFirst(b)' \/ \A p \in ContentOf(b) \cap Passing : Accounted(p)'
    PROVE  TagsCover'
  <1>. USE IngestAssumption
  <1>1. etag \in [Boards -> SUBSET SUBSET Content]
    BY DEF Inv, TypeInv, TypeOK
  <1>2. CASE b \notin Conditional
    <2>1. etag' = etag /\ etag[b] = {}
      BY <1>2 DEF TagsAfter, TagsCover
    <2>2. \A p : Accounted(p) => Accounted(p)'
      BY DEF Accounted
    <2>. QED  BY <2>1, <2>2, TagsKept
  <1>3. CASE b \in Conditional
    <2>1. etag' = [etag EXCEPT ![b] = {ContentOf(b)}]
      BY <1>3 DEF TagsAfter
    <2>2. etag'[b] = {ContentOf(b)} /\ \A x \in Boards : x # b => etag'[x] = etag[x]
      BY <1>1, <2>1
    <2>3. /\ \A p \in ContentOf(b) : p[1] \in On(b)
          /\ Newest(ContentOf(b))'
      <3>1. \A p \in ContentOf(b) : p[1] \in listed /\ p[1] \in Keys /\ BoardOf[p[1]] = b /\ p[2] = site[p[1]]
        BY ContentIsPublished DEF Inv, TypeInv, TypeOK
      <3>2. \A k \in Keys : jobs'[k] <= site'[k]
        BY DEF Inv, TypeInv, Published
      <3>3. \A d \in Drivers : \A q \in run'[d].batch : q[2] <= site'[q[1]]
        BY DEF Inv, TypeInv, Published
      <3>4. \A p \in ContentOf(b) :
               /\ jobs'[p[1]] <= p[2]
               /\ \A d \in Drivers : \A q \in run'[d].batch : q[1] = p[1] => q[2] <= p[2]
        BY <3>1, <3>2, <3>3
      <3>5. ContentOf(b)' = ContentOf(b)
        BY DEF ContentOf, On
      <3>. QED  BY <3>1, <3>4, <3>5 DEF Newest, On
    <2>4. ASSUME NEW x \in Boards, x # b, NEW C \in etag[x]
          PROVE  /\ \A p \in C : p[1] \in On(x)
                 /\ Newest(C)'
                 /\ x \notin mishaps' => ProbedFirst(x)' \/ \A p \in C \cap Passing : Accounted(p)'
      <3>1. /\ \A p \in C : p[1] \in On(x)
            /\ Newest(C)
            /\ x \notin mishaps => ProbedFirst(x) \/ \A p \in C \cap Passing : Accounted(p)
        BY DEF TagsCover
      <3>2. \A p \in C : p[1] \in Keys /\ BoardOf[p[1]] = x
        BY <3>1 DEF On
      <3>3. Newest(C)'
        BY <2>4, <3>1, <3>2 DEF Newest
      <3>4. ProbedFirst(x) => ProbedFirst(x)'
        BY <2>4 DEF ProbedFirst, SameOwner, On
      <3>5. \A p : Accounted(p) => Accounted(p)'
        BY DEF Accounted
      <3>. QED  BY <3>1, <3>3, <3>4, <3>5
    <2>5. \A x \in Boards : x \notin Conditional => etag'[x] = {}
      BY <1>3, <2>2 DEF TagsCover
    <2>6. ContentOf(b)' = ContentOf(b)
      BY DEF ContentOf, On
    <2>. SUFFICES ASSUME NEW x \in Boards, NEW C \in etag'[x]
                  PROVE  /\ \A p \in C : p[1] \in On(x)
                         /\ Newest(C)'
                         /\ x \notin mishaps' => ProbedFirst(x)' \/ \A p \in C \cap Passing : Accounted(p)'
      BY <2>5 DEF TagsCover, On
    <2>7. CASE x = b
      <3>1. C = ContentOf(b)
        BY <2>2, <2>7
      <3>. QED  BY <2>3, <2>6, <2>7, <3>1 DEF Newest
    <2>8. CASE x # b
      BY <2>2, <2>4, <2>8
    <2>. QED  BY <2>7, <2>8
  <1>. QED  BY <1>2, <1>3

LEMMA TagsWhenFetched ==
    ASSUME Inv, Inv', TagsCover, NEW d \in Drivers, NEW b \in Boards,
           Fetch(d, b) \/ FetchFails(d, b) \/ FetchEndsEarly(d, b)
    PROVE  TagsCover'
  <1>. USE IngestAssumption
  <1>1. ASSUME NEW rows \in SUBSET ContentOf(b), CanFetch(d, b), Take(d, b, rows)
        PROVE  /\ run'[d].batch = run[d].batch \cup Kept(d, rows)
               /\ \A e \in Drivers : e # d => run'[e] = run[e]
               /\ \A q \in rows : BoardOf[q[1]] = b
    BY <1>1, ContentIsPublished, TakeMoves DEF Inv, TypeInv
  <1>2. CASE Fetch(d, b)
    <2>1. Listing(b) \in SUBSET ContentOf(b)
      BY DEF Listing
    <2>2. /\ run'[d].batch = run[d].batch \cup Kept(d, Listing(b))
          /\ \A e \in Drivers : e # d => run'[e] = run[e]
          /\ \A q \in Listing(b) : BoardOf[q[1]] = b
      BY <1>1, <1>2, <2>1 DEF Fetch
    <2>3. mishaps \subseteq mishaps'
      BY <1>2 DEF Fetch
    <2>4. CASE NotModified(b)
      <3>1. etag' = etag /\ Listing(b) = {}
        BY <1>2, <2>4 DEF Fetch, TagsAfter, Listing
      <3>2. \A e \in Drivers : run'[e].batch = run[e].batch
        BY <2>2, <3>1 DEF Kept
      <3>. QED  BY <1>2, <2>3, <3>1, <3>2, TagsQuiet DEF Fetch
    <2>5. CASE ~NotModified(b)
      <3>1. Listing(b) = ContentOf(b)
        BY <2>5 DEF Listing
      <3>2. ASSUME b \notin mishaps', NEW p \in ContentOf(b) \cap Passing PROVE Accounted(p)'
        <4>1. ~LeavesOut(d, Listing(b))
          BY <1>2, <3>2 DEF Fetch
        <4>2. p \in run'[d].batch
          BY <2>2, <3>1, <3>2, <4>1 DEF LeavesOut
        <4>. QED  BY <4>2 DEF Accounted
      <3>3. \A e \in Drivers : \A q \in run'[e].batch : q \in run[e].batch \/ BoardOf[q[1]] = b
        BY <2>2 DEF Kept
      <3>4. \A e \in Drivers : \A q \in run[e].batch : q \in run'[e].batch
        BY <2>2
      <3>5. etag' = TagsAfter(b) /\ UNCHANGED <<site, listed, jobs>>
        BY <1>2 DEF Fetch
      <3>. QED  BY <2>3, <2>5, <3>2, <3>3, <3>4, <3>5, TagReplaced
    <2>. QED  BY <2>4, <2>5
  <1>3. CASE FetchFails(d, b)
    <2>1. {} \in SUBSET ContentOf(b)
      OBVIOUS
    <2>2. \A e \in Drivers : run'[e].batch = run[e].batch
      BY <1>1, <1>3, <2>1 DEF FetchFails, Kept
    <2>. QED  BY <1>3, <2>2, TagsQuiet DEF FetchFails
  <1>4. CASE FetchEndsEarly(d, b)
    <2>1. PICK rows \in SUBSET ContentOf(b) : Take(d, b, rows)
      BY <1>4 DEF FetchEndsEarly
    <2>2. /\ run'[d].batch = run[d].batch \cup Kept(d, rows)
          /\ \A e \in Drivers : e # d => run'[e] = run[e]
          /\ \A q \in rows : BoardOf[q[1]] = b
      BY <1>1, <1>4, <2>1 DEF FetchEndsEarly
    <2>3. etag[b] = {}
      BY <1>4 DEF FetchEndsEarly, TagsCover
    <2>4. \A e \in Drivers : \A q \in run'[e].batch :
              (\E x \in Drivers : q \in run[x].batch) \/ etag[BoardOf[q[1]]] = {}
      BY <2>2, <2>3 DEF Kept
    <2>5. UNCHANGED <<jobs, etag, mishaps>>
      BY <1>4 DEF FetchEndsEarly
    <2>6. \A p : Accounted(p) => Accounted(p)'
      BY <2>2, <2>5 DEF Accounted
    <2>. QED  BY <2>4, <2>5, <2>6, TagsKept
  <1>. QED  BY <1>2, <1>3, <1>4

\* A run that writes a part of its rows notes which boards it sets back.
LEMMA TagsWhenStored ==
    ASSUME Inv, Inv', TagsCover, NEW d \in Drivers, NEW rows \in SUBSET run[d].batch,
           NEW r \in Runs, run' = [run EXCEPT ![d] = r],
           run[d].batch \ rows \subseteq r.batch, r.batch \subseteq run[d].batch,
           jobs' = Upsert(rows), mishaps' = mishaps \cup SetBack(rows), UNCHANGED etag
    PROVE  TagsCover'
  <1>. USE IngestAssumption
  <1>1. /\ run'[d] = r /\ \A e \in Drivers : e # d => run'[e] = run[e]
    BY RunMoves DEF Inv, TypeInv
  <1>2. /\ \A p \in rows : jobs'[p[1]] = p[2]
        /\ \A k \in Keys : (\A p \in rows : p[1] # k) => jobs'[k] = jobs[k]
        /\ \A k \in Keys : jobs'[k] # jobs[k] => \E p \in rows : p[1] = k /\ jobs'[k] = p[2]
    BY UpsertStores
  <1>3. ASSUME NEW b \in Boards, NEW C \in etag[b], NEW p \in C, b \notin mishaps', Accounted(p)
        PROVE  Accounted(p)'
    <2>1. p[1] \in Keys /\ BoardOf[p[1]] = b /\ Newest(C)
      BY <1>3 DEF TagsCover, On
    <2>2. CASE \E e \in Drivers : p \in run[e].batch
      <3>1. PICK e \in Drivers : p \in run[e].batch
        BY <2>2
      <3>2. CASE p \in run'[e].batch
        BY <3>2 DEF Accounted
      <3>3. CASE p \notin run'[e].batch
        BY <1>1, <1>2, <3>1, <3>3 DEF Accounted
      <3>. QED  BY <3>2, <3>3
    <2>3. CASE jobs[p[1]] = p[2]
      <3>1. CASE \E q \in rows : q[1] = p[1]
        <4>1. PICK q \in rows : q[1] = p[1]
          BY <3>1
        <4>2. q[2] <= p[2] /\ jobs'[p[1]] = q[2]
          BY <1>2, <2>1, <4>1 DEF Newest
        <4>3. ~(q[2] < jobs[q[1]])
          BY <1>3, <2>1, <4>1 DEF SetBack
        <4>4. q[2] \in Nat /\ jobs[p[1]] \in Nat
          BY <2>1, <4>1 DEF Inv, TypeInv, TypeOK, Runs, Content, Versions
        <4>5. q[2] = p[2]
          BY <2>3, <4>1, <4>2, <4>3, <4>4
        <4>. QED  BY <4>2, <4>5 DEF Accounted
      <3>2. CASE \A q \in rows : q[1] # p[1]
        BY <1>2, <2>1, <2>3, <3>2 DEF Accounted
      <3>. QED  BY <3>1, <3>2
    <2>. QED  BY <1>3, <2>2, <2>3 DEF Accounted
  <1>4. \A e \in Drivers : \A q \in run'[e].batch : q \in run[e].batch
    BY <1>1
  <1>5. \A k \in Keys : jobs'[k] # jobs[k] =>
            \E e \in Drivers : \E p \in run[e].batch : p[1] = k /\ jobs'[k] = p[2]
    BY <1>2
  <1>. QED  BY <1>3, <1>4, <1>5, TagsKept

LEMMA TagsWhenOnboarded ==
    ASSUME Inv, Inv', TagsCover, NEW b \in Boards, Onboard(b)
    PROVE  TagsCover'
  <1>1. /\ UNCHANGED <<site, listed, jobs, run>> /\ etag' = TagsAfter(b)
        /\ mishaps' = mishaps \cup (IF ProbedFirst(b) THEN {} ELSE {b})
    BY DEF Onboard
  <1>2. CASE NotModified(b)
    <2>1. etag' = etag
      BY <1>1, <1>2 DEF TagsAfter
    <2>. QED  BY <1>1, <2>1, TagsQuiet
  <1>3. CASE ~NotModified(b)
    <2>1. ProbedFirst(b) => ProbedFirst(b)'
      BY <1>1 DEF ProbedFirst, SameOwner, On
    <2>2. b \notin mishaps' => ProbedFirst(b)'
      BY <1>1, <2>1
    <2>. QED  BY <1>1, <1>3, <2>2, TagReplaced
  <1>. QED  BY <1>2, <1>3

\* A run that breaks off notes the boards whose rows are lost with it.
LEMMA TagsWhenCrashed ==
    ASSUME Inv, Inv', TagsCover, NEW d \in Drivers, Crash(d)
    PROVE  TagsCover'
  <1>1. /\ run'[d] = IdleRun /\ \A e \in Drivers : e # d => run'[e] = run[e]
        /\ mishaps' = mishaps \cup {BoardOf[p[1]] : p \in run[d].batch}
        /\ UNCHANGED <<jobs, etag>>
    BY RunMoves, IdleType DEF Crash, Inv, TypeInv
  <1>2. \A e \in Drivers : \A q \in run'[e].batch : q \in run[e].batch
    BY <1>1, IdleType
  <1>3. ASSUME NEW b \in Boards, NEW C \in etag[b], NEW p \in C, b \notin mishaps', Accounted(p)
        PROVE  Accounted(p)'
    <2>1. BoardOf[p[1]] = b
      BY <1>3 DEF TagsCover, On
    <2>2. p \notin run[d].batch
      BY <1>1, <1>3, <2>1
    <2>. QED  BY <1>1, <1>3, <2>2 DEF Accounted
  <1>. QED  BY <1>1, <1>2, <1>3, TagsKept

LEMMA TagsNext == Inv /\ Inv' /\ TagsCover /\ [Next]_vars => TagsCover'
  <1>. SUFFICES ASSUME Inv, Inv', TagsCover, [Next]_vars PROVE TagsCover'
    OBVIOUS
  <1>. USE DEF Drivers
  <1>1. run \in [Drivers -> Runs]
    BY DEF Inv, TypeInv, TypeOK
  <1>2. CASE UNCHANGED vars
    BY <1>2, TagsQuiet DEF vars
  <1>3. ASSUME NEW k \in Keys, Publish(k) \/ Close(k) PROVE TagsCover'
    BY <1>3, TagsQuiet DEF Publish, Close
  <1>4. CASE Watchlist
    <2>1. ASSUME NEW b \in Boards, AddCompany(b) PROVE TagsCover'
      BY <2>1, TagsQuiet DEF AddCompany
    <2>2. ASSUME NEW c \in Companies, RemoveCompany(c) PROVE TagsCover'
      BY <2>2, TagsQuiet DEF RemoveCompany
    <2>3. ASSUME NEW c \in Companies, NEW on \in BOOLEAN, SetActive(c, on) PROVE TagsCover'
      BY <2>3, TagsQuiet DEF SetActive
    <2>. QED  BY <1>4, <2>1, <2>2, <2>3, TagsWhenOnboarded DEF Watchlist
  <1>5. ASSUME NEW d \in Sweeps, BeginSweep(d) PROVE TagsCover'
    <2>1. PICK todo \in SUBSET Boards : Begin(d, todo, FALSE)
      BY <1>5 DEF BeginSweep, Inv, TypeInv, TypeOK
    <2>2. \A e \in Drivers : run'[e].batch = run[e].batch
      BY <1>5, <2>1, BeginMoves DEF BeginSweep, Inv, Tidy
    <2>. QED  BY <1>5, <2>2, TagsQuiet DEF BeginSweep
  <1>6. ASSUME NEW c \in Companies, NEW choosy \in BOOLEAN, BeginManual(c, choosy) PROVE TagsCover'
    <2>1. PICK todo \in SUBSET Boards : Begin("manual", todo, choosy)
      BY <1>6 DEF BeginManual, Inv, TypeInv, TypeOK
    <2>2. ~run["manual"].under /\ run["manual"].batch = {}
      BY <1>6 DEF BeginManual, Inv, Tidy
    <2>3. /\ run'["manual"].batch = {}
          /\ \A e \in Drivers : e # "manual" => run'[e].batch = run[e].batch
      BY <2>1, <2>2, BeginMoves
    <2>4. \A e \in Drivers : run'[e].batch = run[e].batch
      BY <2>2, <2>3
    <2>. QED  BY <1>6, <2>4, TagsQuiet DEF BeginManual
  <1>7. ASSUME NEW d \in Sweeps, Deadline(d) PROVE TagsCover'
    <2>1. \A e \in Drivers : run'[e].batch = run[e].batch
      BY <1>1, <1>7 DEF Deadline, Runs
    <2>. QED  BY <1>7, <2>1, TagsQuiet DEF Deadline
  <1>8. ASSUME NEW d \in Sweeps, WriteBatch(d) PROVE TagsCover'
    BY <1>8, IdleType, TagsWhenStored DEF WriteBatch
  <1>9. ASSUME NEW p \in Content, StoreOne(p) PROVE TagsCover'
    <2>. DEFINE r == [run["manual"] EXCEPT !.batch = @ \ {p}]
    <2>1. run' = [run EXCEPT !["manual"] = r]
      BY <1>1, <1>9 DEF StoreOne
    <2>2. r \in Runs /\ r.batch = run["manual"].batch \ {p}
      BY <1>1 DEF Runs
    <2>3. {p} \in SUBSET run["manual"].batch
      BY <1>9 DEF StoreOne
    <2>. HIDE DEF r
    <2>. QED  BY <1>9, <2>1, <2>2, <2>3, TagsWhenStored DEF StoreOne
  <1>10. CASE EndManual
    <2>1. \A e \in Drivers : run'[e].batch = run[e].batch
      BY <1>1, <1>10, IdleType DEF EndManual
    <2>. QED  BY <1>10, <2>1, TagsQuiet DEF EndManual
  <1>11. CASE NewInstance
    BY <1>11 DEF NewInstance, TagsCover
  <1>. QED  BY <1>2, <1>3, <1>4, <1>5, <1>6, <1>7, <1>8, <1>9, <1>10, <1>11,
               TagsWhenFetched, TagsWhenCrashed DEF Next, Ingestion

LEMMA TagsHold == SafetySpec => []TagsCover
  <1>1. Init => TagsCover
    BY DEF Init, TagsCover
  <1>. QED  BY <1>1, InvHolds, TagsNext, PTL DEF SafetySpec

\* Without a mishap, a board that answers `not modified' lists nothing that
\* passes the filters and is not stored.
THEOREM SkippedBoardsAreStored == SafetySpec => []SkippedIsStored
  <1>1. Inv /\ TagsCover => SkippedIsStored
    <2>. SUFFICES ASSUME Inv, TagsCover, NEW b \in Boards,
                         NotModified(b), ~InFlight(b), b \notin mishaps,
                         NEW p \in ContentOf(b) \cap Passing
                  PROVE  jobs[p[1]] = p[2]
      BY DEF SkippedIsStored, Missing
    <2>1. p \in Content /\ BoardOf[p[1]] = b
      BY ContentIsPublished DEF Inv
    <2>2. ~ProbedFirst(b)
      <3>1. PICK k \in Keys : BoardOf[k] \in Conditional \cap SameOwner(b) /\ jobs[k] > 0
        BY DEF NotModified, SendsTag, PersistedJobs
      <3>. QED  BY <3>1 DEF ProbedFirst, On
    <2>3. ContentOf(b) \in etag[b]
      BY DEF NotModified
    <2>4. Accounted(p)
      BY <2>2, <2>3 DEF TagsCover
    <2>. QED  BY <2>1, <2>4 DEF Accounted, InFlight
  <1>. QED  BY <1>1, InvHolds, TagsHold, PTL
=============================================================================
