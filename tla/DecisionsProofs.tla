--------------------------- MODULE DecisionsProofs ---------------------------
(* The decisions' properties, proved for every case that meets the named    *)
(* assumptions of Decisions.  The one inductive invariant is that an answer *)
(* is what its decision makes of the question (Asked); what is left of each *)
(* property is a fact about the operators, and is proved by the lemmas of   *)
(* its section.                                                             *)
EXTENDS Decisions, SequenceFacts

-----------------------------------------------------------------------------
(* The questions and their answers.                                         *)

Cases(k) ==
    CASE k = "list" -> ListCases
      [] k = "board" -> BoardCases
      [] k = "feed" -> FeedCases
      [] k = "sponsor" -> SponsorCases
      [] k = "assess" -> AssessCases
      [] k = "location" -> LocationCases
      [] k = "resume" -> ResumeCases
      [] k = "fit" -> FitCases
      [] k = "skills" -> SkillCases
      [] k = "scrape" -> ScrapeCases

SkillsResult(c) ==
    LET ks == extract_keywords(c.passes, c.final)
        keywords == ToSet(ks.keywords)
        kept == rank_skills(c.skills, keywords, c.ai_role, c.max_items, c.per_category_cap)
        Scored(terms) == score_ats(keywords, c.text \cup terms, c.numbered, 4, c.parts)
    IN  IF ks.error THEN [error |-> TRUE]
        ELSE [error |-> FALSE, kept |-> kept, without |-> Scored({}),
              ats |-> Scored({kept[i].term : i \in DOMAIN kept})]

Result(k, c) ==
    CASE k = "list" -> List(c.source, c.visit)
      [] k = "board" -> [found |-> resolve(c.hosted, c.name, c.careers),
                         report |-> [i \in DOMAIN c.careers |-> fingerprint(c.careers[i])]]
      [] k = "feed" -> discover({j \in c.jobs : passes(j, c.avoid, TRUE, FALSE, TRUE)}, c.filters, c.avoid, 50, 0)
      [] k = "sponsor" -> score_company(c.company, build_index(c.rows, c.answered), c.alike)
      [] k = "assess" -> assess(c)
      [] k = "location" -> resolve_location(c.job, c.candidate, c.prefs)
      [] k = "resume" -> [resume |-> generate_resume(c.profile, c.said),
                          letter |-> write_cover_letter(c.profile, c.letter)]
      [] k = "fit" -> fit_pages(c.content, c.target, c.per_page, 20)
      [] k = "skills" -> SkillsResult(c)
      [] k = "scrape" -> scrape(c.host, c.address, c.page)

Asked ==
    /\ kind \in {"list", "board", "feed", "sponsor", "assess", "location", "resume", "fit", "skills", "scrape"}
    /\ asked \in Cases(kind)
    /\ answer \in {<<>>, <<Result(kind, asked)>>}

\* Every action answers its own question, and leaves the question alone.
LEMMA NextAnswers == Next => answer' = <<Result(kind, asked)>> /\ UNCHANGED <<kind, asked>>
  <1>. SUFFICES ASSUME Next PROVE answer' = <<Result(kind, asked)>> /\ UNCHANGED <<kind, asked>>
    OBVIOUS
  <1>1. CASE ListPostings
    BY <1>1 DEF ListPostings, Decide, Result
  <1>2. CASE ResolveCompany
    BY <1>2 DEF ResolveCompany, Decide, Result
  <1>3. CASE Discover
    BY <1>3 DEF Discover, Decide, Result
  <1>4. CASE RateSponsor
    BY <1>4 DEF RateSponsor, Decide, Result
  <1>5. CASE AssessPosting
    BY <1>5 DEF AssessPosting, Decide, Result
  <1>6. CASE PlaceCandidate
    BY <1>6 DEF PlaceCandidate, Decide, Result
  <1>7. CASE MakeDocuments
    BY <1>7 DEF MakeDocuments, Decide, Result
  <1>8. CASE FitPages
    BY <1>8 DEF FitPages, Decide, Result
  <1>9. CASE RankSkills
    BY <1>9 DEF RankSkills, Decide, Result, SkillsResult
  <1>10. CASE ScrapePosting
    BY <1>10 DEF ScrapePosting, Decide, Result
  <1>. QED
    BY <1>1, <1>2, <1>3, <1>4, <1>5, <1>6, <1>7, <1>8, <1>9, <1>10 DEF Next

\* Asked always holds: the question stays a case of its kind, and the answer,
\* once it is given, is what the decision makes of it.
LEMMA AskedAlways == Spec => []Asked
  <1>1. Init => Asked
    BY DEF Init, Asked, Cases
  <1>2. Asked /\ [Next]_vars => Asked'
    BY NextAnswers DEF Asked, vars
  <1>. QED BY <1>1, <1>2, PTL DEF Spec

\* An answer that is given is the decision's, of a case of its kind.
LEMMA AnswerIs ==
    ASSUME Asked, NEW k, Decided(k)
    PROVE  asked \in Cases(k) /\ answer[1] = Result(k, asked)
  BY DEF Asked, Decided

-----------------------------------------------------------------------------
(* The place on the resume.                                                 *)

\* The four kinds of plan.
PlanShape(job, prefs, own, metro, line, strategy, fits) ==
    \/ /\ job.work_model = "remote"
       /\ line.metro = own
       /\ fits => strategy \in {"local", "open_to_remote"}
    \/ /\ job.work_model # "remote" /\ metro \in {Nowhere, own}
       /\ line.metro = own
    \/ /\ job.work_model # "remote" /\ Moves(prefs, metro)
       /\ line.metro \in {own, metro}
       /\ strategy = "relocating"
    \/ /\ job.work_model # "remote" /\ line.metro = own
       /\ ~fits

\* Every plan is of one of the four kinds.
LEMMA PlanOf ==
    ASSUME NEW job, NEW candidate, NEW prefs
    PROVE  LET own == MetroShown(candidate)
               metro == to_metro(parse_city_state(job.location))
           IN  \E line, strategy : \E fits \in BOOLEAN :
                  /\ PlanShape(job, prefs, own, metro, line, strategy, fits)
                  /\ resolve_location(job, candidate, prefs) =
                       [display |-> line, strategy |-> strategy, passes |-> fits]
  <1>. SUFFICES ASSUME NEW own, own = MetroShown(candidate),
                       NEW metro, metro = to_metro(parse_city_state(job.location))
                PROVE  \E line, strategy : \E fits \in BOOLEAN :
                         /\ PlanShape(job, prefs, own, metro, line, strategy, fits)
                         /\ resolve_location(job, candidate, prefs) =
                              [display |-> line, strategy |-> strategy, passes |-> fits]
    OBVIOUS
  <1>0. \A note : Line(own, note).metro = own
    BY DEF Line
  <1>. DEFINE Plan(line, strategy, fits) ==
                [display |-> line, strategy |-> strategy, passes |-> fits]
              plan == resolve_location(job, candidate, prefs)
  <1>. SUFFICES \E line, strategy : \E fits \in BOOLEAN :
                   /\ PlanShape(job, prefs, own, metro, line, strategy, fits)
                   /\ plan = Plan(line, strategy, fits)
    OBVIOUS
  <1>1. CASE job.work_model = "remote"
    <2>1. \/ plan = Plan(Line(own, ""), "remote_ineligible", FALSE)
          \/ plan = Plan(Line(own, "open to remote"), "open_to_remote", TRUE)
          \/ plan = Plan(Line(own, ""), "local", TRUE)
      BY <1>1 DEF resolve_location
    <2>. HIDE DEF Plan, plan
    <2>. QED  BY <1>0, <1>1, <2>1 DEF PlanShape
  <1>2. CASE job.work_model # "remote" /\ metro \in {Nowhere, own}
    <2>1. plan = Plan(Line(own, ""), "unknown_jd", TRUE) \/ plan = Plan(Line(own, ""), "local", TRUE)
      BY <1>2 DEF resolve_location
    <2>. HIDE DEF Plan, plan
    <2>. QED  BY <1>0, <1>2, <2>1 DEF PlanShape
  <1>3. CASE job.work_model # "remote" /\ metro \notin {Nowhere, own}
    <2>1. IF Moves(prefs, metro)
          THEN plan = Plan(reloc_display(own, metro, prefs.style), "relocating", TRUE)
          ELSE plan = Plan(Line(own, ""), "non_local", FALSE)
      BY <1>3 DEF resolve_location
    <2>2. reloc_display(own, metro, prefs.style).metro \in {own, metro}
      BY DEF reloc_display, Line
    <2>. HIDE DEF Plan, plan
    <2>. QED  BY <1>0, <1>3, <2>1, <2>2 DEF PlanShape
  <1>. QED  BY <1>1, <1>2, <1>3

\* Of each kind of plan NeverSpoofed holds.
LEMMA LocTrue == Asked => NeverSpoofed
  <1>. SUFFICES ASSUME Asked, Decided("location") PROVE NeverSpoofed
    BY DEF NeverSpoofed
  <1>. DEFINE own == MetroShown(asked.candidate)
             job == to_metro(parse_city_state(asked.job.location))
             moves == asked.prefs.anywhere \/ (asked.prefs.willing /\ job \in asked.prefs.metros)
  <1>1. answer[1] = resolve_location(asked.job, asked.candidate, asked.prefs)
    BY AnswerIs DEF Result
  <1>. PICK line, strategy : \E fits \in BOOLEAN :
            /\ PlanShape(asked.job, asked.prefs, own, job, line, strategy, fits)
            /\ resolve_location(asked.job, asked.candidate, asked.prefs) =
                 [display |-> line, strategy |-> strategy, passes |-> fits]
    BY PlanOf
  <1>2. PICK fits \in BOOLEAN :
            /\ PlanShape(asked.job, asked.prefs, own, job, line, strategy, fits)
            /\ resolve_location(asked.job, asked.candidate, asked.prefs) =
                 [display |-> line, strategy |-> strategy, passes |-> fits]
    OBVIOUS
  <1>3. answer[1].display = line /\ answer[1].strategy = strategy /\ answer[1].passes = fits
    BY <1>1, <1>2
  <1>4. Moves(asked.prefs, job) => moves
    BY DEF Moves
  <1>. SUFFICES /\ line.metro # own => moves /\ asked.job.work_model # "remote" /\ line.metro = job
                /\ fits /\ job \notin {Nowhere, own} =>
                     IF asked.job.work_model = "remote"
                     THEN line.metro = own /\ strategy \in {"local", "open_to_remote"}
                     ELSE moves /\ strategy = "relocating"
    BY <1>3 DEF NeverSpoofed
  <1>. HIDE DEF own, job, moves
  <1>. QED BY <1>2, <1>4 DEF PlanShape

\* NeverSpoofed (resolve_location): a resume shows a place that is not the
\* candidate's own only for a role there that is not remote and a candidate who
\* would move, whatever the two places, the restriction and the preferences.
THEOREM PlaceNeverSpoofed == Spec => []NeverSpoofed
  BY AskedAlways, LocTrue, PTL

-----------------------------------------------------------------------------
(* The feed.                                                                *)

\* The states that two sites name.
LEMMA NamedSites ==
    ASSUME NEW a, NEW b
    PROVE  Named(Sites(a, b)) = Named(a) \cup Named(b)
  BY DEF Named, Sites

\* The codes of two sites: those of the first come first.
LEMMA AbbrsSites ==
    ASSUME NEW a, NEW b, a.abbrs \in Seq(STRING), b.abbrs \in Seq(STRING)
    PROVE  LET c == Sites(a, b) IN
           /\ a.abbrs # <<>> => c.abbrs # <<>> /\ Head(c.abbrs) = Head(a.abbrs)
           /\ a.abbrs = <<>> => c.abbrs = b.abbrs
           /\ CodesOf(a) \cup CodesOf(b) \subseteq CodesOf(c)
  <1>. DEFINE s == a.abbrs
              t == b.abbrs
  <1>1. Sites(a, b).abbrs = s \o t
    BY DEF Sites
  <1>2. s \in Seq(STRING) /\ t \in Seq(STRING)
    OBVIOUS
  <1>. HIDE DEF s, t
  <1>3. /\ s # <<>> => s \o t # <<>> /\ Head(s \o t) = Head(s)
        /\ s = <<>> => s \o t = t
    BY <1>2
  <1>4. {s[i] : i \in DOMAIN s} \cup {t[i] : i \in DOMAIN t} \subseteq {(s \o t)[i] : i \in DOMAIN (s \o t)}
    <2>1. ASSUME NEW i \in DOMAIN s PROVE i \in DOMAIN (s \o t) /\ (s \o t)[i] = s[i]
      BY <1>2, <2>1
    <2>2. ASSUME NEW i \in DOMAIN t PROVE Len(s) + i \in DOMAIN (s \o t) /\ (s \o t)[Len(s) + i] = t[i]
      BY <1>2, <2>2
    <2>. QED BY <2>1, <2>2
  <1>. QED  BY <1>1, <1>3, <1>4 DEF CodesOf, s, t

\* What the end of the first text says alone.
Ended(loc) == [loc EXCEPT !.us_last = FALSE]

\* A second site does not take a location out of the US.
LEMMA SitesUs ==
    ASSUME NEW a, NEW b, LocationShape(a), LocationShape(b),
           \/ SaysUs(Ended(a))
           \/ is_us_location(Ended(a)) /\ ~Ended(a).foreign /\ SaysUs(b) /\ (Ended(a).abbrs = <<>> \/ ~b.foreign)
    PROVE  is_us_location(Sites(a, b))
  <1>. DEFINE c == Sites(a, b)
              e == Ended(a)
  <1>1. /\ c.us = (a.us \/ b.us) /\ c.us_last = b.us_last /\ c.foreign = (a.foreign \/ b.foreign)
        /\ c.cities = a.cities \cup b.cities /\ c.comma = (a.comma \/ b.comma)
        /\ Named(c) = Named(a) \cup Named(b)
    BY NamedSites DEF Sites
  <1>2. /\ a.abbrs # <<>> => c.abbrs # <<>> /\ Head(c.abbrs) = Head(a.abbrs)
        /\ a.abbrs = <<>> => c.abbrs = b.abbrs
    BY AbbrsSites DEF LocationShape
  <1>3. a.abbrs # <<>> => a.comma /\ ~a.blank
    BY DEF LocationShape
  <1>4. /\ e.us = a.us /\ e.foreign = a.foreign /\ e.cities = a.cities /\ e.comma = a.comma
        /\ e.abbrs = a.abbrs /\ e.blank = a.blank /\ e.names = a.names /\ ~e.us_last
    BY DEF Ended, LocationShape
  <1>5. Named(e) = Named(a)
    BY <1>4 DEF Named
  <1>. HIDE DEF c, e
  <1>6. CASE SaysUs(e)
    BY <1>1, <1>2, <1>4, <1>5, <1>6 DEF SaysUs, is_us_location, c
  <1>7. CASE is_us_location(e) /\ ~e.foreign /\ SaysUs(b) /\ a.abbrs = <<>>
    BY <1>1, <1>2, <1>4, <1>5, <1>7 DEF SaysUs, is_us_location, c
  <1>8. CASE is_us_location(e) /\ ~e.foreign /\ SaysUs(b) /\ a.abbrs # <<>> /\ ~b.foreign
    BY <1>1, <1>2, <1>3, <1>4, <1>5, <1>8 DEF SaysUs, is_us_location, c
  <1>. QED  BY <1>4, <1>6, <1>7, <1>8 DEF e

\* A second site takes no state away.
LEMMA SitesStates ==
    ASSUME NEW a, NEW b, LocationShape(a), LocationShape(b)
    PROVE  us_states_of(a) \cup us_states_of(b) \subseteq us_states_of(Sites(a, b))
  <1>1. CodesOf(a) \cup CodesOf(b) \subseteq CodesOf(Sites(a, b))
    BY AbbrsSites DEF LocationShape
  <1>2. Sites(a, b).prefix = a.prefix \cup b.prefix /\ Sites(a, b).cities = a.cities \cup b.cities
    BY DEF Sites
  <1>. HIDE DEF Sites
  <1>. QED  BY <1>1, <1>2, NamedSites DEF us_states_of

\* The two, of the locations of any two postings.
LEMMA SitesTrue == Asked => AnotherSiteKeepsIt
  <1>1. Asked /\ Decided("feed") => asked \in FeedCases
    BY AnswerIs DEF Cases
  <1>. QED BY <1>1, FeedAssumption, SitesUs, SitesStates DEF AnotherSiteKeepsIt, Ended

\* No location is in a state called OTHER: the value means no state at all.
LEMMA NoOther ==
    ASSUME NEW loc, LocationShape(loc)
    PROVE  "OTHER" \notin us_states_of(loc)
  <1>1. \A n \in DOMAIN NamesIn : NamesIn[n] \subseteq DOMAIN NamesIn
    BY DEF NamesIn
  <1>2. \A n \in DOMAIN NamesIn : CodeOf[n] # "OTHER"
    BY DEF NamesIn, CodeOf
  <1>3. \A c \in DOMAIN CityCode : CityCode[c] # "OTHER"
    BY DEF CityCode
  <1>4. Named(loc) \subseteq DOMAIN NamesIn
    BY <1>1 DEF Named, LocationShape
  <1>. QED  BY <1>2, <1>3, <1>4 DEF us_states_of, CodesOf, StateCodes, LocationShape

\* AnotherSiteKeepsIt (is_us_location, us_states_of): a location that says it is
\* in the US, other than by its last two letters alone, is still taken for one
\* with a second site after it, and is found under the states of both.
THEOREM SitesKept == Spec => []AnotherSiteKeepsIt
  BY AskedAlways, SitesTrue, PTL

With(f, dim, v) == [f EXCEPT ![dim] = v]

\* Selecting in one dropdown leaves the other filters alone.
LEMMA OnlyFacet ==
    ASSUME NEW f, DOMAIN f = DOMAIN Unconstrained, NEW dim \in Facets, NEW v
    PROVE  LET g == With(f, dim, v) IN
           /\ g.company = IF dim = "company" THEN v ELSE f.company
           /\ g.source = IF dim = "source" THEN v ELSE f.source
           /\ g.state = IF dim = "state" THEN v ELSE f.state
           /\ g.level = IF dim = "level" THEN v ELSE f.level
           /\ g.place = f.place /\ g.since = f.since /\ g.keyword = f.keyword /\ g.include = f.include
           /\ g.exclude = f.exclude /\ g.on_target = f.on_target
  BY DEF Unconstrained, Facets, With

\* A row's state of a selection.
Selects(dim, sel, r) ==
    CASE dim = "company" -> (sel # {} => r.company \in csv(sel))
      [] dim = "source" -> (sel # {} => r.source \in sel)
      [] dim = "level" -> (sel # {} => title_level(r.title) \in sel)
      [] dim = "state" -> (sel # {} => match_state(r, sel))

\* What the filters other than a dropdown's let through.
Others(dim, f, avoid, r) ==
    /\ f.keyword \subseteq r.title.words \cup r.company.words
    /\ title_matches(r.title, f.include, f.exclude)
    /\ f.on_target => matches_preferences(r.title, avoid)
    /\ \A d \in Facets \ {dim} : Selects(d, f[d], r)

Chosen(rows, f, dim, v, avoid) == {r \in rows : Others(dim, f, avoid, r) /\ Selects(dim, v, r)}

\* A selection shows what the other filters let through and it selects.
LEMMA ApplySplits ==
    ASSUME NEW f, DOMAIN f = DOMAIN Unconstrained, NEW dim \in Facets, NEW v, NEW rows, NEW avoid
    PROVE  apply(rows, With(f, dim, v), avoid) = Chosen(rows, f, dim, v, avoid)
  <1>. DEFINE g == With(f, dim, v)
  <1>1. /\ g.company = IF dim = "company" THEN v ELSE f.company
        /\ g.source = IF dim = "source" THEN v ELSE f.source
        /\ g.state = IF dim = "state" THEN v ELSE f.state
        /\ g.level = IF dim = "level" THEN v ELSE f.level
        /\ g.place = f.place /\ g.since = f.since /\ g.keyword = f.keyword /\ g.include = f.include
        /\ g.exclude = f.exclude /\ g.on_target = f.on_target
    BY OnlyFacet
  <1>. HIDE DEF g
  <1>2. ASSUME NEW r
        PROVE  /\ Selects("company", g.company, r) <=> (g.company # {} => r.company \in csv(g.company))
               /\ Selects("source", g.source, r) <=> (g.source # {} => r.source \in g.source)
               /\ Selects("level", g.level, r) <=> (g.level # {} => title_level(r.title) \in g.level)
               /\ Selects("state", g.state, r) <=> (g.state # {} => match_state(r, g.state))
    BY DEF Selects
  <1>3. ASSUME NEW r
        PROVE  (\A d \in Facets \ {dim} : Selects(d, f[d], r)) /\ Selects(dim, v, r)
               <=> /\ Selects("company", g.company, r) /\ Selects("source", g.source, r)
                   /\ Selects("level", g.level, r) /\ Selects("state", g.state, r)
    <2>. HIDE DEF Selects
    <2>1. CASE dim = "company"  BY <1>1, <2>1 DEF Facets
    <2>2. CASE dim = "source"   BY <1>1, <2>2 DEF Facets
    <2>3. CASE dim = "state"    BY <1>1, <2>3 DEF Facets
    <2>4. CASE dim = "level"    BY <1>1, <2>4 DEF Facets
    <2>. QED BY <2>1, <2>2, <2>3, <2>4 DEF Facets
  <1>4. ASSUME NEW r \in rows
        PROVE  r \in apply(rows, g, avoid) <=> Others(dim, f, avoid, r) /\ Selects(dim, v, r)
    BY <1>1, <1>2, <1>3 DEF apply, Others
  <1>5. apply(rows, g, avoid) \subseteq rows
    BY DEF apply
  <1>. QED  BY <1>4, <1>5 DEF g, Chosen

\* An empty selection shows everything, and a value selected alone the rows it is offered for.
LEMMA SelectAlone ==
    ASSUME NEW dim \in Facets, NEW v, NEW r, LocationShape(r.location), dim = "company" => ~v.comma
    PROVE  /\ Selects(dim, {}, r)
           /\ Selects(dim, {v}, r) <=> v \in FacetOf(dim, r)
  <1>1. CASE dim = "company"  BY <1>1 DEF Selects, FacetOf, csv
  <1>2. CASE dim = "source"   BY <1>2 DEF Selects, FacetOf
  <1>3. CASE dim = "level"    BY <1>3 DEF Selects, FacetOf
  <1>4. CASE dim = "state"
    <2>1. "OTHER" \notin us_states_of(r.location)
      BY NoOther
    <2>. QED BY <1>4, <2>1 DEF Selects, FacetOf, match_state
  <1>. QED BY <1>1, <1>2, <1>3, <1>4 DEF Facets

\* The count of a value is what selecting it alone shows.
LEMMA SelectedCount ==
    ASSUME NEW f, DOMAIN f = DOMAIN Unconstrained, NEW dim \in Facets, NEW v, NEW avoid,
           NEW jobs, \A j \in jobs : LocationShape(j.location), dim = "company" => ~v.comma
    PROVE  LET facet == Facet(dim, query_jobs(jobs, f), f, avoid)
           IN  discover(jobs, With(f, dim, {v}), avoid, 50, 0).total =
                 IF v \in DOMAIN facet THEN facet[v] ELSE 0
  <1>. DEFINE base == query_jobs(jobs, f)
              rows == apply(base, With(f, dim, {}), avoid)
  <1>1. query_jobs(jobs, With(f, dim, {v})) = base
    BY OnlyFacet DEF query_jobs
  <1>2. apply(base, With(f, dim, {v}), avoid) = {r \in rows : v \in FacetOf(dim, r)}
    <2>1. \A r \in base : Selects(dim, {}, r) /\ (Selects(dim, {v}, r) <=> v \in FacetOf(dim, r))
      BY SelectAlone DEF query_jobs
    <2>2. \A w : apply(base, With(f, dim, w), avoid) = Chosen(base, f, dim, w, avoid)
      BY ApplySplits
    <2>. HIDE DEF base
    <2>. QED BY <2>1, <2>2 DEF Chosen
  <1>3. discover(jobs, With(f, dim, {v}), avoid, 50, 0).total
          = Cardinality({r \in rows : v \in FacetOf(dim, r)})
    BY <1>1, <1>2 DEF discover
  <1>. HIDE DEF rows
  <1>4. v \notin UNION {FacetOf(dim, r) : r \in rows} => {r \in rows : v \in FacetOf(dim, r)} = {}
    OBVIOUS
  <1>. QED  BY <1>3, <1>4, FS_EmptySet DEF Facet, Tally, With, rows

Kept(c) == {j \in c.jobs : passes(j, c.avoid, TRUE, FALSE, TRUE)}

\* The same of the answer's dropdowns.
LEMMA FacetsTrue == Asked => FacetsReachable
  <1>. SUFFICES ASSUME Asked, Decided("feed") PROVE FacetsReachable
    BY DEF FacetsReachable
  <1>. DEFINE kept == Kept(asked)
              f == asked.filters
  <1>0. asked \in FeedCases /\ answer[1] = Result("feed", asked)
    BY AnswerIs DEF Cases
  <1>1. answer[1].facets = [dim \in Facets |-> Facet(dim, query_jobs(kept, f), f, asked.avoid)]
    <2>1. answer[1] = discover(kept, f, asked.avoid, 50, 0)
      BY <1>0 DEF Result, Kept
    <2>. HIDE DEF kept, f
    <2>. QED BY <2>1 DEF discover
  <1>2. DOMAIN f = DOMAIN Unconstrained /\ \A j \in kept : LocationShape(j.location)
    BY <1>0, FeedAssumption DEF Kept
  <1>3. ASSUME NEW dim \in Facets, NEW v, ~(dim = "company" /\ v.comma)
        PROVE  LET facet == answer[1].facets[dim]
               IN  discover(kept, With(f, dim, {v}), asked.avoid, 50, 0).total =
                     IF v \in DOMAIN facet THEN facet[v] ELSE 0
    BY <1>1, <1>2, <1>3, SelectedCount
  <1>. QED BY <1>3 DEF FacetsReachable, Kept, With

\* FacetsReachable (discover): for every set of postings, every selection and
\* every list of terms to avoid, a dropdown's count of a value is what selecting
\* the value alone in that dropdown shows.
THEOREM FacetsTrueToFeed == Spec => []FacetsReachable
  BY AskedAlways, FacetsTrue, PTL

-----------------------------------------------------------------------------
(* The recommendation.                                                      *)

\* Three sets that are disjoint are no more than a set that holds them.
LEMMA Counted ==
    ASSUME NEW I, IsFiniteSet(I), NEW A \in SUBSET I, NEW B \in SUBSET I, NEW C \in SUBSET I, NEW S \in SUBSET I,
           A \cap B = {}, A \cap C = {}, B \cap C = {}, A \subseteq S, B \subseteq S, C \subseteq S
    PROVE  /\ Cardinality(A) \in Nat /\ Cardinality(B) \in Nat /\ Cardinality(C) \in Nat /\ Cardinality(S) \in Nat
           /\ Cardinality(A) + Cardinality(B) + Cardinality(C) <= Cardinality(S)
  <1>1. IsFiniteSet(A) /\ IsFiniteSet(B) /\ IsFiniteSet(C) /\ IsFiniteSet(S) /\ IsFiniteSet(A \cup B)
    BY FS_Subset, A \cup B \in SUBSET I
  <1>2. /\ Cardinality(A) \in Nat /\ Cardinality(B) \in Nat /\ Cardinality(C) \in Nat /\ Cardinality(S) \in Nat
        /\ Cardinality(A \cup B) \in Nat
    BY <1>1, FS_CardinalityType
  <1>3. Cardinality(A \cup B) = Cardinality(A) + Cardinality(B)
    <2>1. Cardinality(A \cup B) = Cardinality(A) + Cardinality(B) - Cardinality({})
      BY <1>1, FS_Union
    <2>. QED BY <2>1, <1>2, FS_EmptySet
  <1>4. Cardinality((A \cup B) \cup C) = Cardinality(A \cup B) + Cardinality(C)
    <2>1. (A \cup B) \cap C = {}
      OBVIOUS
    <2>2. Cardinality((A \cup B) \cup C) = Cardinality(A \cup B) + Cardinality(C) - Cardinality({})
      BY <1>1, <2>1, FS_Union
    <2>. QED BY <2>2, <1>2, FS_EmptySet
  <1>5. Cardinality((A \cup B) \cup C) <= Cardinality(S)
    BY <1>1, FS_Subset, (A \cup B) \cup C \in SUBSET S
  <1>. QED BY <1>2, <1>3, <1>4, <1>5

\* An object that has something of the profile to show for it.
Backed(profile, o) ==
    \/ o.evidence.touches \cap profile.skills # {}
    \/ o.evidence.quotes \cap profile.bullets # {}
    \/ o.substitution \cap Owned(profile) # {}

NumBacked(profile, gaps) == Cardinality({i \in DOMAIN gaps : Backed(profile, gaps[i])})

\* An item is kept as a match, or as bridged, only when the profile backs it.
LEMMA ItemBacked ==
    ASSUME NEW profile, NEW o,
           gap_item(profile, o).status = "gap" => gap_item(profile, o).substitution # {}
    PROVE  Backed(profile, o)
  BY DEF gap_item, verify_evidence, Backed

\* An analysis counts at most one whole requirement for each that is backed.
LEMMA TenthsBacked ==
    ASSUME NEW profile, NEW S, NEW gaps \in Seq(S)
    PROVE  /\ Len(analyze_gaps(profile, gaps)) = Len(gaps)
           /\ analyze_gaps(profile, gaps) = <<>> <=> gaps = <<>>
           /\ Tenths(analyze_gaps(profile, gaps)) \in Nat /\ NumBacked(profile, gaps) \in Nat
           /\ Tenths(analyze_gaps(profile, gaps)) <= 10 * NumBacked(profile, gaps)
  <1>. DEFINE items == analyze_gaps(profile, gaps)
              I == DOMAIN gaps
              A == {i \in I : items[i].status = "existing"}
              B == {i \in I : items[i].status = "supportedByResume"}
              C == {i \in I : items[i].status = "gap" /\ items[i].substitution # {}}
              T == {i \in I : Backed(profile, gaps[i])}
  <1>1. DOMAIN items = I /\ \A i \in I : items[i] = gap_item(profile, gaps[i])
    BY DEF analyze_gaps
  <1>2. Len(items) = Len(gaps) /\ (items = <<>> <=> gaps = <<>>)
    <2>1. items \in [1 .. Len(gaps) -> {items[i] : i \in I}]
      BY DEF analyze_gaps
    <2>2. items \in Seq({items[i] : i \in I})
      BY <2>1
    <2>. HIDE DEF items
    <2>. QED BY <1>1, <2>2
  <1>3. IsFiniteSet(I)
    <2>1. I = 1 .. Len(gaps) /\ Len(gaps) \in Nat
      OBVIOUS
    <2>. QED BY <2>1, FS_Interval
  <1>4. A \subseteq T /\ B \subseteq T /\ C \subseteq T
    BY <1>1, ItemBacked
  <1>5. /\ Cardinality(A) \in Nat /\ Cardinality(B) \in Nat /\ Cardinality(C) \in Nat /\ Cardinality(T) \in Nat
        /\ Cardinality(A) + Cardinality(B) + Cardinality(C) <= Cardinality(T)
    <2>1. A \cap B = {} /\ A \cap C = {} /\ B \cap C = {}
      OBVIOUS
    <2>2. A \in SUBSET I /\ B \in SUBSET I /\ C \in SUBSET I /\ T \in SUBSET I
      OBVIOUS
    <2>. HIDE DEF A, B, C, T, I
    <2>. QED BY <1>3, <1>4, <2>1, <2>2, Counted
  <1>6. Tenths(items) = 10 * Cardinality(A) + 7 * Cardinality(B) + 5 * Cardinality(C)
    BY <1>1 DEF Tenths, Having, Bridged
  <1>. HIDE DEF A, B, C, items
  <1>7. Tenths(items) \in Nat /\ Tenths(items) <= 10 * Cardinality(T)
    <2>. HIDE DEF T
    <2>. QED BY <1>5, <1>6
  <1>. QED BY <1>2, <1>5, <1>7 DEF items, NumBacked

\* A rounded fraction is within a half of it.
LEMMA RoundedNear ==
    ASSUME NEW a \in Int, NEW b \in Nat \ {0}, NEW up
    PROVE  LET r == Rounded(a, b, up)
           IN  r \in Int /\ 2 * b * r <= 2 * a + b /\ 2 * b * r >= 2 * a - b
  <1>. DEFINE n == 2 * b
              x == 2 * a + b
              y == b - 2 * a
  <1>1. n \in Nat /\ n > 0 /\ x \in Int /\ y \in Int /\ n = 2 * b
    OBVIOUS
  <1>2. \A k \in Int : k \div n \in Int /\ n * (k \div n) <= k /\ k < n * (k \div n) + n
    <2>. HIDE DEF n
    <2>. QED BY <1>1
  <1>3. CASE up
    <2>. DEFINE q == x \div n
    <2>1. Rounded(a, b, up) = q
      BY <1>3 DEF Rounded
    <2>2. q \in Int /\ n * q <= x /\ x < n * q + n
      BY <1>1, <1>2
    <2>3. n * q = 2 * b * q
      BY <2>2
    <2>. HIDE DEF q, n
    <2>. QED BY <1>1, <2>1, <2>2, <2>3
  <1>4. CASE ~up
    <2>. DEFINE q == y \div n
    <2>1. Rounded(a, b, up) = -q
      BY <1>4 DEF Rounded
    <2>2. q \in Int /\ n * q <= y /\ y < n * q + n
      BY <1>1, <1>2
    <2>3. 2 * b * (-q) = -(n * q)
      BY <2>2
    <2>. HIDE DEF q, n
    <2>. QED BY <1>1, <2>1, <2>2, <2>3
  <1>. QED BY <1>3, <1>4

\* The overall score moves the fit by no more than an eighth, and rounding by half
\* a tenth of a percent.
LEMMA FitNearCoverage ==
    ASSUME NEW cov, cov.tenths \in Nat, cov.of \in Nat \ {0}, NEW overall \in Seq(Int), NEW up
    PROVE  LET r == score_fit(cov, overall, up)
           IN  /\ r \in Int
               /\ 2 * cov.of * r <= 200 * cov.tenths + 251 * cov.of
               /\ 2 * cov.of * r >= 200 * cov.tenths - 251 * cov.of
  <1>. DEFINE x == Told(cov, overall)
              t == cov.tenths
              n == cov.of
              held == Between(10 * t - 25 * n, x, 10 * t + 25 * n)
              r == score_fit(cov, overall, up)
  <1>1. x \in Int /\ t \in Nat /\ n \in Nat \ {0}
    BY DEF Told, Share
  <1>2. r = Rounded(5 * (10 * t + held), n, up)
    BY DEF score_fit, Mean, Share
  <1>. HIDE DEF x, t, n, r
  <1>3. held \in Int /\ held >= 10 * t - 25 * n /\ held <= 10 * t + 25 * n
    BY <1>1 DEF Between
  <1>. HIDE DEF held
  <1>. DEFINE a == 5 * (10 * t + held)
  <1>4. a \in Int /\ a <= 100 * t + 125 * n /\ a >= 100 * t - 125 * n
    BY <1>1, <1>3
  <1>5. r = Rounded(a, n, up)
    BY <1>2
  <1>. HIDE DEF a
  <1>6. r \in Int /\ 2 * n * r <= 2 * a + n /\ 2 * n * r >= 2 * a - n
    BY <1>1, <1>4, <1>5, RoundedNear
  <1>7. r \in Int /\ 2 * n * r <= 200 * t + 251 * n /\ 2 * n * r >= 200 * t - 251 * n
    <2>. DEFINE w == 2 * n * r
    <2>1. w \in Int /\ w <= 2 * a + n /\ w >= 2 * a - n
      BY <1>1, <1>6
    <2>. HIDE DEF w
    <2>2. w <= 200 * t + 251 * n /\ w >= 200 * t - 251 * n
      BY <1>1, <1>4, <2>1
    <2>. QED BY <1>6, <2>2 DEF w
  <1>. QED BY <1>7 DEF r, t, n

\* What a recommendation needs, what is enough for one, and what stops it.
LEMMA DecideShape ==
    ASSUME NEW final, NEW verdict, NEW years, NEW had, NEW needs
    PROVE  LET d == decide_apply(final, verdict, years, had, needs)
           IN  /\ d.recommend => Reaches(final, 45)
               /\ Reaches(final, 45) /\ ~d.blocked => d.recommend
               /\ verdict.hard_blocker /\ needs => ~d.recommend
  BY DEF decide_apply

\* The coverage is out of the requirements, or else out of the required skills.
LEMMA CoverageShape ==
    ASSUME NEW c \in AssessCases, NEW required, IsFiniteSet(required)
    PROVE  LET cov == coverage(analyze_gaps(c.profile, c.gaps), required, c.overlap)
               shown == NumBacked(c.profile, c.gaps)
           IN  /\ cov.tenths \in Nat /\ cov.of \in Nat \ {0} /\ shown \in Nat
               /\ c.gaps # <<>> => cov.of = Len(c.gaps) /\ cov.tenths <= 10 * shown
  <1>. DEFINE items == analyze_gaps(c.profile, c.gaps)
              shown == NumBacked(c.profile, c.gaps)
              cov == coverage(items, required, c.overlap)
  <1>1. c.gaps \in Seq(ToSet(c.gaps))
    BY AssessAssumption
  <1>2. /\ Len(items) = Len(c.gaps) /\ (items = <<>> <=> c.gaps = <<>>)
        /\ Tenths(items) \in Nat /\ shown \in Nat /\ Tenths(items) <= 10 * shown
    BY <1>1, TenthsBacked
  <1>3. CASE c.gaps # <<>>
    <2>1. cov = [tenths |-> Tenths(items), of |-> Len(items)]
      <3>1. items # <<>>
        BY <1>2, <1>3
      <3>. HIDE DEF items
      <3>. QED BY <3>1 DEF coverage
    <2>2. Len(c.gaps) \in Nat \ {0}
      BY <1>1, <1>3
    <2>. HIDE DEF items, shown, cov
    <2>3. /\ cov.tenths \in Nat /\ cov.of \in Nat \ {0} /\ shown \in Nat
          /\ cov.of = Len(c.gaps) /\ cov.tenths <= 10 * shown
      BY <1>2, <2>1, <2>2
    <2>. QED BY <2>3 DEF items, shown, cov
  <1>4. CASE c.gaps = <<>>
    <2>1. /\ Cardinality(required \cap c.overlap) \in Nat
          /\ required # {} => Cardinality(required) \in Nat \ {0}
      <3>1. IsFiniteSet(required \cap c.overlap)
        BY FS_Subset, required \cap c.overlap \in SUBSET required
      <3>. QED BY <3>1, FS_CardinalityType, FS_EmptySet
    <2>2. \/ cov = [tenths |-> 0, of |-> 1]
          \/ required # {} /\ cov = [tenths |-> 10 * Cardinality(required \cap c.overlap), of |-> Cardinality(required)]
      <3>1. items = <<>>
        BY <1>2, <1>4
      <3>. HIDE DEF items
      <3>. QED BY <3>1 DEF coverage
    <2>. HIDE DEF items, shown, cov
    <2>3. cov.tenths \in Nat /\ cov.of \in Nat \ {0}
      BY <2>1, <2>2
    <2>. QED BY <1>2, <1>4, <2>3 DEF items, shown, cov
  <1>. QED BY <1>3, <1>4

\* The bounds of the coverage and of the fit, put together.
LEMMA AssessTrue == Asked => RecommendationIsEarned
  <1>. SUFFICES ASSUME Asked, Decided("assess"), ~answer[1].error PROVE RecommendationIsEarned
    BY DEF RecommendationIsEarned
  <1>. DEFINE c == asked
              job == structure_jd(c.raw, c.said)
              cov == coverage(analyze_gaps(c.profile, c.gaps), job.required, c.overlap)
              final == score_fit(cov, c.overall, c.tie_up)
              verdict == resolve_sponsorship(job.stance, c.signal)
              d == decide_apply(final, verdict, job.years, c.years, c.needs_sponsorship)
              shown == NumBacked(c.profile, c.gaps)
  <1>0. c \in AssessCases /\ answer[1] = assess(c)
    BY AnswerIs DEF Cases, Result
  <1>1. ~job.error /\ answer[1].coverage = cov /\ answer[1].decision = d
    BY <1>0 DEF assess
  <1>2. job.required = c.said.required /\ (c.said.stance = "no_sponsorship" => job.stance = "no_sponsorship")
    BY <1>1 DEF structure_jd, Stances
  <1>3. /\ cov.tenths \in Nat /\ cov.of \in Nat \ {0} /\ shown \in Nat
        /\ c.gaps # <<>> => cov.of = Len(c.gaps) /\ cov.tenths <= 10 * shown
    BY <1>0, <1>2, CoverageShape, AssessAssumption
  <1>4. /\ final \in Int
        /\ 2 * cov.of * final <= 200 * cov.tenths + 251 * cov.of
        /\ 2 * cov.of * final >= 200 * cov.tenths - 251 * cov.of
    BY <1>0, <1>3, FitNearCoverage, AssessAssumption
  <1>5. /\ d.recommend => Reaches(final, 45)
        /\ Reaches(final, 45) /\ ~d.blocked => d.recommend
        /\ verdict.hard_blocker /\ c.needs_sponsorship => ~d.recommend
    BY DecideShape
  <1>6. c.said.stance = "no_sponsorship" => verdict.hard_blocker
    BY <1>2 DEF resolve_sponsorship
  <1>. HIDE DEF job, cov, final, verdict, d
  <1>7. RecommendationIsEarned <=>
            /\ (d.recommend /\ c.gaps # <<>>) => 2000 * shown >= 649 * Len(c.gaps)
            /\ (200 * cov.tenths > 1149 * cov.of /\ ~d.blocked) => d.recommend
            /\ (c.said.stance = "no_sponsorship" /\ c.needs_sponsorship) => ~d.recommend
    BY <1>1 DEF RecommendationIsEarned, Backed, NumBacked, Decided
  <1>. HIDE DEF shown
  <1>. DEFINE n == cov.of
              t == cov.tenths
              w == 2 * n * final
  <1>8. /\ final >= 450 => w >= 900 * n
        /\ final < 450 => w <= 898 * n
    <2>1. n \in Nat /\ final \in Int
      BY <1>3, <1>4
    <2>. HIDE DEF n
    <2>2. final >= 450 => n * (final - 450) >= 0
      BY <2>1
    <2>3. final < 450 => n * (449 - final) >= 0
      BY <2>1
    <2>4. w = 2 * (n * (final - 450)) + 900 * n /\ w = 898 * n - 2 * (n * (449 - final))
      BY <2>1
    <2>. HIDE DEF w
    <2>. QED BY <2>1, <2>2, <2>3, <2>4
  <1>9. w \in Int /\ t \in Nat /\ n \in Nat /\ w <= 200 * t + 251 * n /\ w >= 200 * t - 251 * n
    BY <1>3, <1>4
  <1>10. Reaches(final, 45) <=> final >= 450
    BY DEF Reaches
  <1>. HIDE DEF w
  <1>11. ASSUME Reaches(final, 45), c.gaps # <<>> PROVE 2000 * shown >= 649 * Len(c.gaps)
    <2>1. w >= 900 * n
      BY <1>8, <1>10, <1>11
    <2>2. t <= 10 * shown /\ n = Len(c.gaps)
      BY <1>3, <1>11
    <2>. HIDE DEF n, t
    <2>3. 200 * t >= 649 * n
      BY <1>9, <2>1
    <2>. QED BY <1>3, <1>9, <2>2, <2>3
  <1>12. ASSUME 200 * cov.tenths > 1149 * cov.of PROVE Reaches(final, 45)
    BY <1>4, <1>8, <1>9, <1>10, <1>12
  <1>. QED BY <1>5, <1>6, <1>7, <1>11, <1>12

\* RecommendationIsEarned (assess): whatever the language model answers, for any
\* number of requirements, a recommendation has a profile behind it.
THEOREM RecommendationEarned == Spec => []RecommendationIsEarned
  BY AskedAlways, AssessTrue, PTL

-----------------------------------------------------------------------------
(* The description.                                                         *)

\* The first text of a selection is the text of one of its items.
LEMMA FirstTextIs ==
    ASSUME NEW S, NEW items \in Seq(S), NEW I \in SUBSET (DOMAIN items)
    PROVE  IF I = {} THEN FirstText(items, I) = "" ELSE \E i \in I : FirstText(items, I) = items[i].text
  BY LeastIndex DEF FirstText

Listed(c) == {p \in ToSet(c.host.listed) : p.id = c.address.id /\ p.text # ""}
Asks(c) == c.address.board \in Handlers /\ (c.address.custom => c.address.guessed)
Has(c) ==
    \/ c.address.board \in ById /\ c.host.answer = "ok" /\ c.host.text # ""
    \/ c.address.board \in InList /\ c.host.answer = "ok" /\ Listed(c) # {}
    \/ c.address.board \in ByDomain /\ \E d \in ToSet(c.host.domains) : d.answer = "ok" /\ d.text # ""
Marked(c) == c.page.answer = "ok" /\ \E b \in ToSet(c.page.blocks) : b.posting /\ b.text # ""

\* A listing gives the text of the posting that is asked for, when it has one.
LEMMA InListingIs ==
    ASSUME NEW c \in ScrapeCases
    PROVE  /\ InListing(c.host, c.address) # "" => \E p \in Listed(c) : InListing(c.host, c.address) = p.text
           /\ Listed(c) # {} => InListing(c.host, c.address) # ""
  <1>. DEFINE listed == c.host.listed
              I == {i \in DOMAIN listed : listed[i].id = c.address.id}
  <1>1. /\ listed \in Seq(ToSet(listed))
        /\ \A i, j \in DOMAIN listed : listed[i].id = listed[j].id => i = j
    BY ScrapeAssumption
  <1>2. InListing(c.host, c.address) = FirstText(listed, I)
    BY DEF InListing
  <1>3. IF I = {} THEN FirstText(listed, I) = "" ELSE \E i \in I : FirstText(listed, I) = listed[i].text
    <2>1. I \in SUBSET (DOMAIN listed)
      OBVIOUS
    <2>. HIDE DEF I, listed
    <2>. QED BY <1>1, <2>1, FirstTextIs
  <1>4. \A i \in I : listed[i].text # "" => listed[i] \in Listed(c)
    BY DEF Listed, ToSet
  <1>5. \A p \in Listed(c) : \E i \in I : listed[i] = p /\ p.text # ""
    BY DEF Listed, ToSet
  <1>6. \A i, j \in I : i = j
    BY <1>1
  <1>. HIDE DEF I, listed
  <1>. QED  BY <1>2, <1>3, <1>4, <1>5, <1>6

\* The domains give a text when one of them has one.
LEMMA FromDomainsIs ==
    ASSUME NEW c \in ScrapeCases
    PROVE  FromDomains(c.host) # "" <=> \E d \in ToSet(c.host.domains) : d.answer = "ok" /\ d.text # ""
  <1>. DEFINE items == c.host.domains
              I == {i \in DOMAIN items : items[i].answer = "ok" /\ items[i].text # ""}
  <1>1. FromDomains(c.host) = FirstText(items, I)
    BY DEF FromDomains
  <1>2. IF I = {} THEN FirstText(items, I) = "" ELSE \E i \in I : FirstText(items, I) = items[i].text
    <2>1. I \in SUBSET (DOMAIN items) /\ items \in Seq(ToSet(items))
      BY ScrapeAssumption
    <2>. HIDE DEF I, items
    <2>. QED BY <2>1, FirstTextIs
  <1>. QED  BY <1>1, <1>2 DEF ToSet

Mine(c, text) == [source |-> c.address.board, text |-> text]

\* A board that is asked and has the description gives it.
LEMMA BoardIs ==
    ASSUME NEW c \in ScrapeCases
    PROVE  IF Asks(c) /\ Has(c)
           THEN \E text : /\ text # "" /\ FromBoard(c.host, c.address) = Mine(c, text)
                          /\ c.address.board \in InList => \E p \in Listed(c) : text = p.text
           ELSE FromBoard(c.host, c.address) = Nothing
  <1>. DEFINE text ==
                 CASE c.address.board \in ById -> IF c.host.answer = "ok" THEN c.host.text ELSE ""
                   [] c.address.board \in InList ->
                        IF c.host.answer = "ok" THEN InListing(c.host, c.address) ELSE ""
                   [] c.address.board \in ByDomain -> FromDomains(c.host)
  <1>1. FromBoard(c.host, c.address) =
          IF ~Asks(c) \/ text = "" THEN Nothing ELSE Mine(c, text)
    BY DEF FromBoard, Asks, Mine
  <1>2. c.address.board \in Handlers => (text # "" <=> Has(c))
    <2>1. CASE c.address.board \in ById
      BY <2>1 DEF Has, ById, InList, ByDomain
    <2>2. CASE c.address.board \in InList
      BY <2>2, InListingIs DEF Has, ById, InList, ByDomain
    <2>3. CASE c.address.board \in ByDomain
      BY <2>3, FromDomainsIs DEF Has, ById, InList, ByDomain
    <2>. QED BY <2>1, <2>2, <2>3 DEF Handlers
  <1>3. c.address.board \in InList /\ text # "" => \E p \in Listed(c) : text = p.text
    BY InListingIs DEF ById, InList, ByDomain
  <1>. HIDE DEF text
  <1>. QED  BY <1>1, <1>2, <1>3 DEF Asks

\* A marked page gives its description.
LEMMA DataIs ==
    ASSUME NEW c
    PROVE  IF Marked(c) THEN \E text : FromStructuredData(c.page) = [source |-> "jsonld", text |-> text]
           ELSE FromStructuredData(c.page) = Nothing
  BY DEF Marked, FromStructuredData, ToSet

\* The three tiers, one after the other.
LEMMA ScrapeTrue == Asked => TheNamedPosting
  <1>. SUFFICES ASSUME Asked, Decided("scrape") PROVE TheNamedPosting
    BY DEF TheNamedPosting
  <1>. DEFINE c == asked
              found == scrape(c.host, c.address, c.page)
              board == FromBoard(c.host, c.address)
              data == FromStructuredData(c.page)
  <1>1. c \in ScrapeCases /\ answer[1] = found
    BY AnswerIs DEF Cases, Result
  <1>. SUFFICES /\ found.jd.source \in InList => \E p \in Listed(c) : found.jd.text = p.text
                /\ found.ok <=> (Asks(c) /\ Has(c)) \/ Marked(c) \/ c.page.browser
                /\ Asks(c) /\ Has(c) <=> found.jd.source = c.address.board
                /\ ~(Asks(c) /\ Has(c)) /\ Marked(c) => found.jd.source = "jsonld"
    BY <1>1 DEF TheNamedPosting, Asks, Has, Marked, Listed
  <1>2. c.address.board \notin {"none", "jsonld", "playwright"}
    BY <1>1, ScrapeAssumption
  <1>3. CASE Asks(c) /\ Has(c)
    <2>1. PICK text : /\ text # "" /\ board = Mine(c, text)
                      /\ c.address.board \in InList => \E p \in Listed(c) : text = p.text
      BY <1>1, <1>3, BoardIs
    <2>2. Mine(c, text).text = text /\ Mine(c, text).source = c.address.board /\ Nothing.text = ""
      BY DEF Mine, Nothing
    <2>3. found = [ok |-> TRUE, jd |-> Mine(c, text)]
      BY <2>1, <2>2 DEF scrape
    <2>. HIDE DEF found, board, data
    <2>. QED BY <1>3, <2>1, <2>2, <2>3
  <1>4. CASE ~(Asks(c) /\ Has(c)) /\ Marked(c)
    <2>1. board = Nothing
      BY <1>1, <1>4, BoardIs
    <2>2. PICK text : data = [source |-> "jsonld", text |-> text]
      BY <1>4, DataIs
    <2>3. found = [ok |-> TRUE, jd |-> [source |-> "jsonld", text |-> text]]
      <3>1. [source |-> "jsonld", text |-> text] # Nothing
        BY DEF Nothing
      <3>. QED BY <2>1, <2>2, <3>1 DEF scrape
    <2>. HIDE DEF found, board, data
    <2>. QED BY <1>2, <1>4, <2>3 DEF InList
  <1>5. CASE ~(Asks(c) /\ Has(c)) /\ ~Marked(c)
    <2>1. board = Nothing /\ data = Nothing
      BY <1>1, <1>5, BoardIs, DataIs
    <2>2. found = IF c.page.browser
                  THEN [ok |-> TRUE, jd |-> [source |-> "playwright", text |-> c.page.rendered]]
                  ELSE [ok |-> FALSE, jd |-> Nothing]
      BY <2>1 DEF scrape
    <2>. HIDE DEF found, board, data
    <2>3. /\ found.jd.source \in {"playwright", "none"}
          /\ found.ok <=> c.page.browser
      <3>1. CASE c.page.browser   BY <2>2, <3>1
      <3>2. CASE ~c.page.browser  BY <2>2, <3>2 DEF Nothing
      <3>. QED BY <3>1, <3>2
    <2>. QED BY <1>2, <1>5, <2>3 DEF InList
  <1>. QED  BY <1>3, <1>4, <1>5

\* TheNamedPosting (scrape): the description is the named posting's, and every
\* tier is a fallback of those before it, for lists and domains of any length.
THEOREM ScrapeIsNamed == Spec => []TheNamedPosting
  BY AskedAlways, ScrapeTrue, PTL

-----------------------------------------------------------------------------
(* The company's board.                                                     *)

\* The guesses at a slug are in a list.
LEMMA SlugsSeq ==
    ASSUME NEW S, NEW name \in Seq(S)
    PROVE  DOMAIN slug_candidates(name) \in SUBSET Nat
  <1>. DEFINE Words(part) == SelectSeq(part, LAMBDA w : ~w.stop)
              Slugs(words) ==
                IF words = <<>> THEN <<>>
                ELSE <<[words |-> words, hyphens |-> FALSE]>>
                       \o IF Len(words) > 1 THEN <<[words |-> words, hyphens |-> TRUE]>> ELSE <<>>
              All == [words : {Words(name[i]) : i \in DOMAIN name}, hyphens : BOOLEAN]
              parts == [i \in DOMAIN name |-> Slugs(Words(name[i]))]
              guesses == FlattenSeq(parts)
              I == {i \in DOMAIN guesses : /\ Letters(guesses[i]) >= 4
                                           /\ \A j \in 1 .. i - 1 : guesses[j] # guesses[i]}
  <1>1. ASSUME NEW i \in DOMAIN name PROVE Slugs(Words(name[i])) \in Seq(All)
    <2>. DEFINE w == Words(name[i])
    <2>1. [words |-> w, hyphens |-> FALSE] \in All /\ [words |-> w, hyphens |-> TRUE] \in All
      <3>. HIDE DEF Words
      <3>. QED OBVIOUS
    <2>. HIDE DEF All, w
    <2>2. Slugs(w) \in Seq(All)
      BY <2>1
    <2>. QED BY <2>2 DEF w
  <1>2. parts \in Seq(Seq(All))
    <2>1. DOMAIN name = 1 .. Len(name) /\ Len(name) \in Nat
      OBVIOUS
    <2>. HIDE DEF Slugs, Words
    <2>2. \A i \in DOMAIN name : parts[i] \in Seq(All)
      BY <1>1
    <2>3. parts = [i \in 1 .. Len(name) |-> parts[i]]
      BY <2>1
    <2>. HIDE DEF parts, All
    <2>. QED BY <2>1, <2>2, <2>3
  <1>3. guesses \in Seq(All)
    <2>. HIDE DEF parts, All
    <2>. QED BY <1>2, FlattenFacts
  <1>4. slug_candidates(name) = Pick(guesses, I)
    BY DEF slug_candidates
  <1>5. I \in SUBSET (DOMAIN guesses)
    OBVIOUS
  <1>6. Pick(guesses, I) \in Seq(All)
    <2>. HIDE DEF guesses, All, I
    <2>. QED BY <1>3, <1>5, PickFacts
  <1>. HIDE DEF guesses, All, I
  <1>. QED BY <1>4, <1>6

\* The board of a page's links is that of the first of them by source.
LEMMA LinksFacts ==
    ASSUME NEW links, links \in Seq(ToSet(links)),
           \A link \in ToSet(links) : link.source \in ToSet(LinkedSources)
    PROVE  /\ LinksBySource(links) \in Seq(ToSet(links))
           /\ board_from_html(links) =
                IF LinksBySource(links) = <<>> THEN NoBoard
                ELSE [source |-> LinksBySource(links)[1].source, token |-> Token(LinksBySource(links)[1])]
           /\ board_from_html(links) = NoBoard <=> LinksBySource(links) = <<>>
  <1>. DEFINE S == ToSet(links)
              At(i) == {k \in DOMAIN links : links[k].source = LinkedSources[i]}
              parts == [i \in DOMAIN LinkedSources |-> IF At(i) = {} THEN <<>> ELSE <<links[Min(At(i))]>>]
  <1>1. ASSUME NEW i \in DOMAIN LinkedSources PROVE parts[i] \in Seq(S)
    <2>1. CASE At(i) = {}
      BY <2>1
    <2>2. CASE At(i) # {}
      <3>1. Min(At(i)) \in At(i)
        <4>1. At(i) \in SUBSET (DOMAIN links)
          OBVIOUS
        <4>. HIDE DEF At
        <4>. QED BY <2>2, <4>1, LeastIndex
      <3>2. links[Min(At(i))] \in S
        BY <3>1 DEF ToSet
      <3>. HIDE DEF S, At
      <3>. QED BY <2>2, <3>2
    <2>. QED BY <2>1, <2>2
  <1>2. parts \in Seq(Seq(S))
    <2>1. DOMAIN LinkedSources = 1 .. 4
      BY DEF LinkedSources, ProbedSources
    <2>2. parts = [i \in 1 .. 4 |-> parts[i]]
      BY <2>1
    <2>. HIDE DEF parts, S
    <2>. QED BY <1>1, <2>1, <2>2
  <1>3. LinksBySource(links) = FlattenSeq(parts)
    BY DEF LinksBySource
  <1>4. LinksBySource(links) \in Seq(S)
    <2>. HIDE DEF parts, S
    <2>. QED BY <1>2, <1>3, FlattenFacts
  <1>5. board_from_html(links) =
          IF LinksBySource(links) = <<>> THEN NoBoard
          ELSE [source |-> LinksBySource(links)[1].source, token |-> Token(LinksBySource(links)[1])]
    BY DEF board_from_html
  <1>6. LinksBySource(links) # <<>> => LinksBySource(links)[1].source # "none"
    <2>1. "none" \notin ToSet(LinkedSources)
      BY DEF LinkedSources, ProbedSources, ToSet
    <2>2. LinksBySource(links) # <<>> => LinksBySource(links)[1] \in S
      <3>. HIDE DEF S
      <3>. QED BY <1>4
    <2>. QED BY <2>1, <2>2
  <1>. QED BY <1>4, <1>5, <1>6 DEF NoBoard

\* A page without links has no board.
LEMMA NoLinks == board_from_html(<<>>) = NoBoard
  <1>1. <<>> \in Seq(ToSet(<<>>)) /\ ToSet(<<>>) = {}
    BY DEF ToSet
  <1>2. LinksBySource(<<>>) \in Seq(ToSet(<<>>))
    BY <1>1, LinksFacts
  <1>3. LinksBySource(<<>>) = <<>>
    <2>. DEFINE s == LinksBySource(<<>>)
    <2>1. s \in Seq({})
      BY <1>1, <1>2
    <2>. HIDE DEF s
    <2>2. s = <<>>
      BY <2>1
    <2>. QED BY <2>2 DEF s
  <1>. QED BY <1>1, <1>3 DEF board_from_html

Hit(hosted, name, source, slug) ==
    /\ source \in ToSet(ProbedSources) /\ slug \in ToSet(slug_candidates(name))
    /\ Probed(hosted, source, slug)

\* The slug s comes no later than t among those of the name.
NoLaterSlug(name, s, t) ==
    \E i, j \in DOMAIN slug_candidates(name) :
        i <= j /\ slug_candidates(name)[i] = s /\ slug_candidates(name)[j] = t

\* A probe finds a board that answers, when there is one, under the first slug
\* that has one.
LEMMA ProbeIs ==
    ASSUME NEW S, NEW name \in Seq(S), NEW hosted
    PROVE  IF \E source, slug : Hit(hosted, name, source, slug)
           THEN \E source, slug :
                  /\ Hit(hosted, name, source, slug)
                  /\ probe_boards(hosted, name) = [source |-> source, token |-> <<slug>>]
                  /\ \A other, t : Hit(hosted, name, other, t) => NoLaterSlug(name, slug, t)
           ELSE probe_boards(hosted, name) = NoBoard
  <1>. DEFINE slugs == slug_candidates(name)
              Hits(i) == {j \in DOMAIN ProbedSources : Probed(hosted, ProbedSources[j], slugs[i])}
              hit == {i \in DOMAIN slugs : Hits(i) # {}}
  <1>1. DOMAIN slugs \in SUBSET Nat
    BY SlugsSeq
  <1>2. DOMAIN ProbedSources \in SUBSET Nat
    BY DEF ProbedSources
  <1>3. probe_boards(hosted, name) =
          IF hit = {} THEN NoBoard
          ELSE [source |-> ProbedSources[Min(Hits(Min(hit)))], token |-> <<slugs[Min(hit)]>>]
    BY DEF probe_boards
  <1>4. (\E source, slug : Hit(hosted, name, source, slug)) <=> hit # {}
    BY DEF Hit, ToSet
  <1>5. ASSUME NEW I \in SUBSET Nat, I # {} PROVE Min(I) \in I /\ \A y \in I : Min(I) <= y
    <2>1. \E x \in I : \A y \in I : x <= y
      BY <1>5, LeastNat
    <2>. QED BY <2>1 DEF Min
  <1>6. CASE hit # {}
    <2>1. Min(hit) \in hit /\ \A k \in hit : Min(hit) <= k
      <3>1. hit \in SUBSET Nat
        BY <1>1
      <3>. HIDE DEF hit
      <3>. QED BY <1>5, <1>6, <3>1
    <2>. DEFINE i == Min(hit)
                j == Min(Hits(i))
    <2>2. i \in DOMAIN slugs /\ Hits(i) # {}
      BY <2>1
    <2>3. j \in Hits(i)
      <3>1. Hits(i) \in SUBSET Nat
        BY <1>2
      <3>. HIDE DEF Hits, i
      <3>. QED BY <1>5, <2>2, <3>1
    <2>4. Hit(hosted, name, ProbedSources[j], slugs[i])
      <3>. HIDE DEF i, j
      <3>. QED BY <2>2, <2>3 DEF Hit, ToSet
    <2>5. probe_boards(hosted, name) = [source |-> ProbedSources[j], token |-> <<slugs[i]>>]
      BY <1>3, <1>6
    <2>6. ASSUME NEW other, NEW t, Hit(hosted, name, other, t) PROVE NoLaterSlug(name, slugs[i], t)
      <3>1. PICK k \in DOMAIN slugs : slugs[k] = t /\ k \in hit
        <4>1. PICK k \in DOMAIN slugs : slugs[k] = t
          BY <2>6 DEF Hit, ToSet
        <4>2. \E n \in DOMAIN ProbedSources : ProbedSources[n] = other /\ Probed(hosted, other, t)
          BY <2>6 DEF Hit, ToSet
        <4>. HIDE DEF slugs
        <4>. QED BY <4>1, <4>2
      <3>2. i <= k
        BY <2>1, <3>1
      <3>. HIDE DEF i, hit, Hits
      <3>. QED BY <2>2, <3>1, <3>2 DEF NoLaterSlug
    <2>. HIDE DEF i, j, slugs
    <2>. QED BY <2>4, <2>5, <2>6
  <1>7. CASE hit = {}
    BY <1>3, <1>4, <1>7
  <1>. HIDE DEF hit
  <1>. QED BY <1>4, <1>6, <1>7

BoardFound(c) == resolve(c.hosted, c.name, c.careers)
BoardReport(c) == [i \in DOMAIN c.careers |-> fingerprint(c.careers[i])]
\* What is resolved, by its method.
LEMMA ResolveIs ==
    ASSUME NEW c
    PROVE  LET probed == probe_boards(c.hosted, c.name)
               linked == IF c.careers = <<>> THEN NoBoard ELSE discover_from_careers(c.careers[1])
           IN  /\ probed # NoBoard => BoardFound(c) = [method |-> "slug-probe", board |-> probed]
               /\ probed = NoBoard => BoardFound(c).method # "slug-probe"
               /\ BoardFound(c).method = "careers-page" => BoardFound(c).board = linked
  BY DEF BoardFound, resolve

Known(c) == {b \in c.hosted : Recognised(b, slug_candidates(c.name))}

\* The boards that the probe hits are those that can be told for the company's.
LEMMA HitIsKnown ==
    ASSUME NEW c \in BoardCases, NEW source, NEW slug
    PROVE  Hit(c.hosted, c.name, source, slug) <=>
             \E b \in Known(c) : b.source = source /\ b.token = slug
  <1>1. \A b \in c.hosted : b.source \in ToSet(ProbedSources)
    BY BoardAssumption
  <1>2. \A b \in c.hosted : name_matches(greenhouse_board_name(b)) <=> b.answers /\ b.title = "like"
    BY DEF name_matches, greenhouse_board_name
  <1>. QED BY <1>1, <1>2 DEF Hit, Probed, Known, Recognised

\* A board that can be told for the company's is found before its careers page
\* is read, under the first slug that has one.
LEMMA KnownFound ==
    ASSUME NEW c \in BoardCases
    PROVE  IF Known(c) = {} THEN BoardFound(c).method # "slug-probe"
           ELSE \E b \in Known(c) :
                  /\ BoardFound(c) = [method |-> "slug-probe", board |-> [source |-> b.source, token |-> <<b.token>>]]
                  /\ \A o \in Known(c) : NoLaterSlug(c.name, b.token, o.token)
  <1>. DEFINE known == Known(c)
              probed == probe_boards(c.hosted, c.name)
  <1>1. \A source, slug : Hit(c.hosted, c.name, source, slug) <=>
                            \E b \in known : b.source = source /\ b.token = slug
    BY HitIsKnown
  <1>2. IF \E source, slug : Hit(c.hosted, c.name, source, slug)
        THEN \E source, slug :
               /\ Hit(c.hosted, c.name, source, slug)
               /\ probed = [source |-> source, token |-> <<slug>>]
               /\ \A other, t : Hit(c.hosted, c.name, other, t) => NoLaterSlug(c.name, slug, t)
        ELSE probed = NoBoard
    <2>1. c.name \in Seq(ToSet(c.name))
      BY BoardAssumption
    <2>. HIDE DEF known
    <2>. QED BY <2>1, ProbeIs
  <1>3. \A b \in known : b.source # "none"
    <2>1. "none" \notin ToSet(ProbedSources)
      BY DEF ProbedSources, ToSet
    <2>. QED BY <2>1, BoardAssumption DEF Known
  <1>4. /\ probed # NoBoard => BoardFound(c) = [method |-> "slug-probe", board |-> probed]
        /\ probed = NoBoard => BoardFound(c).method # "slug-probe"
    BY ResolveIs
  <1>. HIDE DEF known, probed
  <1>5. CASE known # {}
    <2>1. PICK source, slug : /\ Hit(c.hosted, c.name, source, slug)
                              /\ probed = [source |-> source, token |-> <<slug>>]
                              /\ \A other, t : Hit(c.hosted, c.name, other, t) => NoLaterSlug(c.name, slug, t)
      BY <1>1, <1>2, <1>5
    <2>2. PICK b \in known : b.source = source /\ b.token = slug
      BY <1>1, <2>1
    <2>3. probed # NoBoard
      BY <1>3, <2>1, <2>2 DEF NoBoard
    <2>4. \A o \in known : NoLaterSlug(c.name, b.token, o.token)
      BY <1>1, <2>1, <2>2
    <2>. QED BY <1>4, <1>5, <2>1, <2>2, <2>3, <2>4 DEF known
  <1>6. CASE known = {}
    BY <1>1, <1>2, <1>4, <1>6 DEF known
  <1>. QED BY <1>5, <1>6 DEF known

\* The first link that the fingerprint names is the board that is resolved.
LEMMA LinkedFirst ==
    ASSUME NEW c \in BoardCases, NEW i \in DOMAIN c.careers,
           BoardFound(c).method = "careers-page", c.careers[i].url = <<>>,
           BoardReport(c)[i].board_links # <<>>, fetch_html(c.careers[i]) = c.careers[i].rendered
    PROVE  LET link == BoardReport(c)[i].board_links[1]
           IN  BoardFound(c).board = [source |-> link.source, token |-> Token(link)]
  <1>. DEFINE page == c.careers[i]
              links == LinksBySource(page.rendered)
  <1>1. i = 1 /\ c.careers # <<>> /\ page \in ToSet(c.careers)
    <2>1. c.careers \in Seq(ToSet(c.careers)) /\ Len(c.careers) <= 1
      BY BoardAssumption
    <2>2. i \in 1 .. Len(c.careers) /\ Len(c.careers) \in Nat
      BY <2>1
    <2>. QED BY <2>1, <2>2 DEF ToSet
  <1>2. BoardReport(c)[i].board_links = links
    <2>1. BoardReport(c)[i] = fingerprint(page)
      BY DEF BoardReport
    <2>2. fingerprint(page).board_links = IF page.browser THEN links ELSE <<>>
      BY DEF fingerprint, board_links
    <2>. QED BY <2>1, <2>2
  <1>3. links # <<>>
    BY <1>2
  <1>4. /\ page.rendered \in Seq(ToSet(page.rendered))
        /\ \A link \in ToSet(page.rendered) : link.source \in ToSet(LinkedSources)
    BY <1>1, BoardAssumption
  <1>5. /\ board_from_html(page.rendered) = [source |-> links[1].source, token |-> Token(links[1])]
        /\ board_from_html(page.rendered) # NoBoard
    BY <1>3, <1>4, LinksFacts
  <1>6. discover_from_careers(page) = board_from_html(page.rendered)
    BY <1>5, NoLinks DEF discover_from_careers
  <1>7. BoardFound(c).board = discover_from_careers(c.careers[1])
    BY <1>1, ResolveIs
  <1>. QED BY <1>1, <1>2, <1>5, <1>6, <1>7

\* The board that is found and the report of the fingerprint, put together.
LEMMA BoardTrue == Asked => OwnBoardResolved
  <1>. SUFFICES ASSUME Asked, Decided("board") PROVE OwnBoardResolved
    BY DEF OwnBoardResolved
  <1>. DEFINE c == asked
  <1>0. asked \in BoardCases /\ answer[1] = Result("board", asked)
    BY AnswerIs DEF Cases
  <1>1. c \in BoardCases /\ answer[1].found = BoardFound(c) /\ answer[1].report = BoardReport(c)
    BY <1>0 DEF Result, BoardFound, BoardReport
  <1>2. IF Known(c) = {} THEN BoardFound(c).method # "slug-probe"
        ELSE \E b \in Known(c) :
               /\ BoardFound(c) = [method |-> "slug-probe", board |-> [source |-> b.source, token |-> <<b.token>>]]
               /\ \A o \in Known(c) : NoLaterSlug(c.name, b.token, o.token)
    BY <1>1, KnownFound
  <1>3. ASSUME NEW i \in DOMAIN c.careers,
               BoardFound(c).method = "careers-page", c.careers[i].url = <<>>,
               BoardReport(c)[i].board_links # <<>>, fetch_html(c.careers[i]) = c.careers[i].rendered
        PROVE  LET link == BoardReport(c)[i].board_links[1]
               IN  BoardFound(c).board = [source |-> link.source, token |-> Token(link)]
    BY <1>1, <1>3, LinkedFirst
  <1>. QED BY <1>1, <1>2, <1>3 DEF OwnBoardResolved, Known, NoLaterSlug

\* OwnBoardResolved (resolve, fingerprint): a probe finds only a board it can tell
\* for the company's, finds one whenever there is one, and takes another company's
\* only under a slug as early as that of any own board it can tell; for names and
\* sets of boards of any size; and the fingerprint names first what is found.
THEOREM OwnBoardFound == Spec => []OwnBoardResolved
  BY AskedAlways, BoardTrue, PTL

-----------------------------------------------------------------------------
(* Listings: where a posting is, and the pages that are read.               *)

Sought(a, board, q) == {i \in DOMAIN board : a.searches => q \in board[i].queries}
Place(a, board, q, i) == Cardinality(UpTo(Sought(a, board, q), i))

\* A row of a board is found at its place.
LEMMA FoundAtPlace ==
    ASSUME NEW a, NEW q, NEW board \in Seq(Rows), NEW i \in Sought(a, board, q)
    PROVE  LET found == Pick(board, Sought(a, board, q))
           IN  /\ found \in Seq(Rows) /\ Place(a, board, q, i) \in 1 .. Len(found)
               /\ found[Place(a, board, q, i)] = board[i]
  <1>1. Sought(a, board, q) \in SUBSET (DOMAIN board)
    BY DEF Sought
  <1>2. /\ Pick(board, Sought(a, board, q)) \in Seq(Rows)
        /\ Place(a, board, q, i) \in DOMAIN Pick(board, Sought(a, board, q))
        /\ Pick(board, Sought(a, board, q))[Place(a, board, q, i)] = board[i]
    BY <1>1, PickFacts DEF Place
  <1>. QED BY <1>2

\* Every search finds what is published meanwhile, so a place moves by one.
LEMMA PlaceMoves ==
    ASSUME NEW a, NEW q \in Queries, NEW board \in Seq(Rows), NEW i \in Sought(a, board, q)
    PROVE  LET next == <<Published>> \o board
           IN  /\ next \in Seq(Rows) /\ i + 1 \in Sought(a, next, q) /\ next[i + 1] = board[i]
               /\ Place(a, next, q, i + 1) = Place(a, board, q, i) + 1
  <1>. DEFINE next == <<Published>> \o board
              I == Sought(a, board, q)
              J == Sought(a, next, q)
              U == UpTo(I, i)
              W == UpTo(J, i + 1)
              V == {j + 1 : j \in U}
  <1>0. Published \in Rows /\ Published.queries = Queries
    BY DEF Published, Rows, Queries, Flaws
  <1>1. /\ next \in Seq(Rows) /\ Len(next) = Len(board) + 1 /\ next[1] = Published
        /\ \A j \in DOMAIN board : next[j + 1] = board[j]
    BY <1>0
  <1>2. I \in SUBSET (1 .. Len(board)) /\ Len(board) \in Nat /\ J \in SUBSET (1 .. Len(next))
    BY <1>1 DEF Sought
  <1>3. 1 \in J
    BY <1>0, <1>1, <1>2 DEF Sought
  <1>4. \A j \in 1 .. Len(board) : j \in I <=> j + 1 \in J
    BY <1>1, <1>2 DEF Sought
  <1>5. W = V \cup {1} /\ 1 \notin V
    <2>. HIDE DEF I, J, next
    <2>1. ASSUME NEW j \in W PROVE j = 1 \/ (j - 1 \in U /\ j = (j - 1) + 1)
      <3>1. j \in J /\ j <= i + 1 /\ j \in 1 .. Len(board) + 1 /\ i \in I
        BY <1>1, <1>2 DEF UpTo, I
      <3>2. j # 1 => j - 1 \in 1 .. Len(board) /\ j - 1 <= i
        BY <1>2, <3>1
      <3>3. j # 1 => j - 1 \in I
        BY <1>2, <1>4, <3>1, <3>2
      <3>. QED BY <3>1, <3>2, <3>3 DEF UpTo
    <2>2. ASSUME NEW j \in U PROVE j + 1 \in W /\ j + 1 # 1
      <3>1. j \in I /\ j <= i /\ i \in I
        BY DEF UpTo, I
      <3>. QED BY <1>2, <1>4, <3>1 DEF UpTo
    <2>3. 1 \in W
      <3>1. i \in I
        BY DEF I
      <3>. QED BY <1>2, <1>3, <3>1 DEF UpTo
    <2>. QED BY <2>1, <2>2, <2>3
  <1>6. IsFiniteSet(U) /\ U \in SUBSET Nat
    <2>. HIDE DEF I
    <2>1. IsFiniteSet(I)
      BY <1>2, RankIsBijective
    <2>2. U \in SUBSET I
      BY DEF UpTo
    <2>. HIDE DEF U, J, next
    <2>3. U \in SUBSET Nat
      BY <1>2, <2>2
    <2>. QED BY <2>1, <2>2, <2>3, FS_Subset
  <1>7. IsFiniteSet(V) /\ Cardinality(V) = Cardinality(U)
    <2>. DEFINE f == [j \in U |-> j + 1]
    <2>. HIDE DEF U
    <2>1. f \in [U -> V] /\ \A x, y \in U : f[x] = f[y] => x = y
      BY <1>6
    <2>2. \A z \in V : \E x \in U : f[x] = z
      OBVIOUS
    <2>. HIDE DEF V, f
    <2>3. f \in Bijection(U, V)
      BY <2>1, <2>2 DEF Bijection, Injection, Surjection, IsInjective
    <2>4. ExistsBijection(U, V)
      BY <2>3 DEF ExistsBijection
    <2>. QED BY <1>6, <2>4, FS_Bijection
  <1>8. Cardinality(W) = Cardinality(V) + 1
    <2>. HIDE DEF V, W, I, J
    <2>. QED BY <1>5, <1>7, FS_AddElement
  <1>9. i + 1 \in J /\ next[i + 1] = board[i]
    BY <1>1, <1>2, <1>4
  <1>. QED BY <1>1, <1>7, <1>8, <1>9 DEF Place

\* Taking a row down moves no place ahead of it.
LEMMA PlaceStays ==
    ASSUME NEW a, NEW q, NEW board \in Seq(Rows), NEW i \in Sought(a, board, q),
           NEW at \in DOMAIN board, i < at
    PROVE  LET next == RemoveAt(board, at)
           IN  /\ next \in Seq(Rows) /\ i \in Sought(a, next, q) /\ next[i] = board[i]
               /\ Place(a, next, q, i) = Place(a, board, q, i)
  <1>. DEFINE next == RemoveAt(board, at)
  <1>1. at \in 1 .. Len(board) /\ Len(board) \in Nat
    OBVIOUS
  <1>2. /\ next \in Seq(Rows) /\ Len(next) = Len(board) - 1
        /\ \A j \in 1 .. at - 1 : next[j] = board[j]
    <2>. DEFINE s == SubSeq(board, 1, at - 1)
                t == SubSeq(board, at + 1, Len(board))
    <2>1. s \in Seq(Rows) /\ Len(s) = at - 1 /\ \A j \in 1 .. at - 1 : s[j] = board[j]
      BY <1>1
    <2>2. t \in Seq(Rows) /\ Len(t) = Len(board) - at
      BY <1>1
    <2>. HIDE DEF s, t
    <2>3. s \o t \in Seq(Rows) /\ Len(s \o t) = Len(board) - 1 /\ \A j \in 1 .. at - 1 : (s \o t)[j] = board[j]
      BY <1>1, <2>1, <2>2
    <2>. QED BY <2>3 DEF RemoveAt, s, t
  <1>. HIDE DEF next
  <1>3. i \in 1 .. at - 1
    BY <1>1 DEF Sought
  <1>4. \A j \in 1 .. at - 1 : j \in DOMAIN board /\ j \in DOMAIN next
    BY <1>1, <1>2
  <1>5. \A j \in 1 .. at - 1 : j \in Sought(a, board, q) <=> j \in Sought(a, next, q)
    BY <1>2, <1>4 DEF Sought
  <1>6. UpTo(Sought(a, board, q), i) = UpTo(Sought(a, next, q), i)
    <2>1. \A j \in DOMAIN board : j <= i => j \in 1 .. at - 1
      BY <1>1, <1>3
    <2>2. \A j \in DOMAIN next : j <= i => j \in 1 .. at - 1
      BY <1>1, <1>2, <1>3
    <2>. QED BY <1>5, <2>1, <2>2 DEF UpTo, Sought
  <1>. QED BY <1>2, <1>3, <1>5, <1>6 DEF Place, next

\* How far a posting that is published has pushed the others by request n.
Pushed(v, n) == IF v.edit = "insert" /\ n >= v.when THEN 1 ELSE 0

\* A row that is sought is found at every request, at its place.
LEMMA FoundAt ==
    ASSUME NEW a, NEW q \in Queries, NEW v, VisitShape(v), NEW i \in Sought(a, v.board, q),
           ~(v.edit = "remove" /\ v.at <= i), NEW n \in Nat
    PROVE  LET place == Place(a, v.board, q, i) + Pushed(v, n)
           IN  /\ Found(a, v, q, n) \in Seq(Rows)
               /\ place \in 1 .. Len(Found(a, v, q, n))
               /\ Found(a, v, q, n)[place] = v.board[i]
               /\ Len(Found(a, v, q, n)) <= Len(BoardAt(v, n))
               /\ BoardAt(v, n) \in Seq(Rows)
  <1>. DEFINE board == BoardAt(v, n)
              place == Place(a, v.board, q, i) + Pushed(v, n)
  <1>1. v.board \in Seq(Rows) /\ v.when \in Nat /\ v.edit \in {"none", "insert", "remove"}
    BY DEF VisitShape
  <1>2. Place(a, v.board, q, i) \in Nat
    <2>1. Place(a, v.board, q, i) \in 1 .. Len(Pick(v.board, Sought(a, v.board, q)))
      BY <1>1, FoundAtPlace
    <2>. QED BY <2>1
  <1>3. \E k \in Sought(a, board, q) :
           board \in Seq(Rows) /\ Place(a, board, q, k) = place /\ board[k] = v.board[i]
    <2>1. CASE v.edit = "none" \/ n < v.when
      <3>1. board = v.board
        BY <2>1 DEF BoardAt
      <3>2. Pushed(v, n) = 0
        BY <1>1, <2>1 DEF Pushed
      <3>. HIDE DEF board
      <3>. QED BY <1>1, <1>2, <3>1, <3>2
    <2>2. CASE v.edit = "insert" /\ ~(n < v.when)
      <3>1. board = <<Published>> \o v.board
        BY <2>2 DEF BoardAt
      <3>2. Pushed(v, n) = 1
        BY <1>1, <2>2 DEF Pushed
      <3>3. /\ <<Published>> \o v.board \in Seq(Rows) /\ i + 1 \in Sought(a, <<Published>> \o v.board, q)
            /\ (<<Published>> \o v.board)[i + 1] = v.board[i]
            /\ Place(a, <<Published>> \o v.board, q, i + 1) = Place(a, v.board, q, i) + 1
        <4>. HIDE DEF board, place
        <4>. QED BY <1>1, PlaceMoves, ZenonT(30)
      <3>. HIDE DEF board
      <3>. QED BY <3>1, <3>2, <3>3
    <2>3. CASE v.edit = "remove" /\ ~(n < v.when)
      <3>1. board = RemoveAt(v.board, v.at)
        BY <2>3 DEF BoardAt
      <3>2. Pushed(v, n) = 0
        BY <2>3 DEF Pushed
      <3>3. v.at \in DOMAIN v.board /\ i < v.at
        <4>1. v.at \in DOMAIN v.board /\ i \in DOMAIN v.board /\ ~(v.at <= i)
          BY <2>3 DEF VisitShape, Sought
        <4>. QED BY <1>1, <4>1
      <3>4. /\ RemoveAt(v.board, v.at) \in Seq(Rows) /\ i \in Sought(a, RemoveAt(v.board, v.at), q)
            /\ RemoveAt(v.board, v.at)[i] = v.board[i]
            /\ Place(a, RemoveAt(v.board, v.at), q, i) = Place(a, v.board, q, i)
        <4>. HIDE DEF board, place
        <4>. QED BY <1>1, <3>3, PlaceStays
      <3>. HIDE DEF board
      <3>. QED BY <1>2, <3>1, <3>2, <3>4
    <2>. QED BY <1>1, <2>1, <2>2, <2>3
  <1>4. Found(a, v, q, n) = Pick(board, Sought(a, board, q))
    BY DEF Found, Sought
  <1>5. PICK k \in Sought(a, board, q) :
           board \in Seq(Rows) /\ Place(a, board, q, k) = place /\ board[k] = v.board[i]
    BY <1>3
  <1>. HIDE DEF board, place
  <1>6. /\ Pick(board, Sought(a, board, q)) \in Seq(Rows)
        /\ Place(a, board, q, k) \in 1 .. Len(Pick(board, Sought(a, board, q)))
        /\ Pick(board, Sought(a, board, q))[Place(a, board, q, k)] = board[k]
    BY <1>5, FoundAtPlace
  <1>7. Len(Pick(board, Sought(a, board, q))) <= Len(board)
    <2>1. Sought(a, board, q) \in SUBSET (DOMAIN board)
      BY DEF Sought
    <2>2. Len(Pick(board, Sought(a, board, q))) = Cardinality(Sought(a, board, q))
      BY <1>5, <2>1, PickFacts
    <2>3. IsFiniteSet(1 .. Len(board)) /\ Cardinality(1 .. Len(board)) = Len(board)
      <3>1. Len(board) \in Nat
        BY <1>5
      <3>. QED BY <3>1, FS_Interval, SMTT(30)
    <2>4. Sought(a, board, q) \in SUBSET (1 .. Len(board))
      BY <1>5, <2>1
    <2>. QED BY <2>2, <2>3, <2>4, FS_Subset
  <1>. QED BY <1>4, <1>5, <1>6, <1>7 DEF board, place

\* A page holds the rows whose places are on it.
LEMMA PageFacts ==
    ASSUME NEW board \in Seq(Rows), NEW size \in Nat \ {0}, NEW n \in Nat \ {0}
    PROVE  /\ PageOf(board, size, n) \in Seq(Rows)
           /\ \A p \in 1 .. Len(board) :
                 (n - 1) * size < p /\ p <= n * size => board[p] \in ToSet(PageOf(board, size, n))
           /\ Len(PageOf(board, size, n)) < size => Len(board) <= n * size
           /\ Len(PageOf(board, size, n)) <= size
           /\ ToSet(PageOf(board, size, n)) \subseteq ToSet(board)
  <1>. DEFINE lo == (n - 1) * size
              hi == n * size
              last == IF hi < Len(board) THEN hi ELSE Len(board)
              page == SubSeq(board, lo + 1, last)
  <1>1. lo \in Nat /\ hi \in Nat /\ hi = lo + size /\ Len(board) \in Nat
    <2>1. hi = (n - 1) * size + size
      OBVIOUS
    <2>. QED BY <2>1
  <1>2. PageOf(board, size, n) = page
    BY DEF PageOf
  <1>. HIDE DEF lo, hi
  <1>3. last \in Nat /\ last <= hi /\ last <= Len(board) /\ (last = hi \/ (last = Len(board) /\ Len(board) <= hi))
    BY <1>1
  <1>. HIDE DEF last
  <1>4. /\ page \in Seq(Rows)
        /\ Len(page) = IF lo + 1 <= last THEN last - lo ELSE 0
        /\ \A k \in 1 .. Len(page) : page[k] = board[lo + k]
    BY <1>1, <1>3
  <1>. HIDE DEF page
  <1>5. ASSUME NEW p \in 1 .. Len(board), lo < p, p <= hi PROVE board[p] \in ToSet(page)
    <2>1. p - lo \in 1 .. Len(page) /\ lo + (p - lo) = p
      BY <1>1, <1>3, <1>4, <1>5
    <2>2. page[p - lo] = board[p] /\ p - lo \in DOMAIN page
      BY <1>4, <2>1
    <2>. QED BY <2>2 DEF ToSet
  <1>6. Len(page) < size => Len(board) <= hi
    BY <1>1, <1>3, <1>4
  <1>7. Len(page) <= size
    BY <1>1, <1>3, <1>4
  <1>8. ToSet(page) \subseteq ToSet(board)
    <2>1. \A k \in DOMAIN page : lo + k \in DOMAIN board /\ page[k] = board[lo + k]
      BY <1>1, <1>3, <1>4
    <2>. QED BY <2>1 DEF ToSet
  <1>. QED BY <1>2, <1>4, <1>5, <1>6, <1>7, <1>8 DEF lo, hi

AdapterShape(a) ==
    /\ a.cap \in Nat \ {0} /\ a.attempts \in Nat \ {0}
    /\ a.searches \in BOOLEAN /\ a.once \in BOOLEAN
    /\ a.stop \in {"one", "counted", "known", "first", "short"}
    /\ a.empty \in {"no", "raw", "kept"}
    /\ a.empty = "kept" => ~a.searches /\ a.stop # "one"
    /\ a.stop = "one" => a.cap = 1

\* Pages are of rows.
LEMMA AnswerShape ==
    ASSUME NEW a, NEW v, VisitShape(v), NEW q, NEW n \in Nat \ {0}
    PROVE  /\ BoardAt(v, n) \in Seq(Rows) /\ Found(a, v, q, n) \in Seq(Rows)
           /\ Answer(a, v, q, n) \in Seq(Rows)
           /\ Keep(a, Answer(a, v, q, n)) \in Seq(Rows)
  <1>1. v.board \in Seq(Rows) /\ v.edit \in {"none", "insert", "remove"} /\ v.size \in Nat \ {0}
    BY DEF VisitShape
  <1>2. BoardAt(v, n) \in Seq(Rows)
    <2>1. CASE v.edit = "none" \/ n < v.when
      BY <1>1, <2>1 DEF BoardAt
    <2>2. CASE v.edit = "insert" /\ ~(n < v.when)
      <3>1. Published \in Rows
        BY DEF Published, Rows, Queries, Flaws
      <3>2. <<Published>> \o v.board \in Seq(Rows)
        BY <1>1, <3>1
      <3>. QED BY <2>2, <3>2 DEF BoardAt
    <2>3. CASE v.edit = "remove" /\ ~(n < v.when)
      <3>. DEFINE s == SubSeq(v.board, 1, v.at - 1)
                  t == SubSeq(v.board, v.at + 1, Len(v.board))
      <3>1. v.at \in 1 .. Len(v.board) /\ Len(v.board) \in Nat
        BY <1>1, <2>3 DEF VisitShape
      <3>2. s \in Seq(Rows) /\ t \in Seq(Rows)
        BY <1>1, <3>1
      <3>3. s \o t \in Seq(Rows)
        <4>. HIDE DEF s, t
        <4>. QED BY <3>2
      <3>. QED BY <2>3, <3>3 DEF BoardAt, RemoveAt
    <2>. QED BY <1>1, <2>1, <2>2, <2>3
  <1>3. Found(a, v, q, n) \in Seq(Rows)
    <2>1. Sought(a, BoardAt(v, n), q) \in SUBSET (DOMAIN BoardAt(v, n))
      BY DEF Sought
    <2>2. Pick(BoardAt(v, n), Sought(a, BoardAt(v, n), q)) \in Seq(Rows)
      BY <1>2, <2>1, PickFacts
    <2>. QED BY <2>2 DEF Found, Sought
  <1>4. PageOf(Found(a, v, q, n), v.size, n) \in Seq(Rows)
    BY <1>1, <1>3, PageFacts
  <1>5. Answer(a, v, q, n) \in Seq(Rows)
    BY <1>3, <1>4 DEF Answer
  <1>6. Keep(a, Answer(a, v, q, n)) \in Seq(Rows)
    <2>. DEFINE rows == Answer(a, v, q, n)
                I == {i \in DOMAIN rows : rows[i].flaw \notin a.drops}
    <2>1. rows \in Seq(Rows) /\ I \in SUBSET (DOMAIN rows)
      BY <1>5
    <2>2. Pick(rows, I) \in Seq(Rows)
      <3>. HIDE DEF rows, I
      <3>. QED BY <2>1, PickFacts
    <2>. QED BY <2>2 DEF Keep
  <1>. QED BY <1>2, <1>3, <1>5, <1>6

\* A search has a last request: the cap is one.
LEMMA LastIs ==
    ASSUME NEW a, AdapterShape(a), NEW v, NEW q
    PROVE  LET n == LastRequest(a, v, q)
           IN  /\ n \in 1 .. a.cap
               /\ n = a.cap \/ Refused(a, v, q, n) \/ Ends(a, v, q, n)
               /\ \A m \in 1 .. n - 1 : ~Refused(a, v, q, m) /\ ~Ends(a, v, q, m)
  <1>. DEFINE Stops(n) == n = a.cap \/ Refused(a, v, q, n) \/ Ends(a, v, q, n)
              S == {n \in 1 .. a.cap : Stops(n)}
              First(n) == Stops(n) /\ \A m \in 1 .. n - 1 : ~Refused(a, v, q, m) /\ ~Ends(a, v, q, m)
  <1>1. a.cap \in Nat \ {0}
    BY DEF AdapterShape
  <1>2. S \in SUBSET Nat /\ S # {}
    <2>1. a.cap \in S
      BY <1>1
    <2>. HIDE DEF Stops
    <2>2. S \in SUBSET Nat
      BY <1>1
    <2>. QED BY <2>1, <2>2
  <1>3. PICK n \in S : \A m \in S : n <= m
    <2>. HIDE DEF S
    <2>. QED BY <1>2, LeastNat
  <1>4. n \in 1 .. a.cap /\ First(n)
    <2>1. n \in 1 .. a.cap /\ Stops(n)
      BY <1>3
    <2>2. ASSUME NEW m \in 1 .. n - 1 PROVE ~Stops(m)
      <3>1. m \in 1 .. a.cap /\ ~(n <= m)
        BY <1>1, <2>1
      <3>2. m \notin S
        BY <1>3, <3>1
      <3>. HIDE DEF Stops
      <3>. QED BY <3>1, <3>2
    <2>. QED BY <2>1, <2>2
  <1>5. LastRequest(a, v, q) = CHOOSE k \in 1 .. a.cap : First(k)
    BY DEF LastRequest
  <1>. HIDE DEF First
  <1>6. LastRequest(a, v, q) \in 1 .. a.cap /\ First(LastRequest(a, v, q))
    BY <1>4, <1>5
  <1>. QED BY <1>6 DEF First

\* A posting that no edit moves out of the reading.
Stays(a, v, q, i) ==
    /\ i \in Sought(a, v.board, q) /\ q \in Queries
    /\ ~(v.edit = "remove" /\ v.at <= i)
    /\ ~(v.edit = "insert" /\ a.stop = "first")

\* The place of a row at request n.
PlaceAt(a, v, q, i, n) == Place(a, v.board, q, i) + Pushed(v, n)

\* The place of a posting that stays: on the board, and never further ahead later.
LEMMA PlaceFacts ==
    ASSUME NEW a, NEW v, VisitShape(v), NEW q, NEW i, Stays(a, v, q, i), NEW n \in Nat
    PROVE  /\ PlaceAt(a, v, q, i, n) \in Nat \ {0}
           /\ PlaceAt(a, v, q, i, n) <= Len(Found(a, v, q, n))
           /\ Len(Found(a, v, q, n)) \in Nat
           /\ Found(a, v, q, n)[PlaceAt(a, v, q, i, n)] = v.board[i]
           /\ Len(Found(a, v, q, n)) <= Len(BoardAt(v, n)) /\ Len(BoardAt(v, n)) \in Nat
           /\ \A m \in 1 .. n : PlaceAt(a, v, q, i, m) \in Nat /\ PlaceAt(a, v, q, i, m) <= PlaceAt(a, v, q, i, n)
  <1>1. /\ Found(a, v, q, n) \in Seq(Rows)
        /\ PlaceAt(a, v, q, i, n) \in 1 .. Len(Found(a, v, q, n))
        /\ Found(a, v, q, n)[PlaceAt(a, v, q, i, n)] = v.board[i]
        /\ Len(Found(a, v, q, n)) <= Len(BoardAt(v, n))
        /\ BoardAt(v, n) \in Seq(Rows)
    BY FoundAt DEF Stays, PlaceAt
  <1>2. \A m \in 1 .. n : PlaceAt(a, v, q, i, m) \in Nat /\ PlaceAt(a, v, q, i, m) <= PlaceAt(a, v, q, i, n)
    <2>1. Place(a, v.board, q, i) \in Nat
      <3>1. v.board \in Seq(Rows) /\ i \in Sought(a, v.board, q)
        BY DEF VisitShape, Stays
      <3>2. Place(a, v.board, q, i) \in 1 .. Len(Pick(v.board, Sought(a, v.board, q)))
        BY <3>1, FoundAtPlace
      <3>. QED BY <3>2
    <2>2. v.when \in Nat
      BY DEF VisitShape
    <2>. QED BY <2>1, <2>2 DEF PlaceAt, Pushed
  <1>3. Len(Found(a, v, q, n)) \in Nat /\ Len(BoardAt(v, n)) \in Nat
    BY <1>1
  <1>. QED BY <1>1, <1>2, <1>3

\* A board is what it is at the first request or at the edit.
LEMMA BoardTwice ==
    ASSUME NEW v, VisitShape(v), NEW n \in Nat \ {0}
    PROVE  \E m \in {1, v.when} : BoardAt(v, n) = BoardAt(v, m)
  <1>1. v.when \in Nat \ {0}
    BY DEF VisitShape
  <1>2. CASE n < v.when
    <2>1. 1 < v.when
      BY <1>1, <1>2
    <2>. QED BY <1>2, <2>1 DEF BoardAt
  <1>3. CASE ~(n < v.when)
    <2>1. ~(v.when < v.when)
      BY <1>1
    <2>. QED BY <1>3, <2>1 DEF BoardAt
  <1>. QED BY <1>2, <1>3

\* The reading is not over before the posting's page was read.
LEMMA Covered ==
    ASSUME NEW a, AdapterShape(a), NEW v, VisitShape(v), Undisturbed(a, v), NEW q, NEW i, Stays(a, v, q, i),
           NEW n, n = LastRequest(a, v, q), a.stop # "one"
    PROVE  n \in Nat \ {0} /\ PlaceAt(a, v, q, i, n) <= n * v.size
  <1>. DEFINE found == Found(a, v, q, n)
              place == PlaceAt(a, v, q, i, n)
              reach == n * v.size
  <1>1. /\ n \in 1 .. a.cap /\ a.cap \in Nat
        /\ n = a.cap \/ Refused(a, v, q, n) \/ Ends(a, v, q, n)
    BY LastIs DEF AdapterShape
  <1>2. ~Refused(a, v, q, n)
    <2>1. v.throttled < a.attempts /\ v.throttled \in Nat /\ a.attempts \in Nat
      BY DEF Undisturbed, AdapterShape, VisitShape
    <2>. QED BY <2>1 DEF Refused
  <1>3. n \in Nat \ {0} /\ v.size \in Nat \ {0} /\ reach \in Nat
    <2>1. n \in Nat \ {0} /\ v.size \in Nat \ {0}
      BY <1>1 DEF VisitShape
    <2>. QED BY <2>1
  <1>4. /\ place \in Nat \ {0} /\ place <= Len(found) /\ Len(found) \in Nat
        /\ Len(found) <= Len(BoardAt(v, n)) /\ Len(BoardAt(v, n)) \in Nat
    BY <1>3, PlaceFacts
  <1>5. found \in Seq(Rows) /\ BoardAt(v, n) \in Seq(Rows)
    BY <1>3, AnswerShape
  <1>6. Answer(a, v, q, n) = PageOf(found, v.size, n)
    BY DEF Answer
  <1>7. /\ Len(PageOf(found, v.size, n)) < v.size => Len(found) <= reach
        /\ Len(PageOf(found, v.size, n)) \in Nat
    <2>1. /\ PageOf(found, v.size, n) \in Seq(Rows)
          /\ Len(PageOf(found, v.size, n)) < v.size => Len(found) <= reach
      <3>. HIDE DEF found
      <3>. QED BY <1>3, <1>5, PageFacts
    <2>. HIDE DEF found, reach
    <2>. QED BY <2>1
  <1>8. CASE n = a.cap
    <2>1. PICK m \in {1, v.when} : BoardAt(v, n) = BoardAt(v, m)
      BY <1>3, BoardTwice
    <2>2. Len(BoardAt(v, n)) <= reach
      BY <1>8, <2>1 DEF Undisturbed
    <2>. HIDE DEF found, reach, place
    <2>. QED BY <1>3, <1>4, <2>2 DEF place, reach
  <1>9. CASE a.empty = "raw" /\ Answer(a, v, q, n) = <<>>
    <2>1. Len(PageOf(found, v.size, n)) = 0
      BY <1>6, <1>9
    <2>. HIDE DEF found, reach, place
    <2>. QED BY <1>3, <1>4, <1>7, <2>1 DEF place, reach
  <1>10. CASE a.empty = "kept" /\ Keep(a, Answer(a, v, q, n)) = <<>>
    <2>1. ~a.searches
      BY <1>10 DEF AdapterShape
    <2>2. found = BoardAt(v, n)
      <3>1. Sought(a, BoardAt(v, n), q) = DOMAIN BoardAt(v, n)
        BY <2>1 DEF Sought
      <3>. QED BY <1>5, <3>1, PickAll DEF Found, Sought
    <2>3. PICK m \in {1, v.when} : BoardAt(v, n) = BoardAt(v, m)
      BY <1>3, BoardTwice
    <2>4. PageOf(BoardAt(v, m), v.size, n) # <<>> => Keep(a, PageOf(BoardAt(v, m), v.size, n)) # <<>>
      BY <1>1, <1>10 DEF Undisturbed
    <2>5. PageOf(found, v.size, n) = <<>>
      BY <1>6, <1>10, <2>2, <2>3, <2>4
    <2>6. Len(PageOf(found, v.size, n)) = 0
      BY <2>5
    <2>. HIDE DEF found, reach, place
    <2>. QED BY <1>3, <1>4, <1>7, <2>6 DEF place, reach
  <1>11. CASE a.stop \in {"counted", "first"} /\ reach >= Claim(a, v, q, n)
    <2>1. ~v.silent
      BY <1>11 DEF Undisturbed
    <2>2. CASE a.stop = "counted"
      <3>1. Claim(a, v, q, n) = Len(found)
        BY <2>1, <2>2 DEF Claim
      <3>. HIDE DEF found, reach, place
      <3>. QED BY <1>3, <1>4, <1>11, <3>1 DEF place, reach
    <2>3. CASE a.stop = "first"
      <3>1. Claim(a, v, q, n) = Len(Found(a, v, q, 1))
        BY <2>1, <2>3 DEF Claim
      <3>2. PlaceAt(a, v, q, i, 1) <= Len(Found(a, v, q, 1)) /\ Len(Found(a, v, q, 1)) \in Nat
        BY PlaceFacts
      <3>3. PlaceAt(a, v, q, i, 1) = place
        <4>1. v.edit # "insert"
          BY <2>3 DEF Stays
        <4>. QED BY <4>1 DEF PlaceAt, Pushed
      <3>. HIDE DEF found, reach, place
      <3>. QED BY <1>3, <1>4, <1>11, <3>1, <3>2, <3>3 DEF place, reach
    <2>. QED BY <1>11, <2>2, <2>3
  <1>12. CASE a.stop = "known" /\ Claim(a, v, q, n) > 0 /\ reach >= Claim(a, v, q, n)
    <2>1. ~v.silent
      BY <1>12 DEF Claim
    <2>2. Claim(a, v, q, n) = Len(found)
      BY <1>12, <2>1 DEF Claim
    <2>. HIDE DEF found, reach, place
    <2>. QED BY <1>3, <1>4, <1>12, <2>2 DEF place, reach
  <1>13. CASE a.stop = "short" /\ Len(Answer(a, v, q, n)) < Len(Answer(a, v, q, 1))
    <2>1. Answer(a, v, q, 1) = PageOf(Found(a, v, q, 1), v.size, 1)
      BY DEF Answer
    <2>2. PageOf(Found(a, v, q, 1), v.size, 1) \in Seq(Rows) /\ Len(PageOf(Found(a, v, q, 1), v.size, 1)) <= v.size
      <3>1. Found(a, v, q, 1) \in Seq(Rows)
        BY AnswerShape
      <3>. QED BY <1>3, <3>1, PageFacts
    <2>3. Len(PageOf(Found(a, v, q, 1), v.size, 1)) \in Nat
      BY <2>2
    <2>. HIDE DEF found, reach, place
    <2>4. Len(PageOf(found, v.size, n)) < v.size
      BY <1>3, <1>6, <1>7, <1>13, <2>1, <2>2, <2>3
    <2>. QED BY <1>3, <1>4, <1>7, <2>4 DEF place, reach
  <1>14. \/ n = a.cap
         \/ a.empty = "raw" /\ Answer(a, v, q, n) = <<>>
         \/ a.empty = "kept" /\ Keep(a, Answer(a, v, q, n)) = <<>>
         \/ a.stop \in {"counted", "first"} /\ reach >= Claim(a, v, q, n)
         \/ a.stop = "known" /\ Claim(a, v, q, n) > 0 /\ reach >= Claim(a, v, q, n)
         \/ a.stop = "short" /\ Len(Answer(a, v, q, n)) < Len(Answer(a, v, q, 1))
    BY <1>1, <1>2 DEF Ends
  <1>. HIDE DEF found, reach, place
  <1>. QED BY <1>3, <1>8, <1>9, <1>10, <1>11, <1>12, <1>13, <1>14 DEF place, reach

\* A host that throttles less often than is tried again refuses nothing.
LEMMA NotRefused ==
    ASSUME NEW a, AdapterShape(a), NEW v, VisitShape(v), Undisturbed(a, v), NEW q, NEW n
    PROVE  ~Refused(a, v, q, n)
  <1>1. v.throttled < a.attempts /\ v.throttled \in Nat /\ a.attempts \in Nat
    BY DEF Undisturbed, AdapterShape, VisitShape
  <1>. QED BY <1>1 DEF Refused

\* The page that the posting's place is on is read: the first one that reaches
\* its place, and an edit moves it by no more than the place ahead.
LEMMA OnAPage ==
    ASSUME NEW a, AdapterShape(a), NEW v, VisitShape(v), Undisturbed(a, v), NEW q, NEW i, Stays(a, v, q, i)
    PROVE  \E m \in 1 .. LastRequest(a, v, q) : v.board[i] \in ToSet(Answer(a, v, q, m))
  <1>. DEFINE N == LastRequest(a, v, q)
              P(m) == PlaceAt(a, v, q, i, m)
  <1>1. CASE a.stop = "one"
    <2>1. N \in 1 .. a.cap /\ a.cap = 1
      BY <1>1, LastIs DEF AdapterShape
    <2>2. 1 \in 1 .. N
      BY <2>1
    <2>3. P(1) \in Nat \ {0} /\ P(1) <= Len(Found(a, v, q, 1)) /\ Found(a, v, q, 1)[P(1)] = v.board[i]
      BY PlaceFacts
    <2>4. Found(a, v, q, 1) \in Seq(Rows)
      BY AnswerShape
    <2>5. P(1) \in DOMAIN Found(a, v, q, 1)
      BY <2>3, <2>4
    <2>6. Answer(a, v, q, 1) = Found(a, v, q, 1)
      BY <1>1 DEF Answer
    <2>7. v.board[i] \in ToSet(Answer(a, v, q, 1))
      BY <2>3, <2>5, <2>6 DEF ToSet
    <2>. QED BY <2>2, <2>7
  <1>2. CASE a.stop # "one"
    <2>1. N \in Nat \ {0} /\ P(N) <= N * v.size
      BY <1>2, Covered
    <2>. HIDE DEF N
    <2>. DEFINE T == {m \in 1 .. N : P(m) <= m * v.size}
    <2>2. PICK m \in T : \A k \in T : m <= k
      <3>1. N \in T
        BY <2>1
      <3>2. T \in SUBSET Nat
        <4>. HIDE DEF P
        <4>. QED BY <2>1
      <3>. HIDE DEF T
      <3>. QED BY <3>1, <3>2, LeastNat
    <2>3. m \in 1 .. N /\ m \in Nat \ {0} /\ v.size \in Nat \ {0} /\ P(m) <= m * v.size
      <3>1. m \in 1 .. N /\ P(m) <= m * v.size
        BY <2>2
      <3>. QED BY <2>1, <3>1 DEF VisitShape
    <2>4. /\ P(m) \in Nat \ {0} /\ P(m) <= Len(Found(a, v, q, m))
          /\ Found(a, v, q, m)[P(m)] = v.board[i]
          /\ \A k \in 1 .. m : P(k) \in Nat /\ P(k) <= P(m)
      BY <2>3, PlaceFacts
    <2>5. Found(a, v, q, m) \in Seq(Rows)
      BY <2>3, AnswerShape
    <2>6. (m - 1) * v.size < P(m)
      <3>1. CASE m = 1
        <4>1. (m - 1) * v.size = 0
          BY <2>3, <3>1
        <4>. HIDE DEF P
        <4>. QED BY <2>4, <4>1
      <3>2. CASE m # 1
        <4>1. m - 1 \in 1 .. N /\ m - 1 \in 1 .. m /\ ~(m <= m - 1)
          BY <2>1, <2>3, <3>2
        <4>2. m - 1 \notin T
          BY <2>2, <4>1
        <4>3. ~(P(m - 1) <= (m - 1) * v.size)
          <5>. HIDE DEF P
          <5>. QED BY <4>1, <4>2
        <4>4. P(m - 1) \in Nat /\ P(m - 1) <= P(m)
          <5>. HIDE DEF P
          <5>. QED BY <2>4, <4>1
        <4>5. (m - 1) * v.size \in Nat
          <5>1. m - 1 \in Nat
            BY <2>3
          <5>. QED BY <2>3, <5>1
        <4>. DEFINE before == (m - 1) * v.size
        <4>. HIDE DEF P, before
        <4>6. before < P(m)
          BY <2>4, <4>3, <4>4, <4>5 DEF before
        <4>. QED BY <4>6 DEF before
      <3>. QED BY <3>1, <3>2
    <2>7. P(m) \in 1 .. Len(Found(a, v, q, m))
      <3>1. Len(Found(a, v, q, m)) \in Nat
        BY <2>5
      <3>. HIDE DEF P
      <3>. QED BY <2>4, <3>1
    <2>8. Found(a, v, q, m)[P(m)] \in ToSet(PageOf(Found(a, v, q, m), v.size, m))
      <3>. DEFINE found == Found(a, v, q, m)
      <3>. HIDE DEF found, P
      <3>1. /\ found \in Seq(Rows) /\ P(m) \in 1 .. Len(found)
            /\ (m - 1) * v.size < P(m) /\ P(m) <= m * v.size
        BY <2>3, <2>5, <2>6, <2>7 DEF found
      <3>2. found[P(m)] \in ToSet(PageOf(found, v.size, m))
        BY <2>3, <3>1, PageFacts
      <3>. QED BY <3>2 DEF found
    <2>9. Answer(a, v, q, m) = PageOf(Found(a, v, q, m), v.size, m)
      BY <1>2 DEF Answer
    <2>. HIDE DEF P
    <2>10. v.board[i] \in ToSet(Answer(a, v, q, m))
      BY <2>4, <2>8, <2>9
    <2>. QED BY <2>3, <2>10 DEF N
  <1>. QED BY <1>1, <1>2

\* What a page shows is kept but for what is lacking.
LEMMA KeepFacts ==
    ASSUME NEW a, NEW rows \in Seq(Rows), NEW row \in ToSet(rows), row.flaw \notin a.drops
    PROVE  row \in ToSet(Keep(a, rows))
  <1>. DEFINE I == {i \in DOMAIN rows : rows[i].flaw \notin a.drops}
  <1>1. PICK i \in DOMAIN rows : rows[i] = row
    BY DEF ToSet
  <1>2. i \in I /\ I \in SUBSET (DOMAIN rows)
    BY <1>1
  <1>. HIDE DEF I
  <1>3. /\ Cardinality(UpTo(I, i)) \in DOMAIN Pick(rows, I)
        /\ Pick(rows, I)[Cardinality(UpTo(I, i))] = rows[i]
    BY <1>2, PickFacts
  <1>4. row \in ToSet(Pick(rows, I))
    BY <1>1, <1>3 DEF ToSet
  <1>. QED BY <1>4 DEF Keep, I

\* A search answers with the kept rows of its pages.
Requests(a, v, q) ==
    IF Refused(a, v, q, LastRequest(a, v, q)) THEN LastRequest(a, v, q) - 1 ELSE LastRequest(a, v, q)

\* A search holds every row that its pages keep.
LEMMA SearchFacts ==
    ASSUME NEW a, AdapterShape(a), NEW v, VisitShape(v), NEW q
    PROVE  /\ Search(a, v, q) \in Seq(Rows)
           /\ Requests(a, v, q) \in Nat
           /\ \A m \in 1 .. Requests(a, v, q) :
                 ToSet(Keep(a, Answer(a, v, q, m))) \subseteq ToSet(Search(a, v, q))
  <1>. DEFINE R == Requests(a, v, q)
              pages == [m \in 1 .. R |-> Keep(a, Answer(a, v, q, m))]
  <1>1. R \in Nat
    <2>1. LastRequest(a, v, q) \in 1 .. a.cap /\ a.cap \in Nat
      BY LastIs DEF AdapterShape
    <2>. QED BY <2>1 DEF Requests
  <1>2. Search(a, v, q) = FlattenSeq(pages)
    BY DEF Search, Requests
  <1>3. \A m \in 1 .. R : Keep(a, Answer(a, v, q, m)) \in Seq(Rows)
    <2>. HIDE DEF R
    <2>1. \A m \in 1 .. R : m \in Nat \ {0}
      BY <1>1
    <2>. QED BY <2>1, AnswerShape
  <1>4. pages \in Seq(Seq(Rows)) /\ DOMAIN pages = 1 .. R
    <2>. HIDE DEF R
    <2>. QED BY <1>1, <1>3
  <1>5. \A m \in 1 .. R : pages[m] = Keep(a, Answer(a, v, q, m))
    OBVIOUS
  <1>. HIDE DEF pages, R
  <1>6. /\ FlattenSeq(pages) \in Seq(Rows)
        /\ ToSet(FlattenSeq(pages)) = UNION {ToSet(pages[m]) : m \in DOMAIN pages}
    BY <1>4, FlattenFacts
  <1>. QED BY <1>1, <1>2, <1>4, <1>5, <1>6 DEF R

\* A search holds the row of a posting that stays.
LEMMA SearchHolds ==
    ASSUME NEW a, AdapterShape(a), NEW v, VisitShape(v), Undisturbed(a, v), NEW q, NEW i, Stays(a, v, q, i),
           v.board[i].flaw \notin a.drops
    PROVE  v.board[i] \in ToSet(Search(a, v, q))
  <1>1. PICK m \in 1 .. LastRequest(a, v, q) : v.board[i] \in ToSet(Answer(a, v, q, m))
    BY OnAPage
  <1>2. m \in Nat \ {0}
    <2>1. LastRequest(a, v, q) \in 1 .. a.cap /\ a.cap \in Nat
      BY LastIs DEF AdapterShape
    <2>. QED BY <2>1
  <1>3. v.board[i] \in ToSet(Keep(a, Answer(a, v, q, m)))
    BY <1>1, <1>2, AnswerShape, KeepFacts
  <1>4. m \in 1 .. Requests(a, v, q)
    BY <1>1, NotRefused DEF Requests
  <1>. QED BY <1>3, <1>4, SearchFacts

\* Of each key the first row stays.
LEMMA FirstOnlyKeys ==
    ASSUME NEW rows \in Seq(Rows), NEW row \in ToSet(rows)
    PROVE  row.key \in KeysOf(FirstOnly(rows))
  <1>. DEFINE I == {i \in DOMAIN rows : \A j \in 1 .. i - 1 : rows[j].key # rows[i].key}
              Same == {i \in DOMAIN rows : rows[i].key = row.key}
  <1>1. Same \in SUBSET (DOMAIN rows) /\ Same # {}
    BY DEF ToSet
  <1>2. PICK i \in Same : \A j \in Same : i <= j
    <2>1. Same \in SUBSET Nat
      <3>1. DOMAIN rows = 1 .. Len(rows)
        OBVIOUS
      <3>. QED BY <3>1
    <2>. HIDE DEF Same
    <2>. QED BY <1>1, <2>1, LeastNat
  <1>3. i \in DOMAIN rows /\ rows[i].key = row.key
    BY <1>2
  <1>4. \A j \in 1 .. i - 1 : rows[j].key # rows[i].key
    <2>1. DOMAIN rows = 1 .. Len(rows) /\ Len(rows) \in Nat
      OBVIOUS
    <2>2. \A j \in 1 .. i - 1 : j \in DOMAIN rows /\ ~(i <= j)
      BY <1>3, <2>1
    <2>. QED BY <1>2, <1>3, <2>2
  <1>5. i \in I /\ I \in SUBSET (DOMAIN rows)
    BY <1>3, <1>4
  <1>. HIDE DEF I, Same
  <1>6. /\ Cardinality(UpTo(I, i)) \in DOMAIN Pick(rows, I)
        /\ Pick(rows, I)[Cardinality(UpTo(I, i))] = rows[i]
    BY <1>5, PickFacts
  <1>7. rows[i] \in ToSet(FirstOnly(rows))
    BY <1>6 DEF ToSet, FirstOnly, I
  <1>. QED BY <1>3, <1>7 DEF KeysOf

Searches(a) == IF a.searches THEN 4 ELSE 1

\* A reading holds the key of every row of its searches.
LEMMA ReadingFacts ==
    ASSUME NEW a, AdapterShape(a), NEW v, VisitShape(v)
    PROVE  /\ Searches(a) \in Nat
           /\ \A q \in 1 .. Searches(a) : \A row \in ToSet(Search(a, v, q)) :
                 row.key \in KeysOf(Reading(a, v))
  <1>. DEFINE N == Searches(a)
              lists == [q \in 1 .. N |-> Search(a, v, q)]
              rows == FlattenSeq(lists)
  <1>1. N \in Nat
    BY DEF Searches
  <1>2. Reading(a, v) = IF a.once THEN FirstOnly(rows) ELSE rows
    BY DEF Reading, Searches
  <1>3. lists \in Seq(Seq(Rows)) /\ DOMAIN lists = 1 .. N
    <2>. HIDE DEF N
    <2>1. \A q \in 1 .. N : Search(a, v, q) \in Seq(Rows)
      BY SearchFacts
    <2>. QED BY <1>1, <2>1
  <1>4. \A q \in 1 .. N : lists[q] = Search(a, v, q)
    OBVIOUS
  <1>. HIDE DEF lists, N
  <1>5. rows \in Seq(Rows) /\ ToSet(rows) = UNION {ToSet(lists[q]) : q \in DOMAIN lists}
    BY <1>3, FlattenFacts
  <1>. HIDE DEF rows
  <1>6. ASSUME NEW q \in 1 .. N, NEW row \in ToSet(Search(a, v, q))
        PROVE  row.key \in KeysOf(Reading(a, v))
    <2>1. row \in ToSet(rows)
      BY <1>3, <1>4, <1>5, <1>6
    <2>2. CASE a.once
      BY <1>2, <1>5, <2>1, <2>2, FirstOnlyKeys
    <2>3. CASE ~a.once
      BY <1>2, <2>1, <2>3 DEF KeysOf
    <2>. QED BY <2>2, <2>3
  <1>. QED BY <1>1, <1>6 DEF N

\* A posting that stays is in the reading.
LEMMA StaysListed ==
    ASSUME NEW a, AdapterShape(a), NEW v, VisitShape(v), Undisturbed(a, v),
           ~(v.edit = "insert" /\ a.stop = "first"),
           NEW i \in DOMAIN v.board, Listable(a, v.board[i]), ~(v.edit = "remove" /\ v.at <= i)
    PROVE  v.board[i].key \in KeysOf(Reading(a, v))
  <1>1. v.board \in Seq(Rows) /\ v.board[i] \in Rows
    BY DEF VisitShape
  <1>2. \E q \in 1 .. Searches(a) : Stays(a, v, q, i)
    <2>1. CASE a.searches
      <3>1. PICK q \in Queries : q \in v.board[i].queries
        BY <1>1, <2>1 DEF Listable, Rows
      <3>2. q \in 1 .. Searches(a)
        BY <2>1 DEF Searches, Queries
      <3>. QED BY <3>1, <3>2 DEF Stays, Sought
    <2>2. CASE ~a.searches
      <3>1. 1 \in 1 .. Searches(a) /\ 1 \in Queries
        BY <2>2 DEF Searches, Queries
      <3>. QED BY <2>2, <3>1 DEF Stays, Sought
    <2>. QED BY <2>1, <2>2 DEF AdapterShape
  <1>3. PICK q \in 1 .. Searches(a) : Stays(a, v, q, i)
    BY <1>2
  <1>4. v.board[i] \in ToSet(Search(a, v, q))
    BY <1>3, SearchHolds DEF Listable
  <1>. QED BY <1>3, <1>4, ReadingFacts

-----------------------------------------------------------------------------
\* The one request.
LEMMA SingleShape == AdapterShape(Single)
  BY DEF AdapterShape, Single

\* The paging up to a count.
LEMMA PagedShape == ASSUME NEW cap \in Nat \ {0} PROVE AdapterShape(Paged(cap))
  BY DEF AdapterShape, Paged, Single

\* The twenty-eight adapters are adapters.
LEMMA EveryAdapter == \A source \in Sources : AdapterShape(Adapter[source])
  <1>1. AdapterShape(Greenhouse) /\ AdapterShape(Lever)
    BY SingleShape DEF Greenhouse, Lever
  <1>2. AdapterShape(Ashby) /\ AdapterShape(Breezy) /\ AdapterShape(Recruitee)
    BY DEF AdapterShape, Ashby, Breezy, Recruitee, Single
  <1>3. AdapterShape(Tesla) /\ AdapterShape(Wayfair) /\ AdapterShape(Meta)
    BY DEF AdapterShape, Tesla, Wayfair, Meta, Single
  <1>4. /\ AdapterShape(Amazon) /\ AdapterShape(Goldman) /\ AdapterShape(McKinsey)
        /\ AdapterShape(SmartRecruiters) /\ AdapterShape(ByteDance) /\ AdapterShape(Microsoft)
        /\ AdapterShape(IBM)
    BY PagedShape DEF Amazon, Goldman, McKinsey, SmartRecruiters, ByteDance, Microsoft, IBM
  <1>5. AdapterShape(Eightfold) /\ AdapterShape(Phenom) /\ AdapterShape(Pcsx)
    BY DEF AdapterShape, Eightfold, Phenom, Pcsx, Paged, Single
  <1>6. AdapterShape(Paradox) /\ AdapterShape(Apple) /\ AdapterShape(Google)
    BY DEF AdapterShape, Paradox, Apple, Google, Paged, Single
  <1>7. AdapterShape(Radancy) /\ AdapterShape(OracleCloud) /\ AdapterShape(Dassault)
    BY DEF AdapterShape, Radancy, OracleCloud, Dassault, Paged, Single
  <1>8. AdapterShape(ICIMS) /\ AdapterShape(JibeApply) /\ AdapterShape(Algolia) /\ AdapterShape(Workday)
    BY DEF AdapterShape, ICIMS, JibeApply, Algolia, Workday, Paged, Single
  <1>. SUFFICES ASSUME NEW source \in Sources PROVE AdapterShape(Adapter[source])
    OBVIOUS
  <1>9. Adapter[source] \in
          {Greenhouse, Lever, Ashby, Breezy, Recruitee, Tesla, Wayfair, Meta, Amazon, Goldman, McKinsey,
           SmartRecruiters, ByteDance, Microsoft, IBM, Eightfold, Phenom, Pcsx, Paradox, Apple, Google,
           Radancy, OracleCloud, Dassault, ICIMS, JibeApply, Algolia, Workday}
    BY DEF Sources, Adapter
  <1>. QED BY <1>1, <1>2, <1>3, <1>4, <1>5, <1>6, <1>7, <1>8, <1>9

\* The reading is the listing, for nothing is refused.
LEMMA ListTrue == Asked => StayingIsListed
  <1>. SUFFICES ASSUME Asked, Decided("list") PROVE StayingIsListed
    BY DEF StayingIsListed
  <1>. DEFINE a == Adapter[asked.source]
              v == asked.visit
  <1>1. /\ asked.source \in Sources /\ VisitShape(v) /\ answer[1] = List(asked.source, v)
    BY AnswerIs, ListAssumption DEF Cases, Result
  <1>2. AdapterShape(a)
    BY <1>1, EveryAdapter
  <1>3. ASSUME Undisturbed(a, v), ~(v.edit = "insert" /\ a.stop = "first"),
               NEW i \in DOMAIN v.board, Listable(a, v.board[i]), ~(v.edit = "remove" /\ v.at <= i)
        PROVE  v.board[i].key \in KeysOf(answer[1].rows)
    <2>1. v.board[i].key \in KeysOf(Reading(a, v))
      <3>. HIDE DEF a, v
      <3>. QED BY <1>1, <1>2, <1>3, StaysListed
    <2>2. a.needs \subseteq v.extra /\ (a.handshake => v.greets)
      BY <1>3 DEF Undisturbed
    <2>3. ~Refused(a, v, 1, LastRequest(a, v, 1))
      <3>. HIDE DEF a, v
      <3>. QED BY <1>1, <1>2, <1>3, NotRefused
    <2>4. answer[1].rows = Reading(a, v)
      BY <1>1, <2>2, <2>3 DEF List
    <2>. QED BY <2>1, <2>4
  <1>. QED BY <1>3 DEF StayingIsListed

\* StayingIsListed (list_postings): for each of the twenty-eight adapters, boards
\* and pages of any size, and an edit before any request, a posting that stays on
\* its board is listed.
THEOREM StayingListed == Spec => []StayingIsListed
  BY AskedAlways, ListTrue, PTL

\* Of each key the first row stays, and nothing is added.
LEMMA FirstOnlyRange ==
    ASSUME NEW rows \in Seq(Rows)
    PROVE  FirstOnly(rows) \in Seq(Rows) /\ ToSet(FirstOnly(rows)) \subseteq ToSet(rows)
  <1>. DEFINE I == {i \in DOMAIN rows : \A j \in 1 .. i - 1 : rows[j].key # rows[i].key}
  <1>1. I \in SUBSET (DOMAIN rows)
    OBVIOUS
  <1>. HIDE DEF I
  <1>2. Pick(rows, I) \in Seq(Rows) /\ ToSet(Pick(rows, I)) \subseteq ToSet(rows)
    BY <1>1, PickRange
  <1>. QED BY <1>2 DEF FirstOnly, I

\* The first rows of the front are the front of the first rows.
LEMMA FirstOnlyStarts ==
    ASSUME NEW s \in Seq(Rows), NEW t \in Seq(Rows), Starts(s, t)
    PROVE  Starts(FirstOnly(s), FirstOnly(t))
  <1>. DEFINE I == {i \in DOMAIN s : \A j \in 1 .. i - 1 : s[j].key # s[i].key}
              J == {i \in DOMAIN t : \A j \in 1 .. i - 1 : t[j].key # t[i].key}
              p == Pick(s, I)
              o == Pick(t, J)
  <1>0. FirstOnly(s) = p /\ FirstOnly(t) = o
    BY DEF FirstOnly
  <1>1. /\ Len(s) \in Nat /\ Len(t) \in Nat /\ Len(s) <= Len(t)
        /\ DOMAIN s = 1 .. Len(s) /\ DOMAIN t = 1 .. Len(t)
        /\ \A i \in 1 .. Len(s) : t[i] = s[i]
    BY DEF Starts
  <1>2. \A i \in 1 .. Len(s) : i \in I <=> i \in J
    <2>. SUFFICES ASSUME NEW i \in 1 .. Len(s) PROVE i \in I <=> i \in J
      OBVIOUS
    <2>1. i \in DOMAIN t /\ \A j \in 1 .. i - 1 : j \in 1 .. Len(s)
      BY <1>1
    <2>. QED BY <1>1, <2>1
  <1>3. /\ I \in SUBSET (1 .. Len(s)) /\ J \in SUBSET (1 .. Len(t)) /\ I \in SUBSET J
        /\ I \in SUBSET (DOMAIN s) /\ J \in SUBSET (DOMAIN t)
    BY <1>1, <1>2
  <1>. HIDE DEF I, J
  <1>4. \A i \in I : i \in J /\ UpTo(I, i) = UpTo(J, i)
    <2>. SUFFICES ASSUME NEW i \in I PROVE UpTo(I, i) = UpTo(J, i)
      BY <1>3
    <2>1. \A j \in J : j <= i => j \in 1 .. Len(s)
      BY <1>1, <1>3
    <2>. QED BY <1>2, <1>3, <2>1 DEF UpTo
  <1>5. /\ p \in Seq(Rows) /\ Len(p) = Cardinality(I)
        /\ \A k \in DOMAIN p : \E i \in I : p[k] = s[i] /\ Cardinality(UpTo(I, i)) = k
    <2>. HIDE DEF p
    <2>. QED BY <1>3, PickFacts DEF p
  <1>6. /\ o \in Seq(Rows) /\ Len(o) = Cardinality(J)
        /\ \A i \in J : o[Cardinality(UpTo(J, i))] = t[i]
    <2>. HIDE DEF o
    <2>. QED BY <1>3, PickFacts DEF o
  <1>7. Cardinality(I) <= Cardinality(J)
    <2>1. IsFiniteSet(J)
      BY <1>1, <1>3, RankIsBijective
    <2>. QED BY <1>3, <2>1, FS_Subset
  <1>. HIDE DEF p, o
  <1>8. \A k \in 1 .. Len(p) : o[k] = p[k]
    <2>. SUFFICES ASSUME NEW k \in 1 .. Len(p) PROVE o[k] = p[k]
      OBVIOUS
    <2>1. PICK i \in I : p[k] = s[i] /\ Cardinality(UpTo(I, i)) = k
      <3>1. k \in DOMAIN p
        BY <1>5
      <3>. QED BY <1>5, <3>1
    <2>2. o[k] = t[i]
      BY <1>4, <1>6, <2>1
    <2>3. t[i] = s[i]
      BY <1>1, <1>3
    <2>. QED BY <2>1, <2>2, <2>3
  <1>. QED BY <1>0, <1>5, <1>6, <1>7, <1>8 DEF Starts

-----------------------------------------------------------------------------
\* What is listed was on the board, before the edit or after it.
LEMMA AnswerRange ==
    ASSUME NEW a, NEW v, VisitShape(v), NEW q, NEW n \in Nat \ {0}
    PROVE  ToSet(Keep(a, Answer(a, v, q, n))) \subseteq ToSet(v.board) \cup ToSet(BoardAt(v, v.when))
  <1>. DEFINE board == BoardAt(v, n)
              found == Found(a, v, q, n)
              page == Answer(a, v, q, n)
              I == {i \in DOMAIN page : page[i].flaw \notin a.drops}
  <1>1. board \in Seq(Rows) /\ found \in Seq(Rows) /\ page \in Seq(Rows)
    BY AnswerShape
  <1>2. ToSet(found) \subseteq ToSet(board)
    <2>1. Sought(a, board, q) \in SUBSET (DOMAIN board)
      BY DEF Sought
    <2>2. ToSet(Pick(board, Sought(a, board, q))) \subseteq ToSet(board)
      <3>. HIDE DEF board
      <3>. QED BY <1>1, <2>1, PickRange
    <2>. QED BY <2>2 DEF Found, Sought
  <1>3. ToSet(page) \subseteq ToSet(found)
    <2>1. v.size \in Nat \ {0}
      BY DEF VisitShape
    <2>2. ToSet(PageOf(found, v.size, n)) \subseteq ToSet(found)
      <3>. HIDE DEF found
      <3>. QED BY <1>1, <2>1, PageFacts
    <2>. QED BY <2>2 DEF Answer
  <1>4. ToSet(Keep(a, page)) \subseteq ToSet(page)
    <2>1. I \in SUBSET (DOMAIN page)
      OBVIOUS
    <2>2. Keep(a, page) = Pick(page, I)
      BY DEF Keep
    <2>. HIDE DEF page, I
    <2>. QED BY <1>1, <2>1, <2>2, PickRange
  <1>5. PICK m \in {1, v.when} : board = BoardAt(v, m)
    BY BoardTwice
  <1>6. board = v.board \/ board = BoardAt(v, v.when)
    <2>1. CASE m = 1
      <3>1. v.when \in Nat \ {0} /\ (v.when = 1 \/ 1 < v.when)
        BY DEF VisitShape
      <3>. QED BY <1>5, <2>1, <3>1 DEF BoardAt
    <2>. QED BY <1>5, <2>1
  <1>. HIDE DEF board, found, page
  <1>7. ToSet(board) \subseteq ToSet(v.board) \cup ToSet(BoardAt(v, v.when))
    BY <1>6
  <1>. QED BY <1>2, <1>3, <1>4, <1>7 DEF page

PagesKept(a, v, q, r) == [m \in 1 .. r |-> Keep(a, Answer(a, v, q, m))]

\* A search is its pages one after the other, of rows that were on the board.
LEMMA SearchIs ==
    ASSUME NEW a, AdapterShape(a), NEW v, VisitShape(v), NEW q
    PROVE  /\ Search(a, v, q) = FlattenSeq(PagesKept(a, v, q, Requests(a, v, q)))
           /\ ToSet(Search(a, v, q)) \subseteq ToSet(v.board) \cup ToSet(BoardAt(v, v.when))
           /\ \A r \in Nat : PagesKept(a, v, q, r) \in Seq(Seq(Rows)) /\ Len(PagesKept(a, v, q, r)) = r
  <1>1. Search(a, v, q) = FlattenSeq(PagesKept(a, v, q, Requests(a, v, q)))
    BY DEF Search, Requests, PagesKept
  <1>2. \A r \in Nat : PagesKept(a, v, q, r) \in Seq(Seq(Rows)) /\ Len(PagesKept(a, v, q, r)) = r
    <2>. SUFFICES ASSUME NEW r \in Nat
                  PROVE PagesKept(a, v, q, r) \in Seq(Seq(Rows)) /\ Len(PagesKept(a, v, q, r)) = r
      OBVIOUS
    <2>1. \A m \in 1 .. r : Keep(a, Answer(a, v, q, m)) \in Seq(Rows)
      <3>1. \A m \in 1 .. r : m \in Nat \ {0}
        OBVIOUS
      <3>. QED BY <3>1, AnswerShape
    <2>. QED BY <2>1 DEF PagesKept
  <1>3. ToSet(Search(a, v, q)) \subseteq ToSet(v.board) \cup ToSet(BoardAt(v, v.when))
    <2>. DEFINE R == Requests(a, v, q)
                pages == PagesKept(a, v, q, R)
    <2>1. R \in Nat
      BY SearchFacts
    <2>. HIDE DEF R
    <2>2. pages \in Seq(Seq(Rows)) /\ DOMAIN pages = 1 .. R
      BY <1>2, <2>1
    <2>3. \A m \in 1 .. R : ToSet(pages[m]) \subseteq ToSet(v.board) \cup ToSet(BoardAt(v, v.when))
      <3>. SUFFICES ASSUME NEW m \in 1 .. R
                    PROVE ToSet(pages[m]) \subseteq ToSet(v.board) \cup ToSet(BoardAt(v, v.when))
        OBVIOUS
      <3>1. m \in Nat \ {0}
        BY <2>1
      <3>2. pages[m] = Keep(a, Answer(a, v, q, m))
        BY DEF PagesKept
      <3>. HIDE DEF pages
      <3>. QED BY <3>1, <3>2, AnswerRange
    <2>. HIDE DEF pages
    <2>4. ToSet(FlattenSeq(pages)) = UNION {ToSet(pages[m]) : m \in DOMAIN pages}
      BY <2>2, FlattenFacts
    <2>. QED BY <1>1, <2>2, <2>3, <2>4 DEF pages, R
  <1>. QED BY <1>1, <1>2, <1>3

-----------------------------------------------------------------------------
\* Of the visit a request of which is never refused the rest is the same.
LEMMA UnthrottledSame ==
    ASSUME NEW a, AdapterShape(a), NEW v, VisitShape(v), NEW q
    PROVE  LET w == Unthrottled(v)
           IN  /\ VisitShape(w) /\ w.extra = v.extra /\ w.greets = v.greets
               /\ \A n \in Nat : /\ ~Refused(a, w, q, n) /\ Answer(a, w, q, n) = Answer(a, v, q, n)
                                 /\ Ends(a, w, q, n) = Ends(a, v, q, n)
  <1>. DEFINE w == Unthrottled(v)
  <1>1. /\ VisitShape(w) /\ w.extra = v.extra /\ w.greets = v.greets /\ w.size = v.size
        /\ w.silent = v.silent /\ w.throttled = 0 /\ w.board = v.board /\ w.edit = v.edit
        /\ w.when = v.when /\ w.at = v.at
    BY DEF VisitShape, Unthrottled
  <1>. HIDE DEF w
  <1>2. \A n \in Nat : BoardAt(w, n) = BoardAt(v, n)
    BY <1>1 DEF BoardAt
  <1>3. \A n \in Nat : Found(a, w, q, n) = Found(a, v, q, n)
    BY <1>2 DEF Found
  <1>4. \A n \in Nat : Answer(a, w, q, n) = Answer(a, v, q, n)
    BY <1>1, <1>3 DEF Answer
  <1>5. \A n \in Nat : Claim(a, w, q, n) = Claim(a, v, q, n)
    BY <1>1, <1>3 DEF Claim
  <1>6. \A n \in Nat : Ends(a, w, q, n) = Ends(a, v, q, n)
    <2>. SUFFICES ASSUME NEW n \in Nat PROVE Ends(a, w, q, n) = Ends(a, v, q, n)
      OBVIOUS
    <2>1. /\ Answer(a, w, q, n) = Answer(a, v, q, n) /\ Answer(a, w, q, 1) = Answer(a, v, q, 1)
          /\ Claim(a, w, q, n) = Claim(a, v, q, n)
      BY <1>4, <1>5
    <2>. QED BY <1>1, <2>1 DEF Ends
  <1>7. \A n \in Nat : ~Refused(a, w, q, n)
    <2>1. a.attempts \in Nat \ {0}
      BY DEF AdapterShape
    <2>. QED BY <1>1, <2>1 DEF Refused
  <1>. QED BY <1>1, <1>4, <1>6, <1>7 DEF w

\* A refusal ends a search no later.
LEMMA RequestsFewer ==
    ASSUME NEW a, AdapterShape(a), NEW v, VisitShape(v), NEW q
    PROVE  Requests(a, v, q) \in 0 .. Requests(a, Unthrottled(v), q)
  <1>. DEFINE w == Unthrottled(v)
              N == LastRequest(a, v, q)
              M == LastRequest(a, w, q)
  <1>1. /\ N \in 1 .. a.cap /\ M \in 1 .. a.cap /\ a.cap \in Nat
        /\ M = a.cap \/ Refused(a, w, q, M) \/ Ends(a, w, q, M)
        /\ \A m \in 1 .. N - 1 : ~Ends(a, v, q, m)
    BY LastIs DEF AdapterShape
  <1>2. ~Refused(a, w, q, M) /\ Ends(a, w, q, M) = Ends(a, v, q, M)
    <2>1. M \in Nat
      BY <1>1
    <2>. HIDE DEF M
    <2>. QED BY <2>1, UnthrottledSame
  <1>3. Requests(a, w, q) = M
    BY <1>2 DEF Requests
  <1>4. Requests(a, v, q) = N \/ Requests(a, v, q) = N - 1
    BY DEF Requests
  <1>. HIDE DEF N, M, w
  <1>5. N <= M
    <2>1. M = a.cap \/ ~(M \in 1 .. N - 1)
      BY <1>1, <1>2
    <2>. QED BY <1>1, <2>1
  <1>. QED BY <1>1, <1>3, <1>4, <1>5 DEF w

\* A search cut short is the front of the whole one.
LEMMA SearchStarts ==
    ASSUME NEW a, AdapterShape(a), NEW v, VisitShape(v), NEW q
    PROVE  Starts(Search(a, v, q), Search(a, Unthrottled(v), q))
  <1>. DEFINE w == Unthrottled(v)
              r == Requests(a, v, q)
              R == Requests(a, w, q)
              pages == PagesKept(a, w, q, R)
  <1>1. VisitShape(w) /\ \A n \in Nat : Answer(a, w, q, n) = Answer(a, v, q, n)
    BY UnthrottledSame
  <1>. HIDE DEF w
  <1>2. r \in 0 .. R /\ R \in Nat
    <2>1. R \in Nat
      BY <1>1, SearchFacts
    <2>. QED BY <2>1, RequestsFewer DEF w
  <1>. HIDE DEF r, R
  <1>3. pages \in Seq(Seq(Rows)) /\ Len(pages) = R
    BY <1>1, <1>2, SearchIs
  <1>4. [m \in 1 .. r |-> pages[m]] = PagesKept(a, v, q, r)
    <2>1. \A m \in 1 .. r : m \in 1 .. R /\ m \in Nat
      BY <1>2
    <2>2. \A m \in 1 .. r : pages[m] = Keep(a, Answer(a, v, q, m))
      BY <1>1, <2>1 DEF PagesKept
    <2>. HIDE DEF pages
    <2>. QED BY <2>2 DEF PagesKept
  <1>5. Search(a, v, q) = FlattenSeq(PagesKept(a, v, q, r)) /\ Search(a, w, q) = FlattenSeq(pages)
    BY <1>1, SearchIs DEF r, R
  <1>. HIDE DEF pages
  <1>6. Starts(FlattenSeq([m \in 1 .. r |-> pages[m]]), FlattenSeq(pages))
    BY <1>2, <1>3, FlattenFront
  <1>. QED BY <1>4, <1>5, <1>6 DEF w

-----------------------------------------------------------------------------
\* What the searches of a listing answer, one after the other.
AllFound(a, v) == FlattenSeq([q \in 1 .. Searches(a) |-> Search(a, v, q)])

\* A reading is what its searches find, of each key once for some adapters.
LEMMA AllFoundFacts ==
    ASSUME NEW a, AdapterShape(a), NEW v, VisitShape(v)
    PROVE  /\ AllFound(a, v) \in Seq(Rows)
           /\ ToSet(AllFound(a, v)) = UNION {ToSet(Search(a, v, q)) : q \in 1 .. Searches(a)}
           /\ Reading(a, v) = IF a.once THEN FirstOnly(AllFound(a, v)) ELSE AllFound(a, v)
           /\ ~a.searches => AllFound(a, v) = Search(a, v, 1)
  <1>. DEFINE N == Searches(a)
              lists == [q \in 1 .. N |-> Search(a, v, q)]
  <1>1. N \in Nat
    BY DEF Searches
  <1>2. Reading(a, v) = IF a.once THEN FirstOnly(AllFound(a, v)) ELSE AllFound(a, v)
    BY DEF Reading, Searches, AllFound
  <1>3. lists \in Seq(Seq(Rows)) /\ Len(lists) = N /\ DOMAIN lists = 1 .. N
    <2>. HIDE DEF N
    <2>1. \A q \in 1 .. N : Search(a, v, q) \in Seq(Rows)
      BY SearchFacts
    <2>. QED BY <1>1, <2>1
  <1>4. \A q \in 1 .. N : lists[q] = Search(a, v, q)
    OBVIOUS
  <1>5. AllFound(a, v) = FlattenSeq(lists)
    BY DEF AllFound
  <1>. HIDE DEF lists
  <1>6. /\ FlattenSeq(lists) \in Seq(Rows)
        /\ ToSet(FlattenSeq(lists)) = UNION {ToSet(lists[q]) : q \in DOMAIN lists}
    BY <1>3, FlattenFacts
  <1>7. ASSUME ~a.searches PROVE FlattenSeq(lists) = Search(a, v, 1)
    <2>1. Len(lists) = 1 /\ N = 1 /\ 1 \in Nat
      BY <1>3, <1>7 DEF Searches
    <2>. HIDE DEF N
    <2>2. /\ Flattens(lists, Flat(lists), Len(lists))
          /\ Len(lists) # 0 => FlattenSeq(lists) = Flat(lists)[Len(lists)]
      BY <2>1, FlatIs
    <2>. QED BY <1>4, <2>1, <2>2 DEF Flattens
  <1>. QED BY <1>2, <1>3, <1>4, <1>5, <1>6, <1>7

\* A reading holds nothing that was never on the board.
LEMMA ReadingRange ==
    ASSUME NEW a, AdapterShape(a), NEW v, VisitShape(v)
    PROVE  ToSet(Reading(a, v)) \subseteq ToSet(v.board) \cup ToSet(BoardAt(v, v.when))
  <1>1. ToSet(AllFound(a, v)) \subseteq ToSet(v.board) \cup ToSet(BoardAt(v, v.when))
    <2>1. \A q \in 1 .. Searches(a) :
             ToSet(Search(a, v, q)) \subseteq ToSet(v.board) \cup ToSet(BoardAt(v, v.when))
      BY SearchIs
    <2>. QED BY <2>1, AllFoundFacts
  <1>2. ToSet(Reading(a, v)) \subseteq ToSet(AllFound(a, v))
    BY AllFoundFacts, FirstOnlyRange
  <1>. QED BY <1>1, <1>2

\* With one search, a reading cut short is the front of the whole one.
LEMMA ReadingStarts ==
    ASSUME NEW a, AdapterShape(a), NEW v, VisitShape(v), ~a.searches
    PROVE  /\ Reading(a, v) \in Seq(Rows) /\ Reading(a, Unthrottled(v)) \in Seq(Rows)
           /\ Starts(Reading(a, v), Reading(a, Unthrottled(v)))
  <1>. DEFINE w == Unthrottled(v)
              s == AllFound(a, v)
              t == AllFound(a, w)
  <1>1. VisitShape(w)
    BY UnthrottledSame
  <1>. HIDE DEF w
  <1>2. s \in Seq(Rows) /\ t \in Seq(Rows)
    BY <1>1, AllFoundFacts
  <1>3. Starts(s, t)
    <2>1. Starts(Search(a, v, 1), Search(a, w, 1))
      BY SearchStarts DEF w
    <2>. QED BY <1>1, <2>1, AllFoundFacts
  <1>4. /\ Reading(a, v) = IF a.once THEN FirstOnly(s) ELSE s
        /\ Reading(a, w) = IF a.once THEN FirstOnly(t) ELSE t
    BY <1>1, AllFoundFacts
  <1>. HIDE DEF s, t
  <1>5. FirstOnly(s) \in Seq(Rows) /\ FirstOnly(t) \in Seq(Rows) /\ Starts(FirstOnly(s), FirstOnly(t))
    BY <1>2, <1>3, FirstOnlyRange, FirstOnlyStarts
  <1>. QED BY <1>2, <1>3, <1>4, <1>5 DEF w

\* With several, its postings are among those of the whole one.
LEMMA ReadingKeys ==
    ASSUME NEW a, AdapterShape(a), NEW v, VisitShape(v)
    PROVE  KeysOf(Reading(a, v)) \subseteq KeysOf(Reading(a, Unthrottled(v)))
  <1>. DEFINE w == Unthrottled(v)
  <1>1. VisitShape(w)
    BY UnthrottledSame
  <1>2. ASSUME NEW row \in ToSet(Reading(a, v)) PROVE row.key \in KeysOf(Reading(a, w))
    <2>1. row \in ToSet(AllFound(a, v))
      BY AllFoundFacts, FirstOnlyRange
    <2>2. PICK q \in 1 .. Searches(a) : row \in ToSet(Search(a, v, q))
      BY <2>1, AllFoundFacts
    <2>3. row \in ToSet(Search(a, w, q))
      <3>1. Starts(Search(a, v, q), Search(a, w, q))
        BY SearchStarts
      <3>. HIDE DEF w
      <3>2. Search(a, v, q) \in Seq(Rows) /\ Search(a, w, q) \in Seq(Rows)
        BY <1>1, SearchFacts
      <3>. QED BY <2>2, <3>1, <3>2, StartsSubset
    <2>. HIDE DEF w
    <2>. QED BY <1>1, <2>3, ReadingFacts
  <1>. QED BY <1>2 DEF KeysOf

\* The readings are the listings, but for an error.
LEMMA CutTrue == Asked => CutKeepsTheFront
  <1>. SUFFICES ASSUME Asked, Decided("list") PROVE CutKeepsTheFront
    BY DEF CutKeepsTheFront
  <1>. DEFINE a == Adapter[asked.source]
              v == asked.visit
              w == Unthrottled(v)
              rows == answer[1].rows
              whole == List(asked.source, w)
  <1>1. asked.source \in Sources /\ VisitShape(v) /\ answer[1] = List(asked.source, v)
    BY AnswerIs, ListAssumption DEF Cases, Result
  <1>2. AdapterShape(a)
    BY <1>1, EveryAdapter
  <1>3. w.extra = v.extra /\ w.greets = v.greets /\ ~Refused(a, w, 1, LastRequest(a, w, 1))
    <2>. HIDE DEF a, v
    <2>1. VisitShape(w)
      BY <1>1, <1>2, UnthrottledSame
    <2>2. LastRequest(a, w, 1) \in Nat
      <3>1. LastRequest(a, w, 1) \in 1 .. a.cap /\ a.cap \in Nat
        BY <1>2, LastIs DEF AdapterShape
      <3>. QED BY <3>1
    <2>. QED BY <1>1, <1>2, <2>2, UnthrottledSame
  <1>4. /\ ToSet(Reading(a, v)) \subseteq ToSet(v.board) \cup ToSet(BoardAt(v, v.when))
        /\ KeysOf(Reading(a, v)) \subseteq KeysOf(Reading(a, w))
        /\ ~a.searches => IsPrefix(Reading(a, v), Reading(a, w))
    <2>. HIDE DEF a, v
    <2>. QED BY <1>1, <1>2, ReadingRange, ReadingKeys, ReadingStarts, FrontIsPrefix
  <1>5. ToSet(<<>>) = {} /\ KeysOf(<<>>) = {} /\ IsPrefix(<<>>, <<>>)
    <2>1. ToSet(<<>>) = {}
      BY DEF ToSet
    <2>. QED BY <2>1 DEF KeysOf, IsPrefix
  <1>6. CASE answer[1].error
    <2>1. rows = <<>>
      BY <1>1, <1>6 DEF List
    <2>. QED BY <1>5, <1>6, <2>1 DEF CutKeepsTheFront
  <1>7. CASE ~answer[1].error
    <2>1. /\ rows = IF a.handshake /\ ~v.greets THEN <<>> ELSE Reading(a, v)
          /\ a.needs \subseteq v.extra
      BY <1>1, <1>7 DEF List
    <2>2. whole.rows = IF a.handshake /\ ~v.greets THEN <<>> ELSE Reading(a, w)
      <3>. HIDE DEF v, w
      <3>. QED BY <1>3, <2>1 DEF List
    <2>3. /\ ToSet(rows) \subseteq ToSet(v.board) \cup ToSet(BoardAt(v, v.when))
          /\ IF a.searches THEN KeysOf(rows) \subseteq KeysOf(whole.rows) ELSE IsPrefix(rows, whole.rows)
      <3>. HIDE DEF a, v, w, rows, whole
      <3>. QED BY <1>4, <1>5, <2>1, <2>2
    <2>. QED BY <1>7, <2>3 DEF CutKeepsTheFront
  <1>. QED BY <1>6, <1>7

\* CutKeepsTheFront (list_postings): wherever the host refuses a request, the
\* listing is an error or the front of the whole one, and of what was on the board.
THEOREM CutListingIsFront == Spec => []CutKeepsTheFront
  BY AskedAlways, CutTrue, PTL

-----------------------------------------------------------------------------
(* Sponsors.                                                                *)

ApprovalsOf(rows) == [r \in rows |-> r.approvals]
DenialsOf(rows) == [r \in rows |-> r.denials]

\* One more row adds its approvals to the sum.
LEMMA ApprovalsMore ==
    ASSUME NEW rows, IsFiniteSet(rows), \A x \in rows : x.approvals \in Nat,
           NEW q, q.approvals \in Nat, q \notin rows
    PROVE  Approvals(rows \cup {q}) = q.approvals + Approvals(rows) /\ Approvals(rows) \in Nat
  <1>. DEFINE all == rows \cup {q}
              f == ApprovalsOf(rows)
              e == ApprovalsOf(all)
  <1>1. IsFiniteSet(all)
    BY FS_AddElement
  <1>2. Approvals(rows) = SumFunction(f) /\ Approvals(all) = SumFunction(e)
    BY DEF Approvals, ApprovalsOf
  <1>3. /\ DOMAIN f = rows /\ DOMAIN e = all /\ q \in all /\ rows = all \ {q}
        /\ \A x \in rows : f[x] = x.approvals
        /\ \A x \in all : e[x] = x.approvals /\ e[x] \in Nat
    BY DEF ApprovalsOf
  <1>. HIDE DEF all, f, e
  <1>4. SumFunction(e) = e[q] + SumFunction(f) /\ SumFunction(f) \in Nat
    <2>1. \A x \in rows : f[x] = e[x] /\ f[x] \in Nat
      BY <1>3
    <2>. QED BY <1>1, <1>3, <2>1, SumOfOneMore
  <1>. QED BY <1>2, <1>3, <1>4 DEF all

\* One more row adds its denials to the sum.
LEMMA DenialsMore ==
    ASSUME NEW rows, IsFiniteSet(rows), \A x \in rows : x.denials \in Nat,
           NEW q, q.denials \in Nat, q \notin rows
    PROVE  Denials(rows \cup {q}) = q.denials + Denials(rows) /\ Denials(rows) \in Nat
  <1>. DEFINE all == rows \cup {q}
              f == DenialsOf(rows)
              e == DenialsOf(all)
  <1>1. IsFiniteSet(all)
    BY FS_AddElement
  <1>2. Denials(rows) = SumFunction(f) /\ Denials(all) = SumFunction(e)
    BY DEF Denials, DenialsOf
  <1>3. /\ DOMAIN f = rows /\ DOMAIN e = all /\ q \in all /\ rows = all \ {q}
        /\ \A x \in rows : f[x] = x.denials
        /\ \A x \in all : e[x] = x.denials /\ e[x] \in Nat
    BY DEF DenialsOf
  <1>. HIDE DEF all, f, e
  <1>4. SumFunction(e) = e[q] + SumFunction(f) /\ SumFunction(f) \in Nat
    <2>1. \A x \in rows : f[x] = e[x] /\ f[x] \in Nat
      BY <1>3
    <2>. QED BY <1>1, <1>3, <2>1, SumOfOneMore
  <1>. QED BY <1>2, <1>3, <1>4 DEF all

\* The rows of the index that count for the keys, by the rows of the files.
Counts(r, answered, keys) == r.year \in Window(answered) /\ normalize_name(r.name) # <<>> /\ normalize_name(r.name) \in keys
Renamed(r) == [r EXCEPT !.name = normalize_name(@)]

\* The rows of the index under some keys are the rows of the files that count.
LEMMA CountedRows ==
    ASSUME NEW rows, NEW answered, NEW keys, \A r \in rows : Renamed(r).name = normalize_name(r.name)
    PROVE  Of(build_index(rows, answered), keys) = {Renamed(r) : r \in {r \in rows : Counts(r, answered, keys)}}
  <1>. DEFINE kept == {r \in rows : r.year \in Window(answered) /\ normalize_name(r.name) # <<>>}
  <1>1. build_index(rows, answered).rows = {Renamed(r) : r \in kept}
    BY DEF build_index, Renamed
  <1>2. Of(build_index(rows, answered), keys) = {x \in {Renamed(r) : r \in kept} : x.name \in keys}
    BY <1>1 DEF Of
  <1>3. {x \in {Renamed(r) : r \in kept} : x.name \in keys} = {Renamed(r) : r \in {r \in rows : Counts(r, answered, keys)}}
    BY DEF Counts
  <1>. QED BY <1>2, <1>3

More(r, more) == [r EXCEPT !.approvals = @ + more]
WithMore(rows, r, more) == (rows \ {r}) \cup {More(r, more)}

\* Normalizing the name and adding approvals change nothing else of a row.
LEMMA RenamedIs ==
    ASSUME NEW ids, NEW years, NEW names, NEW r \in FileRow(ids, years, names), NEW more \in Nat
    PROVE  /\ Renamed(r).id = r.id /\ Renamed(r).year = r.year /\ Renamed(r).approvals = r.approvals
           /\ Renamed(r).denials = r.denials /\ Renamed(r).name = normalize_name(r.name)
           /\ r.approvals \in Nat /\ r.denials \in Nat
           /\ More(r, more) \in FileRow(ids, years, names)
           /\ More(r, more).id = r.id /\ More(r, more).year = r.year /\ More(r, more).name = r.name
           /\ More(r, more).approvals = r.approvals + more /\ More(r, more).denials = r.denials
  <1>1. r = [id |-> r.id, year |-> r.year, name |-> r.name, approvals |-> r.approvals, denials |-> r.denials]
        /\ r.approvals \in Nat /\ r.denials \in Nat /\ r.id \in ids /\ r.year \in years /\ r.name \in names
    BY DEF FileRow
  <1>2. More(r, more) = [id |-> r.id, year |-> r.year, name |-> r.name, approvals |-> r.approvals + more, denials |-> r.denials]
    BY <1>1 DEF More
  <1>3. r.approvals + more \in Nat
    BY <1>1
  <1>4. More(r, more) \in FileRow(ids, years, names)
    BY <1>1, <1>2, <1>3 DEF FileRow
  <1>5. Renamed(r) = [id |-> r.id, year |-> r.year, name |-> normalize_name(r.name), approvals |-> r.approvals, denials |-> r.denials]
    <2>. DEFINE n == normalize_name(r.name)
    <2>1. Renamed(r) = [r EXCEPT !.name = n]
      BY DEF Renamed
    <2>. HIDE DEF n
    <2>2. [r EXCEPT !.name = n] = [id |-> r.id, year |-> r.year, name |-> n, approvals |-> r.approvals, denials |-> r.denials]
      BY <1>1
    <2>. QED BY <2>1, <2>2 DEF n
  <1>. QED BY <1>1, <1>2, <1>4, <1>5

\* The rows that count, of the files with and without the additional approvals.
LEMMA CountedMore ==
    ASSUME NEW rows, RowShape(rows), NEW r \in rows, NEW more \in Nat, NEW answered, NEW keys
    PROVE  LET before == Of(build_index(rows, answered), keys)
               after == Of(build_index(WithMore(rows, r, more), answered), keys)
           IN  /\ Approvals(before) \in Nat /\ Approvals(after) \in Nat /\ Denials(before) \in Nat
               /\ Approvals(before) <= Approvals(after) /\ Denials(after) = Denials(before)
               /\ \A x \in before : \E y \in after : y.year = x.year /\ (x.approvals > 0 => y.approvals > 0)
  <1>. DEFINE before == Of(build_index(rows, answered), keys)
              after == Of(build_index(WithMore(rows, r, more), answered), keys)
              Sel(x) == Counts(x, answered, keys)
              q == Renamed(r)
              q2 == Renamed(More(r, more))
              rest == {Renamed(x) : x \in {x \in rows \ {r} : Sel(x)}}
  <1>. DEFINE ids == {x.id : x \in rows}
              years == {x.year : x \in rows}
              names == {x.name : x \in rows}
  <1>1. \A x \in rows : x \in FileRow(ids, years, names)
    BY DEF RowShape
  <1>2. More(r, more) \in FileRow(ids, years, names)
    <2>. HIDE DEF ids, years, names
    <2>. QED BY <1>1, RenamedIs
  <1>3. \A x \in WithMore(rows, r, more) : x \in FileRow(ids, years, names)
    BY <1>1, <1>2 DEF WithMore
  <1>. HIDE DEF ids, years, names
  <1>4. before = {Renamed(x) : x \in {x \in rows : Sel(x)}}
    <2>1. \A x \in rows : Renamed(x).name = normalize_name(x.name)
      BY <1>1, RenamedIs
    <2>. QED BY <2>1, CountedRows
  <1>5. after = {Renamed(x) : x \in {x \in WithMore(rows, r, more) : Sel(x)}}
    <2>1. \A x \in WithMore(rows, r, more) : Renamed(x).name = normalize_name(x.name)
      BY <1>3, RenamedIs
    <2>. QED BY <2>1, CountedRows
  <1>6. Sel(More(r, more)) <=> Sel(r)
    BY <1>1, RenamedIs DEF Counts
  <1>7. /\ q.id = r.id /\ q2.id = r.id /\ q.year = r.year /\ q2.year = r.year
        /\ q.approvals \in Nat /\ q2.approvals = q.approvals + more /\ q.denials \in Nat /\ q2.denials = q.denials
    <2>1. /\ q.id = r.id /\ q.year = r.year /\ q.approvals = r.approvals /\ q.denials = r.denials
          /\ r.approvals \in Nat /\ r.denials \in Nat
          /\ More(r, more).id = r.id /\ More(r, more).year = r.year
          /\ More(r, more).approvals = r.approvals + more /\ More(r, more).denials = r.denials
      BY <1>1, RenamedIs
    <2>2. /\ q2.id = More(r, more).id /\ q2.year = More(r, more).year
          /\ q2.approvals = More(r, more).approvals /\ q2.denials = More(r, more).denials
      BY <1>2, RenamedIs
    <2>. QED BY <2>1, <2>2
  <1>8. \A y \in rest : y.id # r.id /\ y.approvals \in Nat /\ y.denials \in Nat
    <2>1. ASSUME NEW x \in rows \ {r} PROVE Renamed(x).id # r.id /\ Renamed(x).approvals \in Nat /\ Renamed(x).denials \in Nat
      <3>1. x \in rows /\ x.id # r.id
        BY DEF RowShape
      <3>2. Renamed(x).id = x.id /\ Renamed(x).approvals = x.approvals /\ Renamed(x).denials = x.denials
            /\ x.approvals \in Nat /\ x.denials \in Nat
        BY <1>1, <3>1, RenamedIs
      <3>. QED BY <3>1, <3>2
    <2>. QED BY <2>1
  <1>9. IsFiniteSet(rest)
    <2>1. IsFiniteSet({x \in rows \ {r} : Sel(x)})
      BY FS_Subset DEF RowShape
    <2>. DEFINE f == [x \in {x \in rows \ {r} : Sel(x)} |-> Renamed(x)]
    <2>2. rest = {f[x] : x \in DOMAIN f} /\ DOMAIN f = {x \in rows \ {r} : Sel(x)}
      OBVIOUS
    <2>3. f \in Surjection(DOMAIN f, rest)
      <3>. HIDE DEF Sel
      <3>. QED BY <2>2 DEF Surjection
    <2>. HIDE DEF f, Sel
    <2>. QED BY <2>1, <2>2, <2>3, FS_Surjection
  <1>10. Approvals(rest) \in Nat /\ Denials(rest) \in Nat
         /\ Approvals(rest \cup {q}) = q.approvals + Approvals(rest)
         /\ Approvals(rest \cup {q2}) = q2.approvals + Approvals(rest)
         /\ Denials(rest \cup {q}) = q.denials + Denials(rest)
         /\ Denials(rest \cup {q2}) = q2.denials + Denials(rest)
    <2>1. q \notin rest /\ q2 \notin rest
      BY <1>7, <1>8
    <2>2. q.approvals \in Nat /\ q2.approvals \in Nat /\ q.denials \in Nat /\ q2.denials \in Nat
      BY <1>7
    <2>. HIDE DEF rest, q, q2
    <2>3. /\ Approvals(rest \cup {q}) = q.approvals + Approvals(rest)
          /\ Approvals(rest \cup {q2}) = q2.approvals + Approvals(rest) /\ Approvals(rest) \in Nat
      BY <1>8, <1>9, <2>1, <2>2, ApprovalsMore
    <2>4. /\ Denials(rest \cup {q}) = q.denials + Denials(rest)
          /\ Denials(rest \cup {q2}) = q2.denials + Denials(rest) /\ Denials(rest) \in Nat
      BY <1>8, <1>9, <2>1, <2>2, DenialsMore
    <2>. QED BY <2>3, <2>4
  <1>11. CASE Sel(r)
    <2>1. before = rest \cup {q} /\ after = rest \cup {q2}
      <3>1. {x \in rows : Sel(x)} = {x \in rows \ {r} : Sel(x)} \cup {r}
        BY <1>11
      <3>2. {x \in WithMore(rows, r, more) : Sel(x)} = {x \in rows \ {r} : Sel(x)} \cup {More(r, more)}
        <4>. HIDE DEF Sel
        <4>. QED BY <1>6, <1>11 DEF WithMore
      <3>. HIDE DEF Sel, before, after
      <3>3. before = rest \cup {q}
        BY <1>4, <3>1
      <3>4. after = rest \cup {q2}
        BY <1>5, <3>2
      <3>. QED BY <3>3, <3>4
    <2>. HIDE DEF before, after, rest, q, q2
    <2>2. \A x \in before : \E y \in after : y.year = x.year /\ (x.approvals > 0 => y.approvals > 0)
      BY <1>7, <2>1
    <2>3. Approvals(before) \in Nat /\ Approvals(after) \in Nat /\ Denials(before) \in Nat
          /\ Approvals(before) <= Approvals(after) /\ Denials(after) = Denials(before)
      BY <1>7, <1>10, <2>1
    <2>. QED BY <2>2, <2>3 DEF before, after
  <1>12. CASE ~Sel(r)
    <2>1. before = rest /\ after = rest
      <3>1. {x \in rows : Sel(x)} = {x \in rows \ {r} : Sel(x)}
        BY <1>12
      <3>2. {x \in WithMore(rows, r, more) : Sel(x)} = {x \in rows \ {r} : Sel(x)}
        <4>. HIDE DEF Sel
        <4>. QED BY <1>6, <1>12 DEF WithMore
      <3>. HIDE DEF Sel, before, after
      <3>. QED BY <1>4, <1>5, <3>1, <3>2
    <2>. HIDE DEF rest
    <2>2. rest \subseteq rest /\ Approvals(rest) <= Approvals(rest)
      BY <1>10
    <2>. HIDE DEF before, after
    <2>. QED BY <1>10, <2>1, <2>2 DEF before, after
  <1>. QED BY <1>11, <1>12

\* The order of the likelihoods.
LEMMA Ranks == Rank("unknown") = 1 /\ Rank("low") = 2 /\ Rank("medium") = 3 /\ Rank("high") = 4
  <1>1. DOMAIN Likelihoods = {1, 2, 3, 4} /\ Likelihoods[1] = "unknown" /\ Likelihoods[2] = "low"
        /\ Likelihoods[3] = "medium" /\ Likelihoods[4] = "high"
    BY DEF Likelihoods
  <1>2. \A i \in 1 .. 4 : Rank(Likelihoods[i]) = i
    <2>1. ASSUME NEW i \in 1 .. 4
          PROVE  i \in DOMAIN Likelihoods /\ \A j \in DOMAIN Likelihoods : Likelihoods[j] = Likelihoods[i] => j = i
      <3>1. DOMAIN Likelihoods = 1 .. 4
        BY <1>1
      <3>. QED BY <1>1, <3>1
    <2>. QED BY <2>1 DEF Rank
  <1>. QED BY <1>1, <1>2

\* What may be taken away from a likelihood that is not sure.
Capped(found, sure) == IF ~sure /\ found = "high" THEN "medium" ELSE found

\* A likelihood does not fall with more approvals and a recent one, sure or not.
LEMMA LikelihoodGrows ==
    ASSUME NEW a \in Nat, NEW b \in Nat, a <= b, NEW d \in Nat, NEW recent \in BOOLEAN, NEW later \in BOOLEAN,
           recent => later, NEW sure \in BOOLEAN
    PROVE  Rank(Capped(likelihood(b, d, later), sure)) >= Rank(Capped(likelihood(a, d, recent), sure))
  <1>. DEFINE la == likelihood(a, d, recent)
              lb == likelihood(b, d, later)
  <1>1. /\ a = 0 => la = "unknown"
        /\ la \in {"unknown", "low", "medium", "high"} /\ lb \in {"unknown", "low", "medium", "high"}
        /\ la = "high" => lb = "high"
        /\ la = "medium" => lb \in {"medium", "high"}
        /\ la = "low" => lb # "unknown"
    BY DEF likelihood
  <1>. HIDE DEF la, lb
  <1>2. \/ la = lb
        \/ la = "unknown" /\ lb \in {"low", "medium", "high"}
        \/ la = "low" /\ lb \in {"medium", "high"}
        \/ la = "medium" /\ lb = "high"
    BY <1>1
  <1>3. \/ Capped(la, sure) = Capped(lb, sure)
        \/ Capped(la, sure) = "unknown" /\ Capped(lb, sure) \in {"low", "medium", "high"}
        \/ Capped(la, sure) = "low" /\ Capped(lb, sure) \in {"medium", "high"}
        \/ Capped(la, sure) = "medium" /\ Capped(lb, sure) = "high"
    BY <1>2 DEF Capped
  <1>4. Capped(la, sure) \in {"unknown", "low", "medium", "high"}
    BY <1>1 DEF Capped
  <1>5. Rank(Capped(lb, sure)) >= Rank(Capped(la, sure))
    <2>. DEFINE x == Capped(la, sure)
                y == Capped(lb, sure)
    <2>. HIDE DEF x, y
    <2>1. Rank(x) \in Nat
      BY <1>4, Ranks DEF x
    <2>. QED BY <1>3, <2>1, Ranks DEF x, y
  <1>. QED BY <1>5 DEF la, lb

\* The employers that a name matches do not depend on the approvals.
LEMMA SameMatch ==
    ASSUME NEW rows, RowShape(rows), NEW r \in rows, NEW more \in Nat, NEW answered, NEW company, NEW alike
    PROVE  LET before == build_index(rows, answered)
               after == build_index(WithMore(rows, r, more), answered)
           IN  /\ after.years = before.years
               /\ match_employer(company, after, alike) = match_employer(company, before, alike)
  <1>. DEFINE before == build_index(rows, answered)
              after == build_index(WithMore(rows, r, more), answered)
              InWindow(x) == x.year \in Window(answered) /\ normalize_name(x.name) # <<>>
  <1>1. More(r, more).name = r.name /\ More(r, more).year = r.year
    <2>1. r \in FileRow({x.id : x \in rows}, {x.year : x \in rows}, {x.name : x \in rows})
      BY DEF RowShape
    <2>. QED BY <2>1, RenamedIs
  <1>2. before.years = Window(answered) /\ before.keys = {normalize_name(x.name) : x \in {x \in rows : InWindow(x)}}
    BY DEF build_index
  <1>3. after.years = Window(answered)
        /\ after.keys = {normalize_name(x.name) : x \in {x \in WithMore(rows, r, more) : InWindow(x)}}
    BY DEF build_index
  <1>4. before.keys = after.keys
    <2>. DEFINE K1 == {normalize_name(x.name) : x \in {x \in rows : InWindow(x)}}
                K2 == {normalize_name(x.name) : x \in {x \in WithMore(rows, r, more) : InWindow(x)}}
    <2>1. K1 \subseteq K2
      BY <1>1 DEF WithMore
    <2>2. K2 \subseteq K1
      BY <1>1 DEF WithMore
    <2>3. K1 = K2
      <3>. HIDE DEF K1, K2
      <3>. QED BY <2>1, <2>2
    <2>. HIDE DEF before, after
    <2>. QED BY <1>2, <1>3, <2>3
  <1>. HIDE DEF before, after
  <1>5. match_employer(company, after, alike) = match_employer(company, before, alike)
    BY <1>4 DEF match_employer
  <1>. QED BY <1>2, <1>3, <1>5 DEF before, after

\* A match is sure or it is not.
LEMMA SureIsBoolean ==
    ASSUME NEW company, NEW idx, NEW alike
    PROVE  match_employer(company, idx, alike).sure \in BOOLEAN
  BY DEF match_employer, NoMatch

\* The signal of a company by the rows that its name matches.
LEMMA ScoreIs ==
    ASSUME NEW company, NEW idx, NEW alike
    PROVE  LET match == match_employer(company, idx, alike)
               rows == Of(idx, match.keys)
               recent == \E r \in rows : r.year = Max(idx.years) /\ r.approvals > 0
           IN  /\ match.keys = {} => score_company(company, idx, alike).likelihood = "unknown"
                                      /\ ~score_company(company, idx, alike).needs_verification
               /\ match.keys # {} => /\ score_company(company, idx, alike).likelihood =
                                            Capped(likelihood(Approvals(rows), Denials(rows), recent), match.sure)
                                     /\ score_company(company, idx, alike).needs_verification = ~match.sure
  BY DEF score_company, Capped

\* The signal does not fall when a row of the files has more approvals.
LEMMA ScoreGrows ==
    ASSUME NEW rows, RowShape(rows), NEW r \in rows, NEW more \in Nat, NEW answered, NEW company, NEW alike
    PROVE  Rank(score_company(company, build_index(WithMore(rows, r, more), answered), alike).likelihood)
             >= Rank(score_company(company, build_index(rows, answered), alike).likelihood)
  <1>. DEFINE before == build_index(rows, answered)
              after == build_index(WithMore(rows, r, more), answered)
              match == match_employer(company, before, alike)
              R1 == Of(before, match.keys)
              R2 == Of(after, match.keys)
              recent == \E x \in R1 : x.year = Max(before.years) /\ x.approvals > 0
              later == \E x \in R2 : x.year = Max(before.years) /\ x.approvals > 0
  <1>1. after.years = before.years /\ match_employer(company, after, alike) = match
    BY SameMatch
  <1>2. /\ Approvals(R1) \in Nat /\ Approvals(R2) \in Nat /\ Denials(R1) \in Nat
        /\ Approvals(R1) <= Approvals(R2) /\ Denials(R2) = Denials(R1)
        /\ \A x \in R1 : \E y \in R2 : y.year = x.year /\ (x.approvals > 0 => y.approvals > 0)
    BY CountedMore
  <1>3. match.sure \in BOOLEAN
    BY SureIsBoolean
  <1>. HIDE DEF before, after, match, R1, R2
  <1>4. recent => later
    BY <1>2
  <1>5. CASE match.keys = {}
    <2>1. score_company(company, before, alike).likelihood = "unknown"
      BY <1>5, ScoreIs DEF match
    <2>2. score_company(company, after, alike).likelihood = "unknown"
      BY <1>1, <1>5, ScoreIs
    <2>3. Rank("unknown") >= Rank("unknown")
      BY Ranks
    <2>. QED BY <2>1, <2>2, <2>3 DEF before, after
  <1>6. CASE match.keys # {}
    <2>1. score_company(company, before, alike).likelihood =
             Capped(likelihood(Approvals(R1), Denials(R1), recent), match.sure)
      BY <1>6, ScoreIs DEF match, R1
    <2>2. score_company(company, after, alike).likelihood =
             Capped(likelihood(Approvals(R2), Denials(R2), later), match.sure)
      BY <1>1, <1>6, ScoreIs DEF R2
    <2>3. recent \in BOOLEAN /\ later \in BOOLEAN
      OBVIOUS
    <2>. HIDE DEF recent, later
    <2>4. Rank(Capped(likelihood(Approvals(R2), Denials(R1), later), match.sure))
            >= Rank(Capped(likelihood(Approvals(R1), Denials(R1), recent), match.sure))
      BY <1>2, <1>3, <1>4, <2>3, LikelihoodGrows
    <2>. QED BY <1>2, <2>1, <2>2, <2>4 DEF before, after
  <1>. QED BY <1>5, <1>6

\* A match that is to be verified is not rated high.
LEMMA UnsureIsNotHigh ==
    ASSUME NEW company, NEW idx, NEW alike, score_company(company, idx, alike).needs_verification
    PROVE  score_company(company, idx, alike).likelihood # "high"
  BY ScoreIs DEF Capped

\* For every sponsor question ApprovalsNeverHurt holds.
LEMMA SponsorTrue == Asked => ApprovalsNeverHurt
  <1>. SUFFICES ASSUME Asked, Decided("sponsor") PROVE ApprovalsNeverHurt
    BY DEF ApprovalsNeverHurt
  <1>1. answer[1] = score_company(asked.company, build_index(asked.rows, asked.answered), asked.alike)
    BY AnswerIs DEF Result
  <1>2. asked \in SponsorCases
    BY AnswerIs DEF Cases
  <1>3. RowShape(asked.rows)
    BY <1>2, SponsorAssumption
  <1>4. answer[1].needs_verification => answer[1].likelihood # "high"
    BY <1>1, UnsureIsNotHigh
  <1>5. ASSUME NEW r \in asked.rows, NEW more \in {1, 100}
        PROVE  Rank(score_company(asked.company, build_index(WithMore(asked.rows, r, more), asked.answered), asked.alike).likelihood)
                 >= Rank(answer[1].likelihood)
    <2>1. more \in Nat
      OBVIOUS
    <2>. QED BY <1>1, <1>3, <2>1, ScoreGrows
  <1>. QED BY <1>4, <1>5 DEF ApprovalsNeverHurt, WithMore, More

\* ApprovalsNeverHurt (score_company): whatever rows the files have, more
\* approvals in one of them never make a company a less likely sponsor, and a
\* match that is not sure is never rated high.
THEOREM ApprovalsHelp == Spec => []ApprovalsNeverHurt
  BY AskedAlways, SponsorTrue, PTL

-----------------------------------------------------------------------------
(* Skills.                                                                  *)

Hits(passes_of, t) == {i \in DOMAIN passes_of : t \in ToSet(passes_of[i])}
WeightOf(passes_of, t) == IF Cardinality(Hits(passes_of, t)) = 0 THEN 1 ELSE Cardinality(Hits(passes_of, t))
KeywordOf(passes_of, k) ==
    [term |-> k.term, kind |-> IF k.kind = "soft" THEN "soft" ELSE "hard", weight |-> WeightOf(passes_of, k.term)]
KeywordShape(keywords) == IsFiniteSet(keywords) /\ \A k \in keywords : k.weight \in Nat

\* The values of a list are finitely many.
LEMMA ListFinite ==
    ASSUME NEW n \in Nat, NEW s, DOMAIN s = 1 .. n
    PROVE  IsFiniteSet(ToSet(s))
  <1>. DEFINE I == 1 .. n
              f == [i \in I |-> s[i]]
  <1>1. IsFiniteSet(I)
    BY FS_Interval
  <1>2. f \in [I -> ToSet(s)]
    BY DEF ToSet
  <1>3. \A x \in ToSet(s) : \E i \in I : f[i] = x
    BY DEF ToSet
  <1>4. f \in Surjection(I, ToSet(s))
    <2>. HIDE DEF I, f
    <2>. QED BY <1>2, <1>3 DEF Surjection
  <1>. HIDE DEF f
  <1>. QED BY <1>1, <1>4, FS_Surjection

\* The keywords of any passes are finitely many, with numbers for weights.
LEMMA KeywordsShape ==
    ASSUME NEW said, said \in Seq(ToSet(said)), NEW final, final \in Seq(ToSet(final))
    PROVE  KeywordShape(ToSet(extract_keywords(said, final).keywords))
  <1>. DEFINE ks == extract_keywords(said, final).keywords
              I == {i \in DOMAIN final : \A j \in DOMAIN final : final[j].term = final[i].term => i <= j}
              kept == Pick(final, I)
              m == Cardinality(I)
  <1>0. \A t : IsFiniteSet(Hits(said, t)) /\ WeightOf(said, t) \in Nat
    <2>. SUFFICES ASSUME NEW t PROVE IsFiniteSet(Hits(said, t)) /\ WeightOf(said, t) \in Nat
      OBVIOUS
    <2>1. IsFiniteSet(DOMAIN said)
      <3>1. Len(said) \in Nat /\ DOMAIN said = 1 .. Len(said)
        OBVIOUS
      <3>. QED BY <3>1, FS_Interval
    <2>2. Hits(said, t) \in SUBSET DOMAIN said
      BY DEF Hits
    <2>. QED BY <2>1, <2>2, FS_Subset, FS_CardinalityType DEF WeightOf
  <1>1. m \in Nat /\ DOMAIN kept = 1 .. m
    <2>1. I \in SUBSET DOMAIN final
      OBVIOUS
    <2>. HIDE DEF I
    <2>2. Pick(final, I) \in Seq(ToSet(final)) /\ Len(Pick(final, I)) = Cardinality(I)
      BY <2>1, PickFacts
    <2>3. Len(Pick(final, I)) \in Nat /\ DOMAIN Pick(final, I) = 1 .. Len(Pick(final, I))
      BY <2>2
    <2>. QED BY <2>2, <2>3
  <1>2. ks = <<>> \/ ks = [i \in DOMAIN kept |-> KeywordOf(said, kept[i])]
    BY DEF extract_keywords, KeywordOf, WeightOf, Hits
  <1>. HIDE DEF ks, kept, m
  <1>3. CASE ks = <<>>
    <2>1. ToSet(ks) = {}
      BY <1>3 DEF ToSet
    <2>. QED BY <2>1, FS_EmptySet DEF KeywordShape, ks
  <1>4. CASE ks = [i \in DOMAIN kept |-> KeywordOf(said, kept[i])]
    <2>1. DOMAIN ks = 1 .. m
      BY <1>1, <1>4
    <2>2. \A k \in ToSet(ks) : k.weight \in Nat
      <3>1. \A x : KeywordOf(said, x).weight \in Nat
        BY <1>0 DEF KeywordOf
      <3>. QED BY <1>4, <3>1 DEF ToSet
    <2>. QED BY <1>1, <2>1, <2>2, ListFinite DEF KeywordShape, ks
  <1>. QED BY <1>2, <1>3, <1>4

Worth(k) == 18 + IF k.kind = "hard" THEN 2 * k.weight ELSE k.weight
Weighs(k) == IF k.kind = "hard" THEN 2 * k.weight ELSE k.weight

\* A skill's score is a number.
LEMMA ScoreIsNat ==
    ASSUME NEW keywords, KeywordShape(keywords), NEW s, s.mention \in Nat, NEW ai_role
    PROVE  Score(s, keywords, ai_role) \in Nat
  <1>. DEFINE of == {k \in keywords : k.term = s.term}
              f == [k \in of |-> Worth(k)]
  <1>1. IsFiniteSet(of) /\ \A k \in of : k.weight \in Nat
    <2>1. of \in SUBSET keywords
      OBVIOUS
    <2>. HIDE DEF of
    <2>. QED BY <2>1, FS_Subset DEF KeywordShape
  <1>2. Score(s, keywords, ai_role) = SumFunction(f) + 6 * s.mention + (IF ai_role /\ s.must THEN 15 ELSE 0)
    BY DEF Score, Worth
  <1>. HIDE DEF of
  <1>3. DOMAIN f = of /\ \A k \in of : f[k] \in Nat
    BY <1>1 DEF Worth
  <1>. HIDE DEF f
  <1>4. SumFunction(f) \in Nat
    BY <1>1, <1>3, SumIsNat
  <1>. QED BY <1>2, <1>4

\* More of a text's terms cover at least as much.
LEMMA CoverageGrows ==
    ASSUME NEW keywords, KeywordShape(keywords), NEW text, NEW more
    PROVE  /\ keyword_coverage(keywords, text) \in Nat /\ keyword_coverage(keywords, text \cup more) \in Nat
           /\ keyword_coverage(keywords, text) <= keyword_coverage(keywords, text \cup more)
  <1>. DEFINE In(t) == {k \in keywords : k.term \in t}
              f(t) == [k \in In(t) |-> Weighs(k)]
              total == [k \in keywords |-> Weighs(k)]
              all == SumFunction(total)
              a == SumFunction(f(text))
              b == SumFunction(f(text \cup more))
  <1>1. \A k \in keywords : Weighs(k) \in Nat
    BY DEF KeywordShape, Weighs
  <1>2. /\ keyword_coverage(keywords, text) = IF all = 0 THEN 0 ELSE (1000 * a) \div all
        /\ keyword_coverage(keywords, text \cup more) = IF all = 0 THEN 0 ELSE (1000 * b) \div all
    BY DEF keyword_coverage, Weighs
  <1>3. all \in Nat
    <2>1. DOMAIN total = keywords /\ \A k \in keywords : total[k] \in Nat
      BY <1>1
    <2>. HIDE DEF total
    <2>. QED BY <2>1, SumIsNat DEF KeywordShape
  <1>4. a \in Nat /\ b \in Nat /\ a <= b
    <2>. DEFINE F == f(text)
                G == f(text \cup more)
    <2>1. /\ DOMAIN F = In(text) /\ DOMAIN G = In(text \cup more) /\ In(text) \subseteq In(text \cup more)
          /\ In(text) \in SUBSET keywords /\ In(text \cup more) \in SUBSET keywords
          /\ \A k \in In(text) : F[k] = Weighs(k)
          /\ \A k \in In(text \cup more) : G[k] = Weighs(k)
      OBVIOUS
    <2>2. a = SumFunction(F) /\ b = SumFunction(G)
      OBVIOUS
    <2>. HIDE DEF In, F, G, a, b, f
    <2>3. IsFiniteSet(DOMAIN F) /\ IsFiniteSet(DOMAIN G)
      BY <2>1, FS_Subset DEF KeywordShape
    <2>4. /\ \A k \in DOMAIN F : F[k] \in Nat
          /\ \A k \in DOMAIN G : G[k] \in Nat
      BY <1>1, <2>1
    <2>5. \A k \in DOMAIN F : F[k] <= G[k]
      <3>1. \A k \in DOMAIN F : F[k] = G[k]
        BY <2>1
      <3>. QED BY <2>4, <3>1
    <2>6. DOMAIN F \subseteq DOMAIN G
      BY <2>1
    <2>. QED BY <2>2, <2>3, <2>4, <2>5, <2>6, SumOfMore
  <1>. HIDE DEF all, a, b
  <1>5. CASE all = 0
    BY <1>2, <1>5
  <1>6. CASE all # 0
    <2>1. 1000 * a \in Nat /\ 1000 * b \in Nat /\ 1000 * a <= 1000 * b /\ all \in Nat \ {0}
      BY <1>3, <1>4, <1>6
    <2>. DEFINE x == 1000 * a
                y == 1000 * b
    <2>2. x \in Nat /\ y \in Nat /\ x <= y
      BY <2>1
    <2>. HIDE DEF x, y
    <2>3. x \div all \in Nat /\ y \div all \in Nat /\ x \div all <= y \div all
      BY <2>1, <2>2
    <2>. QED BY <1>2, <1>6, <2>3 DEF x, y
  <1>. QED BY <1>5, <1>6

\* So does the overall score.
LEMMA OverallGrows ==
    ASSUME NEW keywords, KeywordShape(keywords), NEW text, NEW more,
           NEW numbered \in Nat, NEW parts \in SUBSET (DOMAIN StructurePoints)
    PROVE  score_ats(keywords, text \cup more, numbered, 4, parts).overall
             >= score_ats(keywords, text, numbered, 4, parts).overall
  <1>. DEFINE q == quantification(numbered, 4)
              s == structure(parts)
              x == keyword_coverage(keywords, text)
              y == keyword_coverage(keywords, text \cup more)
  <1>1. q \in Int
    BY DEF quantification
  <1>2. s \in Int
    <2>. DEFINE f == [p \in parts |-> StructurePoints[p]]
    <2>1. IsFiniteSet(DOMAIN StructurePoints)
      <3>1. DOMAIN StructurePoints = {"summary", "skills", "experience", "education", "email", "location", "dates"}
        BY DEF StructurePoints
      <3>2. \A S, z : IsFiniteSet(S) => IsFiniteSet(S \cup {z})
        BY FS_AddElement
      <3>. DEFINE T1 == {"summary"}
                  T2 == T1 \cup {"skills"}
                  T3 == T2 \cup {"experience"}
                  T4 == T3 \cup {"education"}
                  T5 == T4 \cup {"email"}
                  T6 == T5 \cup {"location"}
                  T7 == T6 \cup {"dates"}
      <3>3. DOMAIN StructurePoints = T7
        BY <3>1
      <3>4. IsFiniteSet(T1)
        BY FS_Singleton
      <3>5. IsFiniteSet(T2)
        <4>. HIDE DEF T1
        <4>. QED BY <3>2, <3>4
      <3>6. IsFiniteSet(T3)
        <4>. HIDE DEF T2
        <4>. QED BY <3>2, <3>5
      <3>7. IsFiniteSet(T4)
        <4>. HIDE DEF T3
        <4>. QED BY <3>2, <3>6
      <3>8. IsFiniteSet(T5)
        <4>. HIDE DEF T4
        <4>. QED BY <3>2, <3>7
      <3>9. IsFiniteSet(T6)
        <4>. HIDE DEF T5
        <4>. QED BY <3>2, <3>8
      <3>10. IsFiniteSet(T7)
        <4>. HIDE DEF T6
        <4>. QED BY <3>2, <3>9
      <3>. QED BY <3>3, <3>10
    <2>2. IsFiniteSet(parts)
      BY <2>1, FS_Subset
    <2>3. DOMAIN f = parts /\ \A p \in parts : f[p] \in Nat
      <3>1. \A p \in DOMAIN StructurePoints : StructurePoints[p] \in Nat
        BY DEF StructurePoints
      <3>. QED BY <3>1
    <2>4. s = 10 * SumFunction(f)
      BY DEF structure
    <2>. HIDE DEF f, s
    <2>5. SumFunction(f) \in Nat
      BY <2>2, <2>3, SumIsNat
    <2>. QED BY <2>4, <2>5
  <1>3. x \in Nat /\ y \in Nat /\ x <= y
    BY CoverageGrows
  <1>4. /\ score_ats(keywords, text, numbered, 4, parts).overall = (5 * x + 3 * q + 2 * s) \div 10
        /\ score_ats(keywords, text \cup more, numbered, 4, parts).overall = (5 * y + 3 * q + 2 * s) \div 10
    BY DEF score_ats
  <1>. HIDE DEF q, s, x, y
  <1>. DEFINE u == 5 * x + 3 * q + 2 * s
              v == 5 * y + 3 * q + 2 * s
  <1>5. u \in Int /\ v \in Int /\ u <= v
    BY <1>1, <1>2, <1>3
  <1>. HIDE DEF u, v
  <1>6. u \div 10 <= v \div 10 /\ u \div 10 \in Int /\ v \div 10 \in Int
    BY <1>5
  <1>. QED BY <1>4, <1>6 DEF u, v

\* from gives every item of r an index of its own in s, where s has it.
From(from, r, s) ==
    /\ from \in [DOMAIN r -> DOMAIN s]
    /\ \A k \in DOMAIN r : r[k] = s[from[k]]
    /\ \A j, k \in DOMAIN r : from[j] = from[k] => j = k

\* What is picked comes from the list, index by index.
LEMMA PickFrom ==
    ASSUME NEW S, NEW s \in Seq(S), NEW I \in SUBSET (DOMAIN s)
    PROVE  \E from : From(from, Pick(s, I), s)
  <1>. DEFINE r == Pick(s, I)
              from == [k \in DOMAIN r |-> CHOOSE i \in I : r[k] = s[i] /\ Cardinality(UpTo(I, i)) = k]
  <1>1. \A k \in DOMAIN r : \E i \in I : r[k] = s[i] /\ Cardinality(UpTo(I, i)) = k
    BY PickFacts
  <1>. HIDE DEF r
  <1>2. \A k \in DOMAIN r : from[k] \in I /\ r[k] = s[from[k]] /\ Cardinality(UpTo(I, from[k])) = k
    BY <1>1
  <1>3. DOMAIN from = DOMAIN r /\ from = [k \in DOMAIN r |-> from[k]]
    OBVIOUS
  <1>. HIDE DEF from
  <1>4. from \in [DOMAIN r -> DOMAIN s]
    BY <1>2, <1>3
  <1>. QED BY <1>2, <1>4 DEF From, r

\* What comes from what comes from a list comes from the list.
LEMMA FromFrom ==
    ASSUME NEW r, NEW s, NEW t, NEW a, NEW b, From(a, r, s), From(b, s, t)
    PROVE  \E from : From(from, r, t)
  <1>. DEFINE from == [k \in DOMAIN r |-> b[a[k]]]
  <1>1. from \in [DOMAIN r -> DOMAIN t]
    BY DEF From
  <1>2. \A k \in DOMAIN r : from[k] = b[a[k]] /\ a[k] \in DOMAIN s
    BY DEF From
  <1>. HIDE DEF from
  <1>. QED BY <1>1, <1>2 DEF From

\* better orders the indices of n items, up to ties.
Orders(better, I) ==
    /\ \A i \in I : <<i, i>> \notin better
    /\ \A i, j, k \in I : <<i, j>> \in better /\ <<j, k>> \in better => <<i, k>> \in better
    /\ \A i, j, k \in I : <<i, k>> \in better => <<i, j>> \in better \/ <<j, k>> \in better

Ahead(better, j, i) == <<j, i>> \in better \/ (j < i /\ <<i, j>> \notin better)
AheadOf(better, I, i) == {j \in I : Ahead(better, j, i)}
NotWorse(better, I, i) == {j \in I : j = i \/ <<i, j>> \notin better}
Winners(better, I, n) == {i \in I : Cardinality(AheadOf(better, I, i)) < n}

\* Being ahead is a total order of the indices.
LEMMA AheadOrders ==
    ASSUME NEW better, NEW N \in Nat, Orders(better, 1 .. N)
    PROVE  /\ \A i \in 1 .. N : ~Ahead(better, i, i)
           /\ \A i, j \in 1 .. N : i # j => Ahead(better, i, j) \/ Ahead(better, j, i)
           /\ \A i, j, k \in 1 .. N : Ahead(better, i, j) /\ Ahead(better, j, k) => Ahead(better, i, k)
  <1>1. \A i \in 1 .. N : ~Ahead(better, i, i)
    <2>. SUFFICES ASSUME NEW i \in 1 .. N PROVE ~Ahead(better, i, i)
      OBVIOUS
    <2>1. ~(i < i) /\ <<i, i>> \notin better
      BY DEF Orders
    <2>. QED BY <2>1 DEF Ahead
  <1>2. \A i, j \in 1 .. N : i # j => Ahead(better, i, j) \/ Ahead(better, j, i)
    BY DEF Ahead
  <1>3. ASSUME NEW i \in 1 .. N, NEW j \in 1 .. N, NEW k \in 1 .. N, Ahead(better, i, j), Ahead(better, j, k)
        PROVE  Ahead(better, i, k)
    <2>. DEFINE B(a, b) == <<a, b>> \in better
    <2>1. /\ B(i, j) \/ (i < j /\ ~B(j, i))
          /\ B(j, k) \/ (j < k /\ ~B(k, j))
      BY <1>3 DEF Ahead
    <2>2. \A a, b, c \in {i, j, k} : (B(a, b) /\ B(b, c) => B(a, c)) /\ (B(a, c) => B(a, b) \/ B(b, c)) /\ ~B(a, a)
      BY ZenonT(30) DEF Orders
    <2>3. i < j /\ j < k => i < k
      OBVIOUS
    <2>. HIDE DEF B
    <2>4. B(i, k) \/ (i < k /\ ~B(k, i))
      BY <2>1, <2>2, <2>3
    <2>. QED BY <2>4 DEF Ahead, B
  <1>. QED BY <1>1, <1>2, <1>3

\* At most n are chosen, and whoever is not chosen has n others that are not worse.
LEMMA BestFacts ==
    ASSUME NEW S, NEW items \in Seq(S), NEW n \in Nat, NEW better, Orders(better, DOMAIN items)
    PROVE  /\ Best(items, n, better) \in Seq(S)
           /\ ToSet(Best(items, n, better)) \subseteq ToSet(items)
           /\ Len(Best(items, n, better)) <= n
           /\ \E from : From(from, Best(items, n, better), items)
           /\ \A i \in DOMAIN items :
                 \/ items[i] \in ToSet(Best(items, n, better))
                 \/ Cardinality(NotWorse(better, DOMAIN items, i)) > n
  <1>. DEFINE I == DOMAIN items
              N == Len(items)
              C == Winners(better, I, n)
              A(i) == AheadOf(better, I, i)
  <1>1. N \in Nat /\ I = 1 .. N /\ IsFiniteSet(I) /\ Cardinality(I) = N
    <2>1. N \in Nat /\ I = 1 .. N
      OBVIOUS
    <2>. HIDE DEF N, I
    <2>. QED BY <2>1, FS_Interval
  <1>2. Best(items, n, better) = Pick(items, C)
    BY DEF Best, Winners, AheadOf, Ahead
  <1>3. C \in SUBSET I
    BY DEF Winners
  <1>4. \A i \in I : IsFiniteSet(A(i)) /\ Cardinality(A(i)) \in Nat
    <2>. HIDE DEF I
    <2>1. \A i \in I : A(i) \in SUBSET I
      BY DEF AheadOf
    <2>2. \A i \in I : IsFiniteSet(A(i))
      <3>. HIDE DEF A
      <3>. QED BY <1>1, <2>1, FS_Subset
    <2>. HIDE DEF A
    <2>. QED BY <2>2, FS_CardinalityType
  <1>5. /\ \A i \in I : ~Ahead(better, i, i)
        /\ \A i, j \in I : i # j => Ahead(better, i, j) \/ Ahead(better, j, i)
        /\ \A i, j, k \in I : Ahead(better, i, j) /\ Ahead(better, j, k) => Ahead(better, i, k)
    BY <1>1, AheadOrders
  <1>. HIDE DEF I, N, C
  <1>6. Best(items, n, better) \in Seq(S) /\ ToSet(Best(items, n, better)) \subseteq ToSet(items)
        /\ Len(Best(items, n, better)) = Cardinality(C)
        /\ \A i \in C : items[i] \in ToSet(Best(items, n, better))
    <2>1. Pick(items, C) \in Seq(S) /\ ToSet(Pick(items, C)) \subseteq ToSet(items)
      BY <1>3, PickRange DEF I
    <2>2. Len(Pick(items, C)) = Cardinality(C)
          /\ \A i \in C : /\ Cardinality(UpTo(C, i)) \in DOMAIN Pick(items, C)
                          /\ Pick(items, C)[Cardinality(UpTo(C, i))] = items[i]
      BY <1>3, PickFacts DEF I
    <2>3. \A i \in C : items[i] \in ToSet(Pick(items, C))
      BY <2>2 DEF ToSet
    <2>. QED BY <1>2, <2>1, <2>2, <2>3
  <1>7. Cardinality(C) <= n
    <2>. DEFINE r == [i \in C |-> Cardinality(A(i))]
                R == 0 .. n - 1
    <2>1. \A i \in C : i \in I /\ Cardinality(A(i)) < n /\ Cardinality(A(i)) \in R
      <3>1. \A i \in C : i \in I /\ Cardinality(A(i)) < n
        BY DEF C, Winners
      <3>. HIDE DEF A
      <3>. QED BY <1>4, <3>1
    <2>2. ASSUME NEW i \in I, NEW j \in I, Ahead(better, i, j) PROVE Cardinality(A(i)) < Cardinality(A(j))
      <3>1. A(i) \subseteq A(j) /\ i \in A(j) /\ i \notin A(i)
        BY <1>5, <2>2 DEF AheadOf
      <3>. HIDE DEF A
      <3>2. Cardinality(A(i)) <= Cardinality(A(j)) /\ (Cardinality(A(i)) = Cardinality(A(j)) => A(i) = A(j))
        BY <1>4, <3>1, FS_Subset
      <3>3. A(i) # A(j)
        BY <3>1
      <3>. QED BY <1>4, <3>2, <3>3
    <2>3. ASSUME NEW i \in C, NEW j \in C, r[i] = r[j] PROVE i = j
      <3>1. r[i] = Cardinality(A(i)) /\ r[j] = Cardinality(A(j))
        OBVIOUS
      <3>. HIDE DEF r, A
      <3>2. i \in I /\ j \in I /\ Cardinality(A(i)) = Cardinality(A(j))
        BY <2>1, <2>3, <3>1
      <3>3. Cardinality(A(i)) \in Nat /\ Cardinality(A(j)) \in Nat
        BY <1>4, <3>2
      <3>4. ~Ahead(better, i, j) /\ ~Ahead(better, j, i)
        BY <2>2, <3>2, <3>3
      <3>. QED BY <1>5, <3>2, <3>4
    <2>4. r \in [C -> R]
      <3>1. \A i \in C : Cardinality(A(i)) \in R
        BY <2>1
      <3>. HIDE DEF A, R
      <3>2. r \in [C -> R] <=> \A i \in C : r[i] \in R
        OBVIOUS
      <3>. QED BY <3>1, <3>2
    <2>5. r \in Injection(C, R)
      <3>1. DOMAIN r = C
        BY <2>4
      <3>. HIDE DEF r
      <3>. QED BY <2>3, <2>4, <3>1 DEF Injection, IsInjective
    <2>6. IsFiniteSet(R) /\ Cardinality(R) = n
      <3>1. IsFiniteSet(0 .. n - 1) /\ Cardinality(0 .. n - 1) = IF 0 <= n - 1 THEN (n - 1) - 0 + 1 ELSE 0
        BY FS_Interval
      <3>. QED BY <3>1
    <2>. HIDE DEF r, R
    <2>. QED BY <2>5, <2>6, FS_Injection
  <1>8. ASSUME NEW i \in I, i \notin C
        PROVE  Cardinality(NotWorse(better, I, i)) > n
    <2>. DEFINE W == {j \in I : j = i \/ <<i, j>> \notin better}
    <2>1. ~(Cardinality(A(i)) < n)
      BY <1>8 DEF C, Winners
    <2>2. A(i) \subseteq W /\ i \in W /\ i \notin A(i) /\ W \subseteq I
      <3>1. \A j \in I : Ahead(better, j, i) => <<i, j>> \notin better
        BY DEF Ahead, Orders, I
      <3>. QED BY <1>5, <3>1 DEF AheadOf
    <2>3. IsFiniteSet(W) /\ Cardinality(W) \in Nat
      <3>. HIDE DEF W
      <3>. QED BY <1>1, <2>2, FS_Subset, FS_CardinalityType
    <2>. HIDE DEF A, W
    <2>4. Cardinality(A(i)) <= Cardinality(W) /\ (Cardinality(A(i)) = Cardinality(W) => A(i) = W)
      BY <2>2, <2>3, FS_Subset
    <2>5. A(i) # W
      BY <2>2
    <2>6. Cardinality(W) > n
      BY <1>4, <2>1, <2>3, <2>4, <2>5
    <2>. QED BY <2>6 DEF W, NotWorse
  <1>9. \E from : From(from, Best(items, n, better), items)
    BY <1>2, <1>3, PickFrom DEF I
  <1>. QED BY <1>6, <1>7, <1>8, <1>9 DEF I

ByScore(items, keywords, ai_role) ==
    {p \in (DOMAIN items) \X (DOMAIN items) :
        Score(items[p[1]], keywords, ai_role) > Score(items[p[2]], keywords, ai_role)}
ByPreference(items, keywords, ai_role) ==
    {p \in (DOMAIN items) \X (DOMAIN items) : Preferred(items[p[1]], items[p[2]], keywords, ai_role)}
SkillShape(items) ==
    items \in Seq(ToSet(items)) /\ \A i \in DOMAIN items : items[i].mention \in Nat /\ items[i].must \in BOOLEAN

\* The scores of a list's skills are numbers.
LEMMA Scores ==
    ASSUME NEW keywords, KeywordShape(keywords), NEW items, SkillShape(items), NEW ai_role
    PROVE  \A i \in DOMAIN items : Score(items[i], keywords, ai_role) \in Nat
  BY ScoreIsNat DEF SkillShape

\* The score orders the skills of a list up to ties.
LEMMA ScoreOrders ==
    ASSUME NEW keywords, KeywordShape(keywords), NEW items, SkillShape(items), NEW ai_role
    PROVE  Orders(ByScore(items, keywords, ai_role), DOMAIN items)
  <1>. DEFINE v(i) == Score(items[i], keywords, ai_role)
              I == DOMAIN items
              B == ByScore(items, keywords, ai_role)
  <1>1. \A i \in I : v(i) \in Nat
    BY Scores
  <1>2. \A i, j \in I : <<i, j>> \in B <=> v(i) > v(j)
    BY DEF ByScore
  <1>. HIDE DEF v, I, B
  <1>3. Orders(B, I)
    BY <1>1, <1>2 DEF Orders
  <1>. QED BY <1>3 DEF B, I

\* So does the preference of the global cap.
LEMMA PreferenceOrders ==
    ASSUME NEW keywords, KeywordShape(keywords), NEW items, SkillShape(items), NEW ai_role
    PROVE  Orders(ByPreference(items, keywords, ai_role), DOMAIN items)
  <1>. DEFINE v(i) == Score(items[i], keywords, ai_role)
              m(i) == items[i].must
              I == DOMAIN items
              B == ByPreference(items, keywords, ai_role)
  <1>1. \A i \in I : v(i) \in Nat /\ m(i) \in BOOLEAN
    BY Scores DEF SkillShape
  <1>2. \A i, j \in I : <<i, j>> \in B <=> (m(i) /\ ~m(j)) \/ (m(i) = m(j) /\ v(i) > v(j))
    BY DEF ByPreference, Preferred
  <1>. HIDE DEF v, I, B, m
  <1>3. Orders(B, I)
    <2>. DEFINE P(i, j) == (m(i) /\ ~m(j)) \/ (m(i) = m(j) /\ v(i) > v(j))
    <2>1. \A i \in I : ~P(i, i)
      BY <1>1
    <2>2. \A i, j, k \in I : P(i, j) /\ P(j, k) => P(i, k)
      BY <1>1
    <2>3. \A i, j, k \in I : P(i, k) => P(i, j) \/ P(j, k)
      BY <1>1
    <2>4. \A i, j \in I : <<i, j>> \in B <=> P(i, j)
      BY <1>2
    <2>. HIDE DEF P
    <2>. QED BY <2>1, <2>2, <2>3, <2>4 DEF Orders
  <1>. QED BY <1>3 DEF B, I

ShownIn(category, keywords, ai_role, s) ==
    IF ai_role /\ category.offrole THEN Score(s, keywords, ai_role) >= 18 ELSE Score(s, keywords, ai_role) > 0 \/ s.must
ShownAt(category, keywords, ai_role) ==
    {i \in DOMAIN category.items : ShownIn(category, keywords, ai_role, category.items[i])}
AtLeast(items, keywords, ai_role, i) ==
    {j \in DOMAIN items : Score(items[j], keywords, ai_role) >= Score(items[i], keywords, ai_role)}

\* A category shows skills of its own, each once; a skill it does not show is not
\* to be shown, or more than the cap are at least as good.
LEMMA RankedFacts ==
    ASSUME NEW keywords, KeywordShape(keywords), NEW ai_role,
           NEW category, SkillShape(category.items), NEW cap \in Nat
    PROVE  /\ Ranked(category, keywords, ai_role, cap) \in Seq(ToSet(category.items))
           /\ \E from : From(from, Ranked(category, keywords, ai_role, cap), category.items)
           /\ \A i \in DOMAIN category.items :
                 \/ category.items[i] \in ToSet(Ranked(category, keywords, ai_role, cap))
                 \/ ~ShownIn(category, keywords, ai_role, category.items[i])
                 \/ Cardinality(AtLeast(category.items, keywords, ai_role, i)) > cap
  <1>. DEFINE items == category.items
              S == ToSet(items)
              I == ShownAt(category, keywords, ai_role)
              kept == Pick(items, I)
              B == ByScore(kept, keywords, ai_role)
              r == Best(kept, cap, B)
  <1>1. Ranked(category, keywords, ai_role, cap) = r
    BY DEF Ranked, ShownAt, ShownIn, ByScore
  <1>2. items \in Seq(S) /\ I \in SUBSET DOMAIN items
    BY DEF SkillShape, ShownAt
  <1>. HIDE DEF I
  <1>3. kept \in Seq(S) /\ ToSet(kept) \subseteq S
    <2>. HIDE DEF items, S
    <2>. QED BY <1>2, PickRange DEF S
  <1>4. PICK shown : From(shown, kept, items)
    <2>. HIDE DEF items, S
    <2>. QED BY <1>2, PickFrom
  <1>5. \A i \in I : \E k \in DOMAIN kept : kept[k] = items[i]
    <2>. HIDE DEF items, S
    <2>. QED BY <1>2, PickFacts
  <1>6. SkillShape(kept)
    <2>1. kept \in Seq(ToSet(kept))
      <3>1. Len(kept) \in Nat /\ DOMAIN kept = 1 .. Len(kept) /\ kept = [k \in DOMAIN kept |-> kept[k]]
        BY <1>3
      <3>. HIDE DEF kept
      <3>2. kept \in [1 .. Len(kept) -> ToSet(kept)]
        BY <3>1 DEF ToSet
      <3>. QED BY <3>1, <3>2
    <2>2. \A k \in DOMAIN kept : shown[k] \in DOMAIN items /\ kept[k] = items[shown[k]]
      BY <1>4 DEF From
    <2>. HIDE DEF kept
    <2>. QED BY <2>1, <2>2 DEF SkillShape
  <1>. HIDE DEF kept
  <1>7. Orders(B, DOMAIN kept)
    BY <1>6, ScoreOrders
  <1>8. /\ r \in Seq(S)
        /\ \E from : From(from, r, kept)
        /\ \A k \in DOMAIN kept :
              kept[k] \in ToSet(r) \/ Cardinality(NotWorse(B, DOMAIN kept, k)) > cap
    <2>. HIDE DEF B, S
    <2>. QED BY <1>3, <1>7, BestFacts
  <1>9. \E from : From(from, r, items)
    <2>. HIDE DEF r, items
    <2>. QED BY <1>4, <1>8, FromFrom
  <1>10. ASSUME NEW i \in I, items[i] \notin ToSet(r)
         PROVE  Cardinality(AtLeast(items, keywords, ai_role, i)) > cap
    <2>1. PICK k \in DOMAIN kept : kept[k] = items[i]
      BY <1>5
    <2>. DEFINE W == NotWorse(B, DOMAIN kept, k)
                A == AtLeast(items, keywords, ai_role, i)
                f == [j \in W |-> shown[j]]
    <2>2. Cardinality(W) > cap
      BY <1>8, <1>10, <2>1
    <2>3. i \in DOMAIN items
      BY <1>2
    <2>4. IsFiniteSet(A) /\ Cardinality(A) \in Nat
      <3>1. A \in SUBSET DOMAIN items
        BY DEF AtLeast
      <3>2. IsFiniteSet(DOMAIN items)
        <4>1. Len(items) \in Nat /\ DOMAIN items = 1 .. Len(items)
          BY <1>2
        <4>. QED BY <4>1, FS_Interval
      <3>. QED BY <3>1, <3>2, FS_Subset, FS_CardinalityType
    <2>5. \A j \in W : shown[j] \in A
      <3>. SUFFICES ASSUME NEW j \in W PROVE shown[j] \in A
        OBVIOUS
      <3>1. shown[j] \in DOMAIN items /\ kept[j] = items[shown[j]] /\ j \in DOMAIN kept
        BY <1>4 DEF From, NotWorse
      <3>2. Score(kept[j], keywords, ai_role) \in Nat /\ Score(kept[k], keywords, ai_role) \in Nat
        BY <1>6, <3>1, Scores
      <3>3. Score(kept[j], keywords, ai_role) >= Score(kept[k], keywords, ai_role)
        <4>1. CASE j = k
          BY <3>2, <4>1
        <4>2. CASE <<k, j>> \notin B
          <5>1. ~(Score(kept[k], keywords, ai_role) > Score(kept[j], keywords, ai_role))
            BY <3>1, <4>2 DEF ByScore
          <5>. QED BY <3>2, <5>1
        <4>. QED BY <4>1, <4>2 DEF NotWorse
      <3>. QED BY <2>1, <3>1, <3>3 DEF AtLeast
    <2>6. \A a, b \in W : shown[a] = shown[b] => a = b
      BY <1>4 DEF From, NotWorse
    <2>. HIDE DEF W, A
    <2>7. f \in [W -> A] /\ \A a \in W : f[a] = shown[a]
      BY <2>5
    <2>8. f \in Injection(W, A)
      <3>1. DOMAIN f = W
        BY <2>7
      <3>. HIDE DEF f
      <3>. QED BY <2>6, <2>7, <3>1 DEF Injection, IsInjective
    <2>9. IsFiniteSet(W) /\ Cardinality(W) <= Cardinality(A) /\ Cardinality(W) \in Nat
      <3>. HIDE DEF f
      <3>. QED BY <2>4, <2>8, FS_Injection, FS_CardinalityType
    <2>10. Cardinality(A) > cap
      BY <2>2, <2>4, <2>9
    <2>. QED BY <2>10 DEF A
  <1>11. \A i \in DOMAIN items : i \in I <=> ShownIn(category, keywords, ai_role, items[i])
    BY DEF I, ShownAt
  <1>. QED BY <1>1, <1>8, <1>9, <1>10, <1>11 DEF S

MustAt(items) == {i \in DOMAIN items : items[i].must}
Musts(skills) == UNION {{<<c, i>> : i \in MustAt(skills[c].items)} : c \in DOMAIN skills}
AllItems(skills) == UNION {ToSet(skills[c].items) : c \in DOMAIN skills}
RankedLists(skills, keywords, ai_role, cap) == [c \in DOMAIN skills |-> Ranked(skills[c], keywords, ai_role, cap)]
SkillsShape(skills) == skills \in Seq(ToSet(skills)) /\ \A c \in DOMAIN skills : SkillShape(skills[c].items)

\* The skills that must be shown are finitely many.
LEMMA MustsFinite ==
    ASSUME NEW skills, SkillsShape(skills)
    PROVE  IsFiniteSet(Musts(skills)) /\ Cardinality(Musts(skills)) \in Nat
  <1>. DEFINE MustsIn(c) == {<<c, i>> : i \in MustAt(skills[c].items)}
              C == DOMAIN skills
              all == {MustsIn(c) : c \in C}
  <1>1. IsFiniteSet(C)
    <2>1. Len(skills) \in Nat /\ DOMAIN skills = 1 .. Len(skills)
      BY DEF SkillsShape
    <2>. QED BY <2>1, FS_Interval
  <1>2. ASSUME NEW c \in C PROVE IsFiniteSet(MustsIn(c))
    <2>. DEFINE M == MustAt(skills[c].items)
                f == [i \in M |-> <<c, i>>]
    <2>1. IsFiniteSet(M)
      <3>1. Len(skills[c].items) \in Nat /\ DOMAIN skills[c].items = 1 .. Len(skills[c].items)
        BY DEF SkillsShape, SkillShape
      <3>2. M \in SUBSET DOMAIN skills[c].items
        BY DEF MustAt
      <3>3. IsFiniteSet(DOMAIN skills[c].items)
        BY <3>1, FS_Interval
      <3>. QED BY <3>2, <3>3, FS_Subset
    <2>. HIDE DEF M
    <2>2. f \in Surjection(M, {<<c, i>> : i \in M})
      BY DEF Surjection
    <2>. HIDE DEF f
    <2>. QED BY <2>1, <2>2, FS_Surjection DEF M
  <1>3. IsFiniteSet(all)
    <2>. DEFINE f == [c \in C |-> MustsIn(c)]
    <2>. HIDE DEF MustsIn, C
    <2>1. f \in Surjection(C, all)
      BY DEF Surjection
    <2>. HIDE DEF f, all
    <2>. QED BY <1>1, <2>1, FS_Surjection
  <1>4. \A T \in all : IsFiniteSet(T)
    <2>. HIDE DEF MustsIn
    <2>. QED BY <1>2
  <1>5. Musts(skills) = UNION all
    BY DEF Musts
  <1>6. IsFiniteSet(UNION all)
    <2>. HIDE DEF all
    <2>. QED BY <1>3, <1>4, FS_UNION
  <1>. HIDE DEF all
  <1>. QED BY <1>5, <1>6, FS_CardinalityType

\* A list has no more items that differ than it has items.
LEMMA DistinctItems ==
    ASSUME NEW S, NEW s \in Seq(S)
    PROVE  Cardinality(ToSet(s)) \in Nat /\ Cardinality(ToSet(s)) <= Len(s)
  <1>. DEFINE T == ToSet(s)
              f == [i \in 1 .. Len(s) |-> s[i]]
  <1>1. Len(s) \in Nat /\ DOMAIN s = 1 .. Len(s)
    OBVIOUS
  <1>2. f \in Surjection(1 .. Len(s), T)
    BY <1>1 DEF Surjection, ToSet
  <1>3. IsFiniteSet(1 .. Len(s)) /\ Cardinality(1 .. Len(s)) = Len(s)
    BY <1>1, FS_Interval
  <1>. HIDE DEF f, T
  <1>4. IsFiniteSet(T) /\ Cardinality(T) <= Cardinality(1 .. Len(s))
    BY <1>2, <1>3, FS_Surjection
  <1>. QED BY <1>3, <1>4, FS_CardinalityType DEF T

\* To keep what is equal to something chosen is to keep the same things.
LEMMA KeptSet ==
    ASSUME NEW S, NEW s \in Seq(S), NEW keep, keep \subseteq ToSet(s)
    PROVE  ToSet(Pick(s, {i \in DOMAIN s : s[i] \in keep})) = keep
  <1>. DEFINE I == {i \in DOMAIN s : s[i] \in keep}
              r == Pick(s, I)
  <1>1. I \in SUBSET (DOMAIN s)
    OBVIOUS
  <1>2. \A i \in DOMAIN s : i \in I <=> s[i] \in keep
    OBVIOUS
  <1>. HIDE DEF I
  <1>3. /\ \A k \in DOMAIN r : \E i \in I : r[k] = s[i]
        /\ \A i \in I : \E k \in DOMAIN r : r[k] = s[i]
    BY <1>1, PickFacts
  <1>. HIDE DEF r
  <1>4. ToSet(r) \subseteq keep
    BY <1>1, <1>2, <1>3 DEF ToSet
  <1>5. ASSUME NEW x \in keep PROVE x \in ToSet(r)
    <2>1. PICK i \in DOMAIN s : s[i] = x
      BY <1>5 DEF ToSet
    <2>. QED BY <1>2, <1>3, <2>1 DEF ToSet
  <1>. QED BY <1>4, <1>5 DEF r, I

\* The skills shown are the profile's; a skill that must be shown is, unless
\* its category leaves it out or there are too many such skills.
LEMMA RankFacts ==
    ASSUME NEW keywords, KeywordShape(keywords), NEW ai_role,
           NEW skills, SkillsShape(skills), NEW max_items \in Nat, NEW cap \in Nat
    PROVE  /\ ToSet(rank_skills(skills, keywords, ai_role, max_items, cap)) \subseteq AllItems(skills)
           /\ Cardinality(ToSet(rank_skills(skills, keywords, ai_role, max_items, cap))) <= max_items
           /\ \A c \in DOMAIN skills : \A i \in DOMAIN skills[c].items :
                 \/ ~skills[c].items[i].must
                 \/ skills[c].items[i] \in ToSet(rank_skills(skills, keywords, ai_role, max_items, cap))
                 \/ ~ShownIn(skills[c], keywords, ai_role, skills[c].items[i])
                 \/ Cardinality(AtLeast(skills[c].items, keywords, ai_role, i)) > cap
                 \/ Cardinality(Musts(skills)) > max_items
  <1>. DEFINE lists == RankedLists(skills, keywords, ai_role, cap)
              S == AllItems(skills)
              ranked == FlattenSeq(lists)
              B == ByPreference(ranked, keywords, ai_role)
              kept == Best(ranked, max_items, B)
              C == DOMAIN skills
              Items(c) == skills[c].items
              M == Musts(skills)
              shown == rank_skills(skills, keywords, ai_role, max_items, cap)
  <1>1. shown = Pick(ranked, {i \in DOMAIN ranked : ranked[i] \in ToSet(kept)})
    BY DEF rank_skills, RankedLists, ByPreference
  <1>2. DOMAIN lists = C /\ \A c \in C : lists[c] = Ranked(skills[c], keywords, ai_role, cap)
    BY DEF RankedLists
  <1>3. \A c \in C :
          /\ lists[c] \in Seq(ToSet(Items(c)))
          /\ \E from : From(from, lists[c], Items(c))
          /\ \A i \in DOMAIN Items(c) :
                \/ Items(c)[i] \in ToSet(lists[c])
                \/ ~ShownIn(skills[c], keywords, ai_role, Items(c)[i])
                \/ Cardinality(AtLeast(Items(c), keywords, ai_role, i)) > cap
    BY <1>2, RankedFacts DEF SkillsShape
  <1>4. \A c \in C : ToSet(Items(c)) \subseteq S
    BY DEF AllItems
  <1>5. lists \in Seq(Seq(S)) /\ Len(lists) \in Nat /\ DOMAIN lists = 1 .. Len(lists)
    <2>1. Len(skills) \in Nat /\ C = 1 .. Len(skills)
      BY DEF SkillsShape
    <2>2. \A c \in C : lists[c] \in Seq(S)
      <3>. HIDE DEF lists, S, C, Items
      <3>1. \A U : U \subseteq S => Seq(U) \subseteq Seq(S)
        OBVIOUS
      <3>. QED BY <1>3, <1>4, <3>1
    <2>3. lists = [c \in 1 .. Len(skills) |-> lists[c]]
      BY <2>1 DEF RankedLists
    <2>. HIDE DEF lists, S, C
    <2>. QED BY <2>1, <2>2, <2>3
  <1>. HIDE DEF lists, S, C
  <1>6. PICK place : Places(place, ranked, lists, Len(lists))
    BY <1>5, FlattenPlaces
  <1>7. ranked \in Seq(S) /\ \A c \in C : ToSet(lists[c]) \subseteq ToSet(ranked)
    BY <1>2, <1>5, FlattenFacts
  <1>. DEFINE In(j) == CHOOSE from : From(from, lists[place[j][1]], Items(place[j][1]))
              Source(j) == <<place[j][1], In(j)[place[j][2]]>>
              R == DOMAIN ranked
  <1>. HIDE DEF ranked
  <1>8. \A j \in R : place[j][1] \in C /\ place[j][2] \in DOMAIN lists[place[j][1]]
                     /\ ranked[j] = lists[place[j][1]][place[j][2]]
    BY <1>2, <1>5, <1>6 DEF Places
  <1>9. \A j \in R : From(In(j), lists[place[j][1]], Items(place[j][1]))
    BY <1>3, <1>8
  <1>10. \A j \in R : /\ Source(j)[1] = place[j][1] /\ Source(j)[2] = In(j)[place[j][2]]
                      /\ Source(j)[2] \in DOMAIN Items(place[j][1])
                      /\ ranked[j] = Items(place[j][1])[Source(j)[2]]
    <2>. HIDE DEF In, Items
    <2>. QED BY <1>8, <1>9 DEF From
  <1>11. ASSUME NEW j \in R, NEW k \in R, Source(j) = Source(k) PROVE j = k
    <2>1. place[j][1] = place[k][1] /\ In(j)[place[j][2]] = In(k)[place[k][2]]
      <3>. HIDE DEF In
      <3>. QED BY <1>11
    <2>2. In(j) = In(k)
      BY <2>1
    <2>. HIDE DEF In
    <2>3. place[j][2] = place[k][2]
      BY <1>8, <1>9, <2>1, <2>2 DEF From
    <2>4. place[j] = place[k]
      <3>1. place[j] \in (1 .. Len(lists)) \X Nat /\ place[k] \in (1 .. Len(lists)) \X Nat
        BY <1>6 DEF Places
      <3>. QED BY <2>1, <2>3, <3>1
    <2>. QED BY <1>6, <2>4 DEF Places
  <1>12. SkillShape(ranked)
    <2>1. ranked \in Seq(ToSet(ranked))
      <3>1. Len(ranked) \in Nat /\ DOMAIN ranked = 1 .. Len(ranked) /\ ranked = [k \in DOMAIN ranked |-> ranked[k]]
        BY <1>7
      <3>2. ranked \in [1 .. Len(ranked) -> ToSet(ranked)]
        BY <3>1 DEF ToSet
      <3>. QED BY <3>1, <3>2
    <2>2. \A c \in C : \A i \in DOMAIN Items(c) : Items(c)[i].mention \in Nat /\ Items(c)[i].must \in BOOLEAN
      BY DEF SkillsShape, SkillShape, C
    <2>. HIDE DEF Source, Items, In
    <2>. QED BY <1>8, <1>10, <2>1, <2>2 DEF SkillShape
  <1>13. Orders(B, R)
    BY <1>12, PreferenceOrders
  <1>14. /\ kept \in Seq(S) /\ ToSet(kept) \subseteq ToSet(ranked) /\ Len(kept) <= max_items
         /\ \A j \in R : ranked[j] \in ToSet(kept) \/ Cardinality(NotWorse(B, R, j)) > max_items
    <2>. HIDE DEF B
    <2>. QED BY <1>7, <1>13, BestFacts
  <1>. HIDE DEF kept
  <1>15. ASSUME NEW j \in R, ranked[j].must, ranked[j] \notin ToSet(kept) PROVE Cardinality(M) > max_items
    <2>. DEFINE W == NotWorse(B, R, j)
                f == [k \in W |-> Source(k)]
    <2>1. Cardinality(W) > max_items
      BY <1>14, <1>15
    <2>2. \A k \in W : k \in R /\ ranked[k].must
      <3>. SUFFICES ASSUME NEW k \in W PROVE k \in R /\ ranked[k].must
        OBVIOUS
      <3>1. k \in R /\ (k = j \/ <<j, k>> \notin B)
        BY DEF NotWorse
      <3>2. ranked[j].must \in BOOLEAN /\ ranked[k].must \in BOOLEAN
        BY <1>12, <3>1 DEF SkillShape
      <3>3. <<j, k>> \in B \/ ~(ranked[j].must /\ ~ranked[k].must)
        BY <3>1 DEF ByPreference, Preferred
      <3>. QED BY <1>15, <3>1, <3>2, <3>3
    <2>3. \A k \in W : Source(k) \in M
      <3>. SUFFICES ASSUME NEW k \in W PROVE Source(k) \in M
        OBVIOUS
      <3>1. place[k][1] \in C /\ Source(k)[2] \in MustAt(Items(place[k][1]))
        <4>. HIDE DEF Source, Items, In, W
        <4>. QED BY <1>8, <1>10, <2>2 DEF MustAt
      <3>2. Source(k) = <<place[k][1], Source(k)[2]>>
        OBVIOUS
      <3>. HIDE DEF Source
      <3>. QED BY <3>1, <3>2 DEF Musts, C
    <2>. HIDE DEF W, Source, M, B
    <2>4. f \in [W -> M] /\ \A k \in W : f[k] = Source(k)
      BY <2>3
    <2>5. f \in Injection(W, M)
      <3>1. DOMAIN f = W
        BY <2>4
      <3>. HIDE DEF f
      <3>. QED BY <1>11, <2>2, <2>4, <3>1 DEF Injection, IsInjective
    <2>6. IsFiniteSet(M) /\ Cardinality(M) \in Nat
      BY MustsFinite DEF M
    <2>7. Cardinality(W) <= Cardinality(M) /\ Cardinality(W) \in Nat
      <3>. HIDE DEF f
      <3>. QED BY <2>5, <2>6, FS_Injection, FS_CardinalityType
    <2>. QED BY <2>1, <2>6, <2>7 DEF M
  <1>16. ToSet(ranked) \subseteq S
    BY <1>7 DEF ToSet
  <1>17. \A c \in C : \A i \in DOMAIN Items(c) :
           Items(c)[i] \in ToSet(lists[c]) => \E j \in R : ranked[j] = Items(c)[i]
    BY <1>7 DEF ToSet
  <1>18. \A c \in C : \A i \in DOMAIN Items(c) :
                 \/ ~Items(c)[i].must
                 \/ Items(c)[i] \in ToSet(kept)
                 \/ ~ShownIn(skills[c], keywords, ai_role, Items(c)[i])
                 \/ Cardinality(AtLeast(Items(c), keywords, ai_role, i)) > cap
                 \/ Cardinality(M) > max_items
    <2>. HIDE DEF M, Items, R
    <2>. QED BY <1>3, <1>15, <1>17
  <1>19. ToSet(kept) \subseteq S /\ Cardinality(ToSet(kept)) <= max_items
    <2>1. Cardinality(ToSet(kept)) \in Nat /\ Cardinality(ToSet(kept)) <= Len(kept) /\ Len(kept) \in Nat
      BY <1>14, DistinctItems
    <2>. QED BY <1>14, <1>16, <2>1
  <1>20. ToSet(shown) = ToSet(kept)
    BY <1>1, <1>7, <1>14, KeptSet
  <1>. HIDE DEF shown
  <1>. QED BY <1>18, <1>19, <1>20 DEF S, C, shown

\* For every question about skills MustHavesSurvive holds.
LEMMA SkillsTrue == Asked => MustHavesSurvive
  <1>. SUFFICES ASSUME Asked, Decided("skills"), ~answer[1].error PROVE MustHavesSurvive
    BY DEF MustHavesSurvive
  <1>. DEFINE c == asked
              a == answer[1]
              ks == extract_keywords(c.passes, c.final)
              keywords == ToSet(ks.keywords)
              kept == rank_skills(c.skills, keywords, c.ai_role, c.max_items, c.per_category_cap)
              terms == {kept[i].term : i \in DOMAIN kept}
              Items(k) == c.skills[k].items
  <1>1. asked \in SkillCases /\ a = SkillsResult(c)
    BY AnswerIs DEF Cases, Result
  <1>2. /\ c.passes \in Seq(ToSet(c.passes)) /\ c.final \in Seq(ToSet(c.final))
        /\ c.max_items \in Nat /\ c.per_category_cap \in Nat /\ c.numbered \in Nat
        /\ c.parts \in SUBSET DOMAIN StructurePoints
    BY <1>1, SkillAssumption
  <1>3. SkillsShape(c.skills)
    <2>1. /\ c.skills \in Seq(ToSet(c.skills))
          /\ \A category \in ToSet(c.skills) :
                /\ category.items \in Seq(ToSet(category.items))
                /\ \A s \in ToSet(category.items) : s.mention \in Nat /\ s.must \in BOOLEAN
      BY <1>1, SkillAssumption
    <2>. QED BY <2>1 DEF SkillsShape, SkillShape, ToSet
  <1>4. KeywordShape(keywords)
    BY <1>2, KeywordsShape
  <1>5. /\ a.kept = kept
        /\ a.without = score_ats(keywords, c.text \cup {}, c.numbered, 4, c.parts)
        /\ a.ats = score_ats(keywords, c.text \cup terms, c.numbered, 4, c.parts)
    <2>1. ~ks.error
      BY <1>1 DEF SkillsResult
    <2>2. a = [error |-> FALSE, kept |-> kept,
               without |-> score_ats(keywords, c.text \cup {}, c.numbered, 4, c.parts),
               ats |-> score_ats(keywords, c.text \cup terms, c.numbered, 4, c.parts)]
      BY <1>1, <2>1 DEF SkillsResult
    <2>. HIDE DEF a, kept, keywords, terms, c
    <2>. QED BY <2>2
  <1>. HIDE DEF keywords
  <1>6. a.ats.overall >= a.without.overall
    <2>1. c.text \cup {} = c.text
      OBVIOUS
    <2>. HIDE DEF kept, terms, c
    <2>2. score_ats(keywords, c.text \cup terms, c.numbered, 4, c.parts).overall
            >= score_ats(keywords, c.text, c.numbered, 4, c.parts).overall
      BY <1>2, <1>4, OverallGrows
    <2>. QED BY <1>5, <2>1, <2>2
  <1>7. /\ ToSet(kept) \subseteq AllItems(c.skills) /\ Cardinality(ToSet(kept)) <= c.max_items
        /\ \A k \in DOMAIN c.skills : \A i \in DOMAIN Items(k) :
              \/ ~Items(k)[i].must
              \/ Items(k)[i] \in ToSet(kept)
              \/ ~ShownIn(c.skills[k], keywords, c.ai_role, Items(k)[i])
              \/ Cardinality(AtLeast(Items(k), keywords, c.ai_role, i)) > c.per_category_cap
              \/ Cardinality(Musts(c.skills)) > c.max_items
    <2>. HIDE DEF c
    <2>. QED BY <1>2, <1>3, <1>4, RankFacts
  <1>8. ASSUME NEW k \in DOMAIN c.skills, NEW s \in ToSet(Items(k)), s.must, s \notin ToSet(kept)
        PROVE  \/ c.ai_role /\ c.skills[k].offrole /\ Score(s, keywords, c.ai_role) < 18
               \/ Cardinality({i \in DOMAIN Items(k) : Score(Items(k)[i], keywords, c.ai_role)
                                                        >= Score(s, keywords, c.ai_role)}) > c.per_category_cap
               \/ Cardinality(Musts(c.skills)) > c.max_items
    <2>1. PICK i \in DOMAIN Items(k) : Items(k)[i] = s
      BY DEF ToSet
    <2>2. Score(s, keywords, c.ai_role) \in Nat
      <3>1. SkillShape(Items(k))
        BY <1>3 DEF SkillsShape
      <3>. HIDE DEF Items, c
      <3>2. \A j \in DOMAIN Items(k) : Score(Items(k)[j], keywords, c.ai_role) \in Nat
        BY <1>4, <3>1, Scores
      <3>. QED BY <2>1, <3>2
    <2>3. \/ ShownIn(c.skills[k], keywords, c.ai_role, s)
          \/ c.ai_role /\ c.skills[k].offrole /\ Score(s, keywords, c.ai_role) < 18
      BY <1>8, <2>2 DEF ShownIn
    <2>4. AtLeast(Items(k), keywords, c.ai_role, i)
            = {j \in DOMAIN Items(k) : Score(Items(k)[j], keywords, c.ai_role) >= Score(s, keywords, c.ai_role)}
      BY <2>1 DEF AtLeast
    <2>. HIDE DEF kept, Items, c
    <2>. QED BY <1>7, <1>8, <2>1, <2>3, <2>4
  <1>9. ToSet(a.kept) \subseteq AllItems(c.skills) /\ Cardinality(ToSet(a.kept)) <= c.max_items
    BY <1>5, <1>7
  <1>10. \A k \in DOMAIN c.skills : \A s \in ToSet(Items(k)) :
            \/ ~s.must
            \/ s \in ToSet(a.kept)
            \/ c.ai_role /\ c.skills[k].offrole /\ Score(s, keywords, c.ai_role) < 18
            \/ Cardinality({i \in DOMAIN Items(k) : Score(Items(k)[i], keywords, c.ai_role)
                                                     >= Score(s, keywords, c.ai_role)}) > c.per_category_cap
            \/ Cardinality(Musts(c.skills)) > c.max_items
    <2>. HIDE DEF kept, Items, c
    <2>. QED BY <1>5, <1>8
  <1>. QED BY <1>6, <1>9, <1>10 DEF MustHavesSurvive, keywords, AllItems, Musts, MustAt

\* A skill that must be shown is, unless its category is one the role leaves out,
\* its category is full of skills at least as good, or there are too many such
\* skills; the skills shown are the profile's, no more than max_items of them
\* differ, and showing them never lowers the score: rank_skills and score_ats, for every profile, role and cap.
THEOREM MustHavesStay == Spec => []MustHavesSurvive
  BY AskedAlways, SkillsTrue, PTL

-----------------------------------------------------------------------------
(* Tenure: the roles merged, ordered and compared with the profile.         *)

\* Of two items the one ahead has fewer ahead of it, and each has a place of its own.
LEMMA PlaceIs ==
    ASSUME NEW better, NEW N \in Nat, Orders(better, 1 .. N)
    PROVE  /\ \A i \in 1 .. N : 1 + Cardinality(AheadOf(better, 1 .. N, i)) \in 1 .. N
           /\ \A i, j \in 1 .. N :
                 1 + Cardinality(AheadOf(better, 1 .. N, i)) = 1 + Cardinality(AheadOf(better, 1 .. N, j)) => i = j
           /\ \A i, j \in 1 .. N :
                 1 + Cardinality(AheadOf(better, 1 .. N, i)) < 1 + Cardinality(AheadOf(better, 1 .. N, j))
                   => Ahead(better, i, j)
           /\ \A k \in 1 .. N : \E i \in 1 .. N : 1 + Cardinality(AheadOf(better, 1 .. N, i)) = k
  <1>. DEFINE I == 1 .. N
              A(i) == AheadOf(better, I, i)
              n(i) == Cardinality(A(i))
  <1>1. IsFiniteSet(I) /\ Cardinality(I) = N
    BY FS_Interval
  <1>2. /\ \A i \in I : ~Ahead(better, i, i)
        /\ \A i, j \in I : i # j => Ahead(better, i, j) \/ Ahead(better, j, i)
        /\ \A i, j, k \in I : Ahead(better, i, j) /\ Ahead(better, j, k) => Ahead(better, i, k)
    BY AheadOrders
  <1>. HIDE DEF I
  <1>3. \A i \in I : IsFiniteSet(A(i)) /\ n(i) \in Nat /\ A(i) \subseteq I /\ i \notin A(i)
    <2>1. \A i \in I : A(i) \subseteq I /\ i \notin A(i)
      BY <1>2 DEF AheadOf
    <2>. HIDE DEF A
    <2>2. \A i \in I : IsFiniteSet(A(i))
      BY <1>1, <2>1, FS_Subset
    <2>. QED BY <2>1, <2>2, FS_CardinalityType
  <1>4. ASSUME NEW i \in I PROVE n(i) < N
    <2>1. A(i) \in SUBSET I /\ A(i) # I
      BY <1>3
    <2>. HIDE DEF A
    <2>2. Cardinality(A(i)) <= Cardinality(I) /\ (Cardinality(I) = Cardinality(A(i)) => I = A(i))
      BY <1>1, <2>1, FS_Subset
    <2>. QED BY <1>1, <1>3, <2>1, <2>2
  <1>5. ASSUME NEW i \in I, NEW j \in I, Ahead(better, i, j) PROVE n(i) < n(j)
    <2>1. A(i) \subseteq A(j) /\ i \in A(j) /\ i \notin A(i)
      BY <1>2, <1>5 DEF AheadOf
    <2>. HIDE DEF A
    <2>2. Cardinality(A(i)) <= Cardinality(A(j)) /\ (Cardinality(A(j)) = Cardinality(A(i)) => A(j) = A(i))
      BY <1>3, <2>1, FS_Subset
    <2>3. A(i) # A(j)
      BY <2>1
    <2>. QED BY <1>3, <2>2, <2>3
  <1>6. \A i \in I : n(i) \in Nat
    BY <1>3
  <1>7. \A i \in I : 1 + n(i) \in I
    <2>. HIDE DEF n
    <2>. QED BY <1>4, <1>6 DEF I
  <1>8. \A i, j \in I : 1 + n(i) = 1 + n(j) => i = j
    <2>. HIDE DEF n
    <2>. QED BY <1>2, <1>5, <1>6
  <1>9. \A i, j \in I : 1 + n(i) < 1 + n(j) => Ahead(better, i, j)
    <2>. HIDE DEF n
    <2>1. \A i, j \in I : Ahead(better, j, i) => ~(1 + n(i) < 1 + n(j))
      BY <1>5, <1>6
    <2>2. \A i \in I : ~(1 + n(i) < 1 + n(i))
      BY <1>6
    <2>. QED BY <1>2, <2>1, <2>2
  <1>10. \A k \in I : \E i \in I : 1 + n(i) = k
    <2>. DEFINE f == [i \in I |-> 1 + n(i)]
    <2>. HIDE DEF n
    <2>1. f \in [I -> I] /\ \A i \in I : f[i] = 1 + n(i)
      BY <1>7
    <2>2. f \in Injection(I, I)
      <3>1. DOMAIN f = I
        BY <2>1
      <3>. HIDE DEF f
      <3>. QED BY <1>8, <2>1, <3>1 DEF Injection, IsInjective
    <2>. HIDE DEF f
    <2>3. f \in Surjection(I, I)
      BY <1>1, <2>2, FS_Injection
    <2>. QED BY <2>1, <2>3 DEF Surjection
  <1>. QED BY <1>7, <1>8, <1>9, <1>10 DEF I

LaterEnd(roles) == {p \in (DOMAIN roles) \X (DOMAIN roles) : roles[p[1]].end > roles[p[2]].end}
RolePlace(roles, i) == 1 + Cardinality(AheadOf(LaterEnd(roles), DOMAIN roles, i))

\* The ordered roles are the same roles, and none comes before a later one.
LEMMA SortFacts ==
    ASSUME NEW S, NEW roles \in Seq(S), \A r \in S : r.end \in Nat
    PROVE  /\ sort_reverse_chron(roles) \in Seq(S)
           /\ ToSet(sort_reverse_chron(roles)) = ToSet(roles)
           /\ \A k, l \in DOMAIN sort_reverse_chron(roles) :
                 k < l => sort_reverse_chron(roles)[k].end >= sort_reverse_chron(roles)[l].end
  <1>. DEFINE N == Len(roles)
              I == DOMAIN roles
              B == LaterEnd(roles)
              out == sort_reverse_chron(roles)
  <1>1. N \in Nat /\ I = 1 .. N /\ \A i \in I : roles[i] \in S /\ roles[i].end \in Nat
    OBVIOUS
  <1>2. \A i, j \in I : <<j, i>> \in B <=> roles[j].end > roles[i].end
    BY DEF LaterEnd
  <1>. DEFINE end(i) == roles[i].end
              Before(j, i) == end(j) > end(i) \/ (end(j) = end(i) /\ j < i)
              place(i) == 1 + Cardinality({j \in I : Before(j, i)})
              At(k) == CHOOSE i \in I : place(i) = k
  <1>3. /\ \A i \in I : end(i) \in Nat
        /\ \A i, j \in I : <<j, i>> \in B <=> end(j) > end(i)
    BY <1>1, <1>2
  <1>4. Orders(B, I) /\ \A i, j \in I : Ahead(B, j, i) <=> Before(j, i)
    <2>. HIDE DEF B, end
    <2>1. Orders(B, I)
      <3>. HIDE DEF I
      <3>. QED BY <1>3 DEF Orders
    <2>2. \A i, j \in I : Ahead(B, j, i) <=> Before(j, i)
      <3>. SUFFICES ASSUME NEW i \in I, NEW j \in I PROVE Ahead(B, j, i) <=> Before(j, i)
        OBVIOUS
      <3>1. (<<j, i>> \in B <=> end(j) > end(i)) /\ (<<i, j>> \in B <=> end(i) > end(j))
        BY <1>3
      <3>2. end(i) \in Nat /\ end(j) \in Nat
        BY <1>3
      <3>. QED BY <3>1, <3>2 DEF Ahead
    <2>. QED BY <2>1, <2>2
  <1>5. out = [k \in I |-> roles[At(k)]] /\ \A i \in I : place(i) = RolePlace(roles, i)
    <2>1. \A i \in I : {j \in I : Before(j, i)} = AheadOf(B, I, i)
      <3>. HIDE DEF B, I, Before
      <3>. QED BY <1>4 DEF AheadOf
    <2>2. out = [k \in I |-> roles[At(k)]]
      BY DEF sort_reverse_chron
    <2>. QED BY <2>1, <2>2 DEF RolePlace
  <1>6. /\ \A i \in I : RolePlace(roles, i) \in I
        /\ \A i, j \in I : RolePlace(roles, i) = RolePlace(roles, j) => i = j
        /\ \A i, j \in I : RolePlace(roles, i) < RolePlace(roles, j) => Ahead(B, i, j)
        /\ \A k \in I : \E i \in I : RolePlace(roles, i) = k
    <2>. HIDE DEF B, N
    <2>. QED BY <1>1, <1>4, PlaceIs DEF RolePlace, B
  <1>7. \A k \in I : At(k) \in I /\ RolePlace(roles, At(k)) = k
    <2>. HIDE DEF place, I
    <2>. QED BY <1>5, <1>6
  <1>8. \A i \in I : At(RolePlace(roles, i)) = i
    <2>. HIDE DEF At
    <2>. QED BY <1>6, <1>7
  <1>. HIDE DEF At, I, B, out
  <1>9. out \in Seq(S)
    <2>1. out \in [1 .. N -> S]
      BY <1>1, <1>5, <1>7
    <2>. HIDE DEF N
    <2>. QED BY <1>1, <2>1
  <1>10. DOMAIN out = I
    BY <1>5
  <1>11. ToSet(out) = ToSet(roles)
    <2>1. \A k \in I : out[k] \in ToSet(roles)
      BY <1>5, <1>7 DEF ToSet, I
    <2>2. \A i \in I : roles[i] \in ToSet(out)
      <3>1. \A i \in I : out[RolePlace(roles, i)] = roles[i]
        BY <1>5, <1>6, <1>8
      <3>. QED BY <1>6, <1>10, <3>1 DEF ToSet
    <2>. QED BY <1>10, <2>1, <2>2 DEF ToSet, I
  <1>12. ASSUME NEW k \in I, NEW l \in I, k < l PROVE out[k].end >= out[l].end
    <2>1. out[k] = roles[At(k)] /\ out[l] = roles[At(l)]
      BY <1>5
    <2>2. Ahead(B, At(k), At(l))
      BY <1>6, <1>7, <1>12
    <2>3. roles[At(k)].end > roles[At(l)].end \/ roles[At(k)].end = roles[At(l)].end
      BY <1>4, <1>7, <2>2
    <2>4. roles[At(k)].end \in Nat /\ roles[At(l)].end \in Nat
      BY <1>1, <1>7
    <2>. QED BY <2>1, <2>3, <2>4
  <1>. QED BY <1>9, <1>10, <1>11, <1>12 DEF out

\* Dropping repetitions drops no value.
LEMMA OnceFacts ==
    ASSUME NEW S, NEW s \in Seq(S)
    PROVE  Once(s) \in Seq(S) /\ ToSet(Once(s)) = ToSet(s)
  <1>. DEFINE I == {i \in DOMAIN s : \A j \in DOMAIN s : s[j] = s[i] => i <= j}
              J(x) == {j \in DOMAIN s : s[j] = x}
  <1>1. Once(s) = Pick(s, I) /\ I \in SUBSET (DOMAIN s)
    BY DEF Once
  <1>2. /\ Pick(s, I) \in Seq(S)
        /\ ToSet(Pick(s, I)) \subseteq ToSet(s)
        /\ \A i \in I : \E k \in DOMAIN Pick(s, I) : Pick(s, I)[k] = s[i]
    <2>. HIDE DEF I
    <2>. QED BY <1>1, PickRange, PickFacts
  <1>3. ASSUME NEW i \in DOMAIN s PROVE \E j \in I : s[j] = s[i]
    <2>1. J(s[i]) \in SUBSET (DOMAIN s) /\ J(s[i]) # {}
      OBVIOUS
    <2>2. PICK j \in J(s[i]) : \A l \in J(s[i]) : j <= l
      <3>. HIDE DEF J
      <3>. QED BY <2>1, LeastIndex
    <2>. QED BY <2>2
  <1>. HIDE DEF I
  <1>4. ToSet(s) \subseteq ToSet(Pick(s, I))
    BY <1>2, <1>3 DEF ToSet
  <1>. QED BY <1>1, <1>2, <1>4


BulletsIn(S) == UNION {ToSet(r.bullets) : r \in S}
OrgsIn(S) == {r.org : r \in S}
\* Roles, and those that merging can make of them.
Sayable(S) ==
    S \cup [org : OrgsIn(S), letters : {r.letters : r \in S}, start : {r.start : r \in S}, end : {r.end : r \in S},
            bullets : Seq(BulletsIn(S))]
\* A role's dates are dates of roles of S at its employer.
DatesFrom(r, S) == (\E a \in S : a.org = r.org /\ a.start = r.start) /\ (\E b \in S : b.org = r.org /\ b.end = r.end)

\* One role more, and its bullets and employer.
LEMMA InOne ==
    ASSUME NEW S, NEW T, NEW x
    PROVE  /\ BulletsIn(S \cup {x}) = BulletsIn(S) \cup ToSet(x.bullets)
           /\ OrgsIn(S \cup {x}) = OrgsIn(S) \cup {x.org}
  BY DEF BulletsIn, OrgsIn

\* What a role that merging can make consists of.
LEMMA SayableFields ==
    ASSUME NEW S, \A r \in S : r.bullets \in Seq(BulletsIn(S)), NEW x \in Sayable(S)
    PROVE  /\ x.org \in OrgsIn(S) /\ x.letters \in {r.letters : r \in S} /\ x.start \in {r.start : r \in S}
           /\ x.end \in {r.end : r \in S} /\ x.bullets \in Seq(BulletsIn(S))
  <1>1. CASE x \in S
    BY <1>1 DEF OrgsIn
  <1>2. CASE x \notin S
    BY <1>2 DEF Sayable
  <1>. QED BY <1>1, <1>2

\* Two roles that become one lose no bullet, and take the first's end and the second's start.
LEMMA MergeFacts ==
    ASSUME NEW S, \A r \in S : r.bullets \in Seq(BulletsIn(S)), NEW a \in Sayable(S), NEW b \in Sayable(S)
    PROVE  /\ merge_roles(a, b) \in Sayable(S)
           /\ merge_roles(a, b).org = a.org /\ merge_roles(a, b).start = b.start /\ merge_roles(a, b).end = a.end
           /\ ToSet(merge_roles(a, b).bullets) = ToSet(a.bullets) \cup ToSet(b.bullets)
  <1>1. /\ a.org \in OrgsIn(S) /\ a.letters \in {r.letters : r \in S} /\ a.end \in {r.end : r \in S}
        /\ a.bullets \in Seq(BulletsIn(S))
    BY SayableFields
  <1>2. b.letters \in {r.letters : r \in S} /\ b.start \in {r.start : r \in S} /\ b.bullets \in Seq(BulletsIn(S))
    BY SayableFields
  <1>. DEFINE both == a.bullets \o b.bullets
              L == IF b.letters > 0 /\ (a.letters = 0 \/ b.letters < a.letters) THEN b.letters ELSE a.letters
  <1>3. both \in Seq(BulletsIn(S)) /\ ToSet(both) = ToSet(a.bullets) \cup ToSet(b.bullets)
    BY <1>1, <1>2, ConcatSet
  <1>4. Once(both) \in Seq(BulletsIn(S)) /\ ToSet(Once(both)) = ToSet(both)
    <2>. HIDE DEF both
    <2>. QED BY <1>3, OnceFacts
  <1>5. L \in {r.letters : r \in S}
    BY <1>1, <1>2
  <1>6. merge_roles(a, b) = [org |-> a.org, letters |-> L, start |-> b.start, end |-> a.end, bullets |-> Once(both)]
    BY DEF merge_roles
  <1>. HIDE DEF both, L
  <1>. QED BY <1>1, <1>2, <1>3, <1>4, <1>5, <1>6 DEF Sayable

\* One role more loses no bullet and no employer, and makes up no date.
LEMMA JoinedFacts ==
    ASSUME NEW S, \A r \in S : r.bullets \in Seq(BulletsIn(S)), NEW x \in S,
           NEW out \in Seq(Sayable(S)), \A r \in ToSet(out) : DatesFrom(r, S)
    PROVE  /\ Joined(out, x) \in Seq(Sayable(S))
           /\ \A r \in ToSet(Joined(out, x)) : DatesFrom(r, S)
           /\ BulletsIn(ToSet(Joined(out, x))) = BulletsIn(ToSet(out)) \cup ToSet(x.bullets)
           /\ OrgsIn(ToSet(Joined(out, x))) = OrgsIn(ToSet(out)) \cup {x.org}
  <1>1. x \in Sayable(S) /\ DatesFrom(x, S)
    BY DEF Sayable, DatesFrom
  <1>2. CASE out # <<>> /\ Last(out).org = x.org
    <2>. DEFINE y == merge_roles(Last(out), x)
                l == Last(out)
                f == Front(out)
    <2>1. Joined(out, x) = Append(f, y)
      BY <1>2 DEF Joined
    <2>2. f \in Seq(Sayable(S)) /\ l \in Sayable(S) /\ ToSet(out) = ToSet(f) \cup {l}
      BY <1>2, FrontLast
    <2>3. y \in Sayable(S) /\ y.org = x.org /\ y.start = x.start /\ y.end = l.end
          /\ ToSet(y.bullets) = ToSet(l.bullets) \cup ToSet(x.bullets) /\ l.org = x.org
      <3>1. y = merge_roles(l, x) /\ l.org = x.org
        BY <1>2
      <3>. HIDE DEF l, y
      <3>2. /\ merge_roles(l, x) \in Sayable(S)
            /\ merge_roles(l, x).org = l.org /\ merge_roles(l, x).start = x.start /\ merge_roles(l, x).end = l.end
            /\ ToSet(merge_roles(l, x).bullets) = ToSet(l.bullets) \cup ToSet(x.bullets)
        BY <1>1, <2>2, MergeFacts
      <3>. QED BY <3>1, <3>2
    <2>. HIDE DEF y, l, f
    <2>4. DatesFrom(y, S)
      <3>1. DatesFrom(l, S)
        BY <2>2
      <3>. QED BY <1>1, <2>3, <3>1 DEF DatesFrom
    <2>5. Append(f, y) \in Seq(Sayable(S)) /\ ToSet(Append(f, y)) = ToSet(f) \cup {y}
      BY <2>2, <2>3, AppendSet
    <2>6. /\ BulletsIn(ToSet(f) \cup {y}) = BulletsIn(ToSet(f)) \cup ToSet(y.bullets)
          /\ OrgsIn(ToSet(f) \cup {y}) = OrgsIn(ToSet(f)) \cup {y.org}
          /\ BulletsIn(ToSet(f) \cup {l}) = BulletsIn(ToSet(f)) \cup ToSet(l.bullets)
          /\ OrgsIn(ToSet(f) \cup {l}) = OrgsIn(ToSet(f)) \cup {l.org}
      BY InOne
    <2>7. \A r \in ToSet(f) \cup {y} : DatesFrom(r, S)
      BY <2>2, <2>4
    <2>. QED BY <2>1, <2>2, <2>3, <2>5, <2>6, <2>7
  <1>3. CASE ~(out # <<>> /\ Last(out).org = x.org)
    <2>1. Joined(out, x) = Append(out, x)
      BY <1>3 DEF Joined
    <2>2. Append(out, x) \in Seq(Sayable(S)) /\ ToSet(Append(out, x)) = ToSet(out) \cup {x}
      BY <1>1, AppendSet
    <2>3. /\ BulletsIn(ToSet(out) \cup {x}) = BulletsIn(ToSet(out)) \cup ToSet(x.bullets)
          /\ OrgsIn(ToSet(out) \cup {x}) = OrgsIn(ToSet(out)) \cup {x.org}
      BY InOne
    <2>. QED BY <1>1, <2>1, <2>2, <2>3
  <1>. QED BY <1>2, <1>3

-----------------------------------------------------------------------------
\* m[k] is what the first k roles merge to, up to n.
Merges(roles, m, n) ==
    /\ m = [k \in 0 .. n |-> m[k]]
    /\ \A k \in 0 .. n : m[k] = IF k = 0 THEN <<>> ELSE Joined(m[k - 1], roles[k])

\* There is a list of what the first roles merge to, of any length: a shortest
\* one that is missing would have the one before it, with one role more.
LEMMA MergesExist ==
    ASSUME NEW roles, NEW n \in Nat
    PROVE  \E m : Merges(roles, m, n)
  <1>. DEFINE Good(k) == \E m : Merges(roles, m, k)
              T == {k \in Nat : ~Good(k)}
  <1>. SUFFICES ASSUME T # {} PROVE FALSE
    OBVIOUS
  <1>1. PICK k \in T : \A j \in T : k <= j
    <2>1. T \in SUBSET Nat
      OBVIOUS
    <2>. HIDE DEF T
    <2>. QED BY <2>1, LeastNat
  <1>2. Good(0)
    <2>. DEFINE m == [j \in 0 .. 0 |-> <<>>]
    <2>1. Merges(roles, m, 0)
      BY DEF Merges
    <2>. QED BY <2>1
  <1>3. k # 0 /\ k \in Nat /\ k - 1 \in Nat /\ k - 1 \notin T
    <2>. HIDE DEF Good
    <2>1. k # 0 /\ k \in Nat
      BY <1>2
    <2>2. k - 1 \in Nat /\ ~(k <= k - 1)
      BY <2>1
    <2>. QED BY <1>1, <2>1, <2>2
  <1>4. PICK m : Merges(roles, m, k - 1)
    BY <1>3
  <1>. DEFINE g == [j \in 0 .. k |-> IF j = k THEN Joined(m[k - 1], roles[k]) ELSE m[j]]
  <1>5. Merges(roles, g, k)
    <2>1. g = [j \in 0 .. k |-> g[j]]
      OBVIOUS
    <2>2. \A j \in 0 .. k - 1 : g[j] = m[j] /\ j \in 0 .. k /\ j # k
      BY <1>3
    <2>3. g[k] = Joined(m[k - 1], roles[k]) /\ k - 1 \in 0 .. k - 1
      BY <1>3
    <2>. HIDE DEF g
    <2>4. ASSUME NEW j \in 0 .. k PROVE g[j] = IF j = 0 THEN <<>> ELSE Joined(g[j - 1], roles[j])
      <3>1. CASE j = k
        BY <1>3, <2>2, <2>3, <3>1
      <3>2. CASE j # k
        <4>1. j \in 0 .. k - 1 /\ (j # 0 => j - 1 \in 0 .. k - 1)
          BY <1>3, <3>2
        <4>2. m[j] = IF j = 0 THEN <<>> ELSE Joined(m[j - 1], roles[j])
          BY <1>4, <4>1 DEF Merges
        <4>. QED BY <2>2, <4>1, <4>2
      <3>. QED BY <3>1, <3>2
    <2>. QED BY <2>1, <2>4 DEF Merges
  <1>. QED BY <1>1, <1>5

\* The merged roles are the last of them.
LEMMA MergedIs ==
    ASSUME NEW roles, Len(roles) \in Nat
    PROVE  \E m : Merges(roles, m, Len(roles)) /\ merge_same_company(roles) = m[Len(roles)]
  <1>. DEFINE Eq(g) == g = [n \in 0 .. Len(roles) |-> IF n = 0 THEN <<>> ELSE Joined(g[n - 1], roles[n])]
              m == CHOOSE g : Eq(g)
  <1>1. ASSUME NEW g PROVE Merges(roles, g, Len(roles)) <=> Eq(g)
    BY DEF Merges
  <1>2. Eq(m)
    <2>1. \E g : Eq(g)
      <3>. HIDE DEF Eq
      <3>. QED BY <1>1, MergesExist
    <2>. HIDE DEF Eq
    <2>. QED BY <2>1
  <1>3. merge_same_company(roles) = m[Len(roles)]
    BY DEF merge_same_company
  <1>. HIDE DEF Eq, m
  <1>. QED BY <1>1, <1>2, <1>3

\* Merging loses no bullet and no employer, and makes up no date.
LEMMA MergedFacts ==
    ASSUME NEW S, \A r \in S : r.bullets \in Seq(BulletsIn(S)), NEW roles \in Seq(S), ToSet(roles) = S
    PROVE  /\ merge_same_company(roles) \in Seq(Sayable(S))
           /\ \A r \in ToSet(merge_same_company(roles)) : DatesFrom(r, S)
           /\ BulletsIn(ToSet(merge_same_company(roles))) = BulletsIn(S)
           /\ OrgsIn(ToSet(merge_same_company(roles))) = OrgsIn(S)
  <1>. DEFINE N == Len(roles)
              Some(k) == {roles[i] : i \in 1 .. k}
  <1>1. N \in Nat /\ DOMAIN roles = 1 .. N /\ \A k \in 1 .. N : roles[k] \in S
    OBVIOUS
  <1>2. PICK m : Merges(roles, m, N) /\ merge_same_company(roles) = m[N]
    BY <1>1, MergedIs
  <1>. DEFINE Good(k) == /\ m[k] \in Seq(Sayable(S))
                         /\ \A r \in ToSet(m[k]) : DatesFrom(r, S)
                         /\ BulletsIn(ToSet(m[k])) = BulletsIn(Some(k))
                         /\ OrgsIn(ToSet(m[k])) = OrgsIn(Some(k))
              T == {k \in 0 .. N : ~Good(k)}
  <1>3. Good(0)
    <2>1. m[0] = <<>>
      BY <1>1, <1>2 DEF Merges
    <2>2. Some(0) = {} /\ ToSet(<<>>) = {} /\ <<>> \in Seq(Sayable(S))
      BY DEF ToSet
    <2>. HIDE DEF Some
    <2>. QED BY <2>1, <2>2
  <1>4. T = {}
    <2>. SUFFICES ASSUME T # {} PROVE FALSE
      OBVIOUS
    <2>1. PICK k \in T : \A j \in T : k <= j
      <3>1. T \in SUBSET Nat
        BY <1>1
      <3>. HIDE DEF T
      <3>. QED BY <3>1, LeastNat
    <2>2. k \in 0 .. N /\ k \in 1 .. N /\ k # 0 /\ k - 1 \in 0 .. N /\ k - 1 \notin T
      <3>. HIDE DEF Good
      <3>. QED BY <1>1, <1>3, <2>1
    <2>3. Good(k - 1)
      <3>. HIDE DEF Good
      <3>. QED BY <2>2
    <2>4. m[k] = Joined(m[k - 1], roles[k]) /\ roles[k] \in S
      BY <1>1, <1>2, <2>2 DEF Merges
    <2>5. Some(k) = Some(k - 1) \cup {roles[k]}
      <3>1. \A i \in 1 .. k : i \in 1 .. k - 1 \/ i = k
        BY <1>1, <2>2
      <3>2. \A i \in 1 .. k - 1 : i \in 1 .. k
        BY <1>1, <2>2
      <3>. QED BY <2>2, <3>1, <3>2
    <2>. DEFINE A == Some(k - 1)
                x == roles[k]
                out == m[k - 1]
    <2>6. /\ BulletsIn(A \cup {x}) = BulletsIn(A) \cup ToSet(x.bullets)
          /\ OrgsIn(A \cup {x}) = OrgsIn(A) \cup {x.org}
      <3>. HIDE DEF A, x
      <3>. QED BY InOne
    <2>7. /\ Joined(out, x) \in Seq(Sayable(S))
          /\ \A r \in ToSet(Joined(out, x)) : DatesFrom(r, S)
          /\ BulletsIn(ToSet(Joined(out, x))) = BulletsIn(ToSet(out)) \cup ToSet(x.bullets)
          /\ OrgsIn(ToSet(Joined(out, x))) = OrgsIn(ToSet(out)) \cup {x.org}
      <3>1. x \in S /\ out \in Seq(Sayable(S)) /\ \A r \in ToSet(out) : DatesFrom(r, S)
        BY <2>3, <2>4
      <3>. HIDE DEF x, out
      <3>. QED BY <3>1, JoinedFacts
    <2>8. Good(k)
      <3>. HIDE DEF Some
      <3>. QED BY <2>3, <2>4, <2>5, <2>6, <2>7
    <2>. QED BY <2>1, <2>8
  <1>5. Some(N) = S
    BY <1>1 DEF ToSet
  <1>6. Good(N)
    <2>1. N \in 0 .. N
      BY <1>1
    <2>. HIDE DEF Good
    <2>. QED BY <1>4, <2>1
  <1>. HIDE DEF Some
  <1>. QED BY <1>2, <1>5, <1>6

ProfileShape(profile) ==
    /\ profile.roles \in Seq(ToSet(profile.roles))
    /\ \A e \in ToSet(profile.roles) : e.start \in 0 .. Present /\ e.end \in 0 .. Present /\ e.start <= e.end

\* Each role at an employer is within the employer's span.
LEMMA SpanFacts ==
    ASSUME NEW profile, ProfileShape(profile), NEW org \in Employers(profile)
    PROVE  /\ Span(profile, org).start \in 0 .. Present /\ Span(profile, org).end \in 0 .. Present
           /\ \A e \in ToSet(profile.roles) :
                 e.org = org => Span(profile, org).start <= e.start /\ e.end <= Span(profile, org).end
  <1>. DEFINE R == {r \in ToSet(profile.roles) : r.org = org}
              A == {r.start : r \in R}
              B == {r.end : r \in R}
  <1>1. A \in SUBSET (0 .. Present) /\ A # {} /\ B \in SUBSET (0 .. Present) /\ B # {}
    <2>1. R # {}
      BY DEF Employers, ToSet
    <2>2. \A r \in R : r.start \in 0 .. Present /\ r.end \in 0 .. Present
      BY DEF ProfileShape
    <2>. HIDE DEF R
    <2>. QED BY <2>1, <2>2
  <1>2. Present \in Nat
    BY DEF Present
  <1>. HIDE DEF A, B
  <1>3. /\ Min(A) \in A /\ \A y \in A : Min(A) <= y
        /\ Max(B) \in B /\ \A y \in B : y <= Max(B)
    BY <1>1, <1>2, LeastOf, GreatestUpTo
  <1>4. Span(profile, org).start = Min(A) /\ Span(profile, org).end = Max(B)
    BY DEF Span, A, B
  <1>5. \A e \in R : e.start \in A /\ e.end \in B
    BY DEF A, B
  <1>. QED BY <1>1, <1>3, <1>4, <1>5

\* A role that goes on ends in a year too.
LEMMA PresentIsNat == Present \in Nat
  BY DEF Present

\* What is compared, when no employer's name is part of another's.
LEMMA ConsistentIs ==
    ASSUME NEW profile, ProfileShape(profile), profile.within = {},
           NEW role, role.start \in 0 .. Present, role.end \in 0 .. Present
    PROVE  consistent(profile, role) <=>
              /\ role.org \in Employers(profile)
              /\ role.start >= Span(profile, role.org).start /\ role.end >= Span(profile, role.org).start
              /\ role.end # Present /\ Span(profile, role.org).end # Present =>
                    role.start <= Span(profile, role.org).end /\ role.end <= Span(profile, role.org).end
  <1>. DEFINE alike == {i \in DOMAIN profile.roles : Alike(profile, role.org, profile.roles[i].org)}
              span == Span(profile, profile.roles[Min(alike)].org)
              s == role.start
              e == role.end
  <1>1. alike \in SUBSET (DOMAIN profile.roles) /\ \A i \in alike : profile.roles[i].org = role.org
    BY DEF Alike
  <1>2. alike # {} <=> role.org \in Employers(profile)
    BY DEF Alike, Employers
  <1>3. alike # {} => profile.roles[Min(alike)].org = role.org
    <2>. SUFFICES ASSUME alike # {} PROVE profile.roles[Min(alike)].org = role.org
      OBVIOUS
    <2>. HIDE DEF alike
    <2>1. profile.roles \in Seq(ToSet(profile.roles))
      BY DEF ProfileShape
    <2>2. Min(alike) \in alike
      BY <1>1, <2>1, LeastIndex
    <2>. QED BY <1>1, <2>2
  <1>4. consistent(profile, role) <=>
           /\ alike # {}
           /\ Min({s, e}) >= span.start
           /\ (e # Present /\ span.end # Present) => Max({s, e}) <= span.end
    BY SMTT(60) DEF consistent
  <1>5. /\ Min({s, e}) \in {s, e} /\ \A y \in {s, e} : Min({s, e}) <= y
        /\ Max({s, e}) \in {s, e} /\ \A y \in {s, e} : y <= Max({s, e})
    <2>1. s \in 0 .. Present /\ e \in 0 .. Present
      OBVIOUS
    <2>. HIDE DEF alike, span, s, e
    <2>2. {s, e} \in SUBSET (0 .. Present) /\ {s, e} # {}
      BY <2>1
    <2>. QED BY <2>2, PresentIsNat, LeastOf, GreatestUpTo
  <1>6. alike # {} => Span(profile, role.org).start \in 0 .. Present /\ Span(profile, role.org).end \in 0 .. Present
    BY <1>2, SpanFacts
  <1>7. alike # {} => span = Span(profile, role.org)
    BY <1>3
  <1>8. s \in Int /\ e \in Int
    OBVIOUS
  <1>. DEFINE p == Span(profile, role.org)
              lo == Min({s, e})
              hi == Max({s, e})
  <1>9. alike # {} => p.start \in Int /\ p.end \in Int
    BY <1>6
  <1>. HIDE DEF alike, span, s, e, p, lo, hi
  <1>10. lo \in Int /\ hi \in Int /\ (lo = s \/ lo = e) /\ (hi = s \/ hi = e) /\ lo <= s /\ lo <= e /\ s <= hi /\ e <= hi
    BY <1>5, <1>8 DEF lo, hi
  <1>11. ASSUME alike # {} PROVE lo >= p.start <=> s >= p.start /\ e >= p.start
    BY <1>8, <1>9, <1>10, <1>11
  <1>12. ASSUME alike # {} PROVE hi <= p.end <=> s <= p.end /\ e <= p.end
    BY <1>8, <1>9, <1>10, <1>12
  <1>13. consistent(profile, role) <=>
           /\ alike # {}
           /\ lo >= p.start
           /\ (e # Present /\ p.end # Present) => hi <= p.end
    BY <1>4, <1>7 DEF lo, hi, p
  <1>. QED BY <1>2, <1>11, <1>12, <1>13 DEF s, e, p

SaidShape(said) ==
    /\ {"roles", "summary", "typos", "page"} \subseteq DOMAIN said
    /\ said.roles \in Seq(ToSet(said.roles))
    /\ \A r \in ToSet(said.roles) :
          r.start \in 0 .. Present /\ r.end \in 0 .. Present /\ r.bullets \in Seq(ToSet(r.bullets))

\* The roles of the document: what is said, latest first, with its own dates.
LEMMA OrderedFacts ==
    ASSUME NEW said, SaidShape(said)
    PROVE  /\ BulletsIn(ToSet(ordered_roles(said.roles))) = BulletsIn(ToSet(said.roles))
           /\ OrgsIn(ToSet(ordered_roles(said.roles))) = OrgsIn(ToSet(said.roles))
           /\ \A r \in ToSet(ordered_roles(said.roles)) :
                 DatesFrom(r, ToSet(said.roles)) /\ r.start \in 0 .. Present /\ r.end \in 0 .. Present
           /\ \A i, j \in DOMAIN ordered_roles(said.roles) :
                 i < j => ordered_roles(said.roles)[i].end >= ordered_roles(said.roles)[j].end
  <1>. DEFINE S == ToSet(said.roles)
              merged == merge_same_company(said.roles)
              out == sort_reverse_chron(merged)
  <1>1. said.roles \in Seq(S) /\ \A r \in S : r.bullets \in Seq(BulletsIn(S))
    <2>1. ASSUME NEW r \in S PROVE r.bullets \in Seq(BulletsIn(S))
      <3>1. r.bullets \in Seq(ToSet(r.bullets)) /\ ToSet(r.bullets) \subseteq BulletsIn(S)
        BY DEF SaidShape, BulletsIn
      <3>. QED BY <3>1
    <2>. QED BY <2>1 DEF SaidShape
  <1>2. \A r \in S : r.start \in 0 .. Present /\ r.end \in 0 .. Present
    BY DEF SaidShape
  <1>3. /\ merged \in Seq(Sayable(S))
        /\ \A r \in ToSet(merged) : DatesFrom(r, S)
        /\ BulletsIn(ToSet(merged)) = BulletsIn(S)
        /\ OrgsIn(ToSet(merged)) = OrgsIn(S)
    <2>1. S = ToSet(said.roles)
      OBVIOUS
    <2>. HIDE DEF S
    <2>. QED BY <1>1, <2>1, MergedFacts
  <1>4. \A r \in Sayable(S) : r.end \in 0 .. Present
    <2>. HIDE DEF S
    <2>1. \A r \in Sayable(S) : r.end \in {x.end : x \in S}
      BY <1>1, SayableFields
    <2>. QED BY <1>2, <2>1
  <1>5. /\ out \in Seq(Sayable(S)) /\ ToSet(out) = ToSet(merged)
        /\ \A k, l \in DOMAIN out : k < l => out[k].end >= out[l].end
    <2>1. \A r \in Sayable(S) : r.end \in Nat
      BY <1>4
    <2>. HIDE DEF S, merged
    <2>. QED BY <1>3, <2>1, SortFacts
  <1>6. ordered_roles(said.roles) = out
    BY DEF ordered_roles
  <1>. HIDE DEF out, merged, S
  <1>7. \A r \in ToSet(out) : DatesFrom(r, S) /\ r.start \in 0 .. Present /\ r.end \in 0 .. Present
    BY <1>2, <1>3, <1>5 DEF DatesFrom
  <1>. QED BY <1>3, <1>5, <1>6, <1>7 DEF S

\* A true resume agrees with the profile, in whatever order it was written.
LEMMA TruthAgrees ==
    ASSUME NEW profile, ProfileShape(profile), profile.within = {},
           NEW said, SaidShape(said), Truthful(profile, said),
           NEW r, DatesFrom(r, ToSet(said.roles)), r.start \in 0 .. Present, r.end \in 0 .. Present
    PROVE  consistent(profile, r)
  <1>1. PICK a \in ToSet(said.roles) : a.org = r.org /\ a.start = r.start
    BY DEF DatesFrom
  <1>2. PICK b \in ToSet(said.roles) : b.org = r.org /\ b.end = r.end
    BY DEF DatesFrom
  <1>3. PICK d \in ToSet(profile.roles) : a.org = d.org /\ a.start = d.start /\ a.end = d.end
    BY DEF Truthful
  <1>4. PICK e \in ToSet(profile.roles) : b.org = e.org /\ b.start = e.start /\ b.end = e.end
    BY DEF Truthful
  <1>5. r.org \in Employers(profile)
    BY <1>1, <1>3 DEF Employers, ToSet
  <1>. DEFINE p == Span(profile, r.org)
  <1>6. /\ p.start \in 0 .. Present /\ p.end \in 0 .. Present
        /\ p.start <= d.start /\ d.end <= p.end /\ p.start <= e.start /\ e.end <= p.end
    BY <1>1, <1>2, <1>3, <1>4, <1>5, SpanFacts
  <1>7. /\ d.start \in 0 .. Present /\ d.end \in 0 .. Present /\ d.start <= d.end
        /\ e.start \in 0 .. Present /\ e.end \in 0 .. Present /\ e.start <= e.end
    BY DEF ProfileShape
  <1>8. r.start = d.start /\ r.end = e.end
    BY <1>1, <1>2, <1>3, <1>4
  <1>. HIDE DEF p
  <1>9. /\ r.start >= p.start /\ r.end >= p.start
        /\ r.start <= p.end /\ r.end <= p.end
    BY <1>6, <1>7, <1>8
  <1>. QED BY <1>5, <1>9, ConsistentIs DEF p

\* The roles of a document, what the gates say of them, and a true resume.
LEMMA TenureFacts ==
    ASSUME NEW profile, ProfileShape(profile), NEW said, SaidShape(said),
           NEW a, a = generate_resume(profile, said)
    PROVE  /\ a.content.roles = ordered_roles(said.roles)
           /\ (a.fact_gate /\ a.ats /\ profile.within = {}) =>
                 \A r \in ToSet(a.content.roles) :
                     /\ r.start >= Span(profile, r.org).start
                     /\ r.end \in {Present} \cup 0 .. Span(profile, r.org).end
           /\ (Truthful(profile, said) /\ profile.within = {}) =>
                 \A r \in ToSet(a.content.roles) : consistent(profile, r)
  <1>. DEFINE content == [said EXCEPT !.roles = ordered_roles(@)]
              roles == ordered_roles(said.roles)
  <1>1. a.content = content /\ a.ats = verify_ats(profile, content, said.page)
    BY DEF generate_resume
  <1>2. content.roles = roles
    BY DEF SaidShape
  <1>. HIDE DEF content
  <1>3. a.ats => \A r \in ToSet(roles) : consistent(profile, r)
    <2>1. verify_ats(profile, content, said.page) => \A r \in ToSet(content.roles) : consistent(profile, r)
      BY Zenon DEF verify_ats
    <2>. QED BY <1>1, <1>2, <2>1
  <1>4. \A r \in ToSet(roles) : DatesFrom(r, ToSet(said.roles)) /\ r.start \in 0 .. Present /\ r.end \in 0 .. Present
    BY OrderedFacts
  <1>. HIDE DEF roles
  <1>5. ASSUME a.ats, profile.within = {}, NEW r \in ToSet(roles)
        PROVE  r.start >= Span(profile, r.org).start /\ r.end \in {Present} \cup 0 .. Span(profile, r.org).end
    <2>1. consistent(profile, r) /\ r.start \in 0 .. Present /\ r.end \in 0 .. Present
      BY <1>3, <1>4, <1>5
    <2>. DEFINE p == Span(profile, r.org)
    <2>2. /\ r.org \in Employers(profile) /\ r.start >= p.start
          /\ r.end # Present /\ p.end # Present => r.end <= p.end
      BY <1>5, <2>1, ConsistentIs
    <2>3. p.end \in 0 .. Present
      BY <2>2, SpanFacts
    <2>. HIDE DEF p
    <2>4. r.end \in {Present} \cup 0 .. p.end
      <3>1. CASE r.end = Present
        BY <3>1
      <3>2. CASE r.end # Present
        <4>1. r.end <= p.end
          <5>1. CASE p.end = Present
            BY <2>1, <5>1
          <5>2. CASE p.end # Present
            BY <2>2, <3>2, <5>2
          <5>. QED BY <5>1, <5>2
        <4>2. r.end \in 0 .. Present /\ p.end \in 0 .. Present
          BY <2>1, <2>3
        <4>3. r.end \in 0 .. p.end
          <5>. DEFINE x == r.end
                      y == p.end
          <5>1. x \in 0 .. Present /\ y \in 0 .. Present /\ x <= y
            BY <4>1, <4>2
          <5>. HIDE DEF x, y
          <5>2. x \in 0 .. y
            BY <5>1 DEF Present
          <5>. QED BY <5>2 DEF x, y
        <4>. QED BY <4>3
      <3>. QED BY <3>1, <3>2
    <2>. QED BY <2>2, <2>4 DEF p
  <1>6. ASSUME Truthful(profile, said), profile.within = {}, NEW r \in ToSet(roles)
        PROVE  consistent(profile, r)
    BY <1>4, <1>6, TruthAgrees
  <1>. QED BY <1>1, <1>2, <1>5, <1>6 DEF roles

\* The documents' dates, roles and bullets: what TenureChecked says of them.
LEMMA TenureTrue == Asked => TenureChecked
  <1>. SUFFICES ASSUME Asked, Decided("resume") PROVE TenureChecked
    BY DEF TenureChecked
  <1>. DEFINE c == asked
              a == answer[1].resume
              roles == a.content.roles
              said == c.said.roles
  <1>1. c \in ResumeCases /\ a = generate_resume(c.profile, c.said)
    <2>1. asked \in ResumeCases /\ answer[1] = [resume |-> generate_resume(c.profile, c.said),
                                                letter |-> write_cover_letter(c.profile, c.letter)]
      BY AnswerIs DEF Cases, Result
    <2>. QED BY <2>1
  <1>2. ProfileShape(c.profile) /\ SaidShape(c.said)
    BY <1>1, ResumeAssumption DEF ProfileShape, SaidShape
  <1>. HIDE DEF c, a
  <1>3. /\ roles = ordered_roles(said)
        /\ (a.fact_gate /\ a.ats /\ c.profile.within = {}) =>
              \A r \in ToSet(roles) :
                  /\ r.start >= Span(c.profile, r.org).start
                  /\ r.end \in {Present} \cup 0 .. Span(c.profile, r.org).end
        /\ (Truthful(c.profile, c.said) /\ c.profile.within = {}) => \A r \in ToSet(roles) : consistent(c.profile, r)
    BY <1>1, <1>2, TenureFacts
  <1>4. /\ BulletsIn(ToSet(ordered_roles(said))) = BulletsIn(ToSet(said))
        /\ OrgsIn(ToSet(ordered_roles(said))) = OrgsIn(ToSet(said))
        /\ \A i, j \in DOMAIN ordered_roles(said) : i < j => ordered_roles(said)[i].end >= ordered_roles(said)[j].end
    BY <1>2, OrderedFacts
  <1>. HIDE DEF roles, said
  <1>5. /\ BulletsIn(ToSet(roles)) = BulletsIn(ToSet(said))
        /\ OrgsIn(ToSet(roles)) = OrgsIn(ToSet(said))
        /\ \A i, j \in DOMAIN roles : i < j => roles[i].end >= roles[j].end
    BY <1>3, <1>4
  <1>6. /\ UNION {ToSet(r.bullets) : r \in ToSet(roles)} = UNION {ToSet(r.bullets) : r \in ToSet(said)}
        /\ {r.org : r \in ToSet(roles)} = {r.org : r \in ToSet(said)}
    BY <1>5 DEF BulletsIn, OrgsIn
  <1>. QED BY <1>3, <1>5, <1>6 DEF TenureChecked, a, roles, said, c

\* Documents that the gates let through show no time at an employer outside the
\* time the profile gives; merging and ordering lose no bullet and no employer; a
\* true resume is never stopped for its dates: generate_resume, verify_ats and
\* _merge_same_company, for every profile and whatever the model says.
THEOREM TenureIsChecked == Spec => []TenureChecked
  BY AskedAlways, TenureTrue, PTL

-----------------------------------------------------------------------------
(* Pages: the content trimmed to its target.                                *)

-----------------------------------------------------------------------------
\* The counts of a list: their total is a number, none when there is nothing to count.
LEMMA TotalFacts ==
    ASSUME NEW s \in Seq(Nat)
    PROVE  /\ Total(s) \in Nat
           /\ Total(s) > 0 => \E k \in DOMAIN s : s[k] > 0
  <1>1. IsFiniteSet(DOMAIN s) /\ \A k \in DOMAIN s : s[k] \in Nat
    <2>1. Len(s) \in Nat /\ DOMAIN s = 1 .. Len(s) /\ \A k \in DOMAIN s : s[k] \in Nat
      OBVIOUS
    <2>. QED BY <2>1, FS_Interval
  <1>2. Total(s) \in Nat
    BY <1>1, SumIsNat DEF Total
  <1>3. ASSUME \A k \in DOMAIN s : ~(s[k] > 0) PROVE Total(s) = 0
    <2>1. \A k \in DOMAIN s : s[k] = 0
      BY <1>1, <1>3
    <2>. QED BY <1>1, <2>1, SumOfZeros DEF Total
  <1>. QED BY <1>2, <1>3

LessAt(s, k) == [s EXCEPT ![k] = @ - 1]

\* One less of an item is one less in total.
LEMMA TotalOfLess ==
    ASSUME NEW s \in Seq(Nat), NEW k \in DOMAIN s, s[k] > 0
    PROVE  /\ LessAt(s, k) \in Seq(Nat) /\ Len(LessAt(s, k)) = Len(s) /\ Total(LessAt(s, k)) = Total(s) - 1
           /\ LessAt(s, k)[k] = s[k] - 1
           /\ \A i \in DOMAIN s : i # k => LessAt(s, k)[i] = s[i]
  <1>. DEFINE t == LessAt(s, k)
              f == [x \in DOMAIN s \ {k} |-> s[x]]
  <1>1. Len(s) \in Nat /\ DOMAIN s = 1 .. Len(s) /\ \A x \in DOMAIN s : s[x] \in Nat
    OBVIOUS
  <1>2. /\ DOMAIN t = DOMAIN s /\ t[k] = s[k] - 1 /\ \A i \in DOMAIN s : i # k => t[i] = s[i]
    BY DEF LessAt
  <1>3. s[k] - 1 \in Nat
    BY <1>1
  <1>4. \A x \in DOMAIN s : t[x] \in Nat
    BY <1>1, <1>2, <1>3
  <1>5. t \in Seq(Nat) /\ Len(t) = Len(s)
    <2>1. t = [x \in 1 .. Len(s) |-> t[x]]
      BY <1>1 DEF LessAt
    <2>. HIDE DEF t
    <2>. QED BY <1>1, <1>2, <1>4, <2>1
  <1>6. IsFiniteSet(DOMAIN s) /\ IsFiniteSet(DOMAIN s \ {k})
    <2>1. IsFiniteSet(DOMAIN s)
      BY <1>1, FS_Interval
    <2>. QED BY <2>1, FS_Subset
  <1>7. DOMAIN f = DOMAIN s \ {k} /\ \A x \in DOMAIN f : f[x] = s[x] /\ f[x] = t[x] /\ f[x] \in Nat
    BY <1>1, <1>2
  <1>. HIDE DEF f, t
  <1>8. SumFunction(s) = s[k] + SumFunction(f) /\ SumFunction(f) \in Nat
    BY <1>1, <1>6, <1>7, SumOfOneMore
  <1>9. SumFunction(t) = t[k] + SumFunction(f)
    BY <1>2, <1>4, <1>6, <1>7, SumOfOneMore
  <1>10. Total(t) = Total(s) - 1
    BY <1>1, <1>2, <1>8, <1>9 DEF Total
  <1>. QED BY <1>2, <1>5, <1>10 DEF t

\* The last item's part of the total.
LEMMA TotalOfFront ==
    ASSUME NEW s \in Seq(Nat), s # <<>>
    PROVE  /\ Front(s) \in Seq(Nat) /\ Len(Front(s)) = Len(s) - 1 /\ Last(s) \in Nat
           /\ Total(s) = Last(s) + Total(Front(s)) /\ Total(Front(s)) \in Nat
           /\ \A i \in DOMAIN Front(s) : Front(s)[i] = s[i]
  <1>. DEFINE f == Front(s)
              n == Len(s)
  <1>1. /\ f \in Seq(Nat) /\ Len(f) = n - 1 /\ Last(s) \in Nat /\ \A i \in DOMAIN f : f[i] = s[i]
    BY FrontLast
  <1>2. n \in Nat /\ n # 0 /\ DOMAIN s = 1 .. n /\ n \in DOMAIN s /\ \A x \in DOMAIN s : s[x] \in Nat
    OBVIOUS
  <1>. HIDE DEF f
  <1>3. DOMAIN f = 1 .. n - 1 /\ \A x \in DOMAIN f : f[x] \in Nat
    BY <1>1
  <1>4. 1 .. n - 1 = (1 .. n) \ {n}
    BY <1>2
  <1>. HIDE DEF n
  <1>5. IsFiniteSet(DOMAIN s) /\ IsFiniteSet(DOMAIN f)
    <2>1. IsFiniteSet(DOMAIN s)
      BY <1>2, FS_Interval
    <2>. QED BY <1>2, <1>3, <1>4, <2>1, FS_Subset
  <1>6. SumFunction(s) = s[n] + SumFunction(f) /\ SumFunction(f) \in Nat
    BY <1>1, <1>2, <1>3, <1>4, <1>5, SumOfOneMore
  <1>. QED BY <1>1, <1>6 DEF f, n, Total, Last

FloorOf(i) == IF i <= 2 THEN 2 ELSE 1
AtFloorOf(x, i) == i \notin DOMAIN x.roles \/ x.roles[i] <= FloorOf(i)
OlderAtFloor(b, x, n) == \A i \in DOMAIN b.roles : i > n => AtFloorOf(x, i)
SizeOf(c) == Total(c.skills) + Total(c.roles) + Len(c.roles) + Total(c.projects) + Len(c.projects)
GoneOrUnder(x, i, n) == i \notin DOMAIN x.roles \/ x.roles[i] < n

\* What every trim of x to y does, and what it spares.
TrimStep(x, y) ==
    /\ ContentShape(y) /\ Total(y.skills) <= Total(x.skills) /\ SizeOf(y) <= SizeOf(x) - 1
    /\ Len(y.roles) <= Len(x.roles) /\ \A i \in DOMAIN y.roles : y.roles[i] <= x.roles[i]
    /\ \A i \in DOMAIN x.roles : GoneOrUnder(y, i, x.roles[i]) => OlderAtFloor(x, x, i)
    /\ y.projects # x.projects =>
          x.projects # <<>> /\ OlderAtFloor(x, x, 0) /\ Len(x.roles) <= 3 /\ Total(x.skills) <= 26
    /\ \A i \in DOMAIN x.roles : i <= 2 /\ x.roles[i] >= 2 /\ GoneOrUnder(y, i, 2) => y.projects = <<>>

\* What is true of every content x that b is trimmed to.
FitSoFar(b, x) ==
    /\ ContentShape(x)
    /\ Len(x.roles) <= Len(b.roles) /\ \A i \in DOMAIN x.roles : x.roles[i] <= b.roles[i]
    /\ \A i \in DOMAIN b.roles : GoneOrUnder(x, i, b.roles[i]) => OlderAtFloor(b, x, i)
    /\ x.projects # b.projects => OlderAtFloor(b, x, 0) /\ Len(x.roles) <= 3 /\ Total(x.skills) <= 26
    /\ \A i \in DOMAIN b.roles : i <= 2 /\ b.roles[i] >= 2 /\ GoneOrUnder(x, i, 2) => x.projects = <<>>

\* The types of a content's parts.
LEMMA ContentFacts ==
    ASSUME NEW x, ContentShape(x)
    PROVE  /\ x.skills \in Seq(Nat) /\ x.roles \in Seq(Nat) /\ x.projects \in Seq(Nat)
           /\ Len(x.roles) \in Nat /\ DOMAIN x.roles = 1 .. Len(x.roles) /\ \A i \in DOMAIN x.roles : x.roles[i] \in Nat
           /\ Len(x.skills) \in Nat /\ Len(x.projects) \in Nat
           /\ Total(x.skills) \in Nat /\ Total(x.roles) \in Nat /\ Total(x.projects) \in Nat
  <1>1. x.skills \in Seq(Nat) /\ x.roles \in Seq(Nat) /\ x.projects \in Seq(Nat)
    BY DEF ContentShape
  <1>2. Total(x.skills) \in Nat /\ Total(x.roles) \in Nat /\ Total(x.projects) \in Nat
    BY <1>1, TotalFacts
  <1>. QED BY <1>1, <1>2

\* One trim more keeps what is true so far.
LEMMA StepKeeps ==
    ASSUME NEW b, ContentShape(b), NEW x, FitSoFar(b, x), NEW y, TrimStep(x, y)
    PROVE  FitSoFar(b, y)
  <1>. DEFINE B == b.roles
              X == x.roles
              Y == y.roles
              n == Len(B)
              k == Len(X)
              l == Len(Y)
  <1>1. /\ n \in Nat /\ DOMAIN B = 1 .. n /\ \A i \in 1 .. n : B[i] \in Nat
        /\ k \in Nat /\ DOMAIN X = 1 .. k /\ \A i \in 1 .. k : X[i] \in Nat
        /\ l \in Nat /\ DOMAIN Y = 1 .. l /\ \A i \in 1 .. l : Y[i] \in Nat
        /\ Total(x.skills) \in Nat /\ Total(y.skills) \in Nat
    BY ContentFacts DEF FitSoFar, TrimStep
  <1>2. /\ k <= n /\ \A i \in 1 .. k : X[i] <= B[i]
        /\ l <= k /\ \A i \in 1 .. l : Y[i] <= X[i]
    BY <1>1 DEF FitSoFar, TrimStep
  <1>3. \A i \in Int : AtFloorOf(x, i) => AtFloorOf(y, i)
    <2>. SUFFICES ASSUME NEW i \in Int, AtFloorOf(x, i), i \in DOMAIN Y PROVE Y[i] <= FloorOf(i)
      BY DEF AtFloorOf
    <2>1. i \in 1 .. l /\ i \in 1 .. k /\ X[i] <= FloorOf(i) /\ FloorOf(i) \in Nat
      BY <1>1, <1>2 DEF AtFloorOf, FloorOf
    <2>2. Y[i] <= X[i] /\ X[i] \in Nat /\ Y[i] \in Nat
      BY <1>1, <1>2, <2>1
    <2>. QED BY <2>1, <2>2
  <1>4. \A i \in Int : OlderAtFloor(b, x, i) => OlderAtFloor(b, y, i)
    BY <1>1, <1>3 DEF OlderAtFloor
  <1>5. \A i \in Int : OlderAtFloor(x, x, i) => OlderAtFloor(b, x, i)
    BY <1>1 DEF OlderAtFloor, AtFloorOf
  <1>6. ContentShape(y) /\ l <= n /\ \A i \in 1 .. l : Y[i] <= B[i]
    <2>1. ASSUME NEW i \in 1 .. l PROVE Y[i] <= B[i]
      <3>1. i \in 1 .. k /\ i \in 1 .. n
        BY <1>1, <1>2
      <3>2. Y[i] <= X[i] /\ X[i] <= B[i] /\ Y[i] \in Nat /\ X[i] \in Nat /\ B[i] \in Nat
        BY <1>1, <1>2, <3>1
      <3>. QED BY <3>2
    <2>2. l <= n
      BY <1>1, <1>2
    <2>. QED BY <2>1, <2>2 DEF TrimStep
  <1>7. ASSUME NEW i \in DOMAIN B, GoneOrUnder(y, i, B[i]) PROVE OlderAtFloor(b, y, i)
    <2>1. CASE GoneOrUnder(x, i, B[i])
      BY <1>1, <1>4, <2>1 DEF FitSoFar
    <2>2. CASE ~GoneOrUnder(x, i, B[i])
      <3>1. i \in 1 .. k /\ ~(X[i] < B[i]) /\ X[i] <= B[i] /\ X[i] \in Nat /\ B[i] \in Nat
        BY <1>1, <1>2, <2>2 DEF GoneOrUnder
      <3>2. X[i] = B[i]
        BY <3>1
      <3>3. GoneOrUnder(y, i, X[i])
        BY <1>7, <3>2
      <3>4. OlderAtFloor(x, x, i)
        BY <1>1, <3>1, <3>3 DEF TrimStep
      <3>. QED BY <1>1, <1>4, <1>5, <3>4
    <2>. QED BY <2>1, <2>2
  <1>8. ASSUME y.projects # b.projects
        PROVE  OlderAtFloor(b, y, 0) /\ l <= 3 /\ Total(y.skills) <= 26
    <2>1. OlderAtFloor(b, x, 0) /\ k <= 3 /\ Total(x.skills) <= 26
      <3>1. CASE x.projects # b.projects
        BY <3>1 DEF FitSoFar
      <3>2. CASE x.projects = b.projects
        BY <1>5, <1>8, <3>2 DEF TrimStep
      <3>. QED BY <3>1, <3>2
    <2>2. Total(y.skills) <= Total(x.skills)
      BY DEF TrimStep
    <2>. QED BY <1>1, <1>2, <1>4, <2>1, <2>2
  <1>9. ASSUME NEW i \in DOMAIN B, i <= 2, B[i] >= 2, GoneOrUnder(y, i, 2) PROVE y.projects = <<>>
    <2>1. CASE GoneOrUnder(x, i, 2)
      <3>1. x.projects = <<>>
        BY <1>9, <2>1 DEF FitSoFar
      <3>. QED BY <3>1 DEF TrimStep
    <2>2. CASE ~GoneOrUnder(x, i, 2)
      <3>1. i \in 1 .. k /\ ~(X[i] < 2) /\ X[i] \in Nat
        BY <1>1, <2>2 DEF GoneOrUnder
      <3>2. X[i] >= 2
        BY <3>1
      <3>. QED BY <1>1, <1>9, <3>1, <3>2 DEF TrimStep
    <2>. QED BY <2>1, <2>2
  <1>. QED BY <1>1, <1>6, <1>7, <1>8, <1>9 DEF FitSoFar

\* Nothing is trimmed at first.
LEMMA StartFits == ASSUME NEW b, ContentShape(b) PROVE FitSoFar(b, b)
  <1>1. /\ DOMAIN b.roles = 1 .. Len(b.roles) /\ Len(b.roles) \in Nat
        /\ \A i \in DOMAIN b.roles : b.roles[i] \in Nat
    BY ContentFacts
  <1>2. \A i \in DOMAIN b.roles : ~GoneOrUnder(b, i, b.roles[i]) /\ b.roles[i] <= b.roles[i]
    BY <1>1 DEF GoneOrUnder
  <1>3. \A i \in DOMAIN b.roles : b.roles[i] >= 2 => ~GoneOrUnder(b, i, 2)
    BY <1>1 DEF GoneOrUnder
  <1>. QED BY <1>1, <1>2, <1>3 DEF FitSoFar

Biggest(s) ==
    CHOOSE k \in DOMAIN s : \A j \in DOMAIN s : s[j] < s[k] \/ (s[j] = s[k] /\ k <= j)

\* The first of the largest categories is one that has a skill.
LEMMA BiggestFacts ==
    ASSUME NEW s \in Seq(Nat), Total(s) > 0
    PROVE  Biggest(s) \in DOMAIN s /\ s[Biggest(s)] > 0
  <1>. DEFINE N == Total(s)
              V == {s[k] : k \in DOMAIN s}
              top == Max(V)
              I == {k \in DOMAIN s : s[k] = top}
              Most(k) == \A j \in DOMAIN s : s[j] < s[k] \/ (s[j] = s[k] /\ k <= j)
  <1>1. N \in Nat /\ DOMAIN s = 1 .. Len(s) /\ \A k \in DOMAIN s : s[k] \in Nat
    BY TotalFacts
  <1>2. PICK some \in DOMAIN s : s[some] > 0
    BY TotalFacts
  <1>3. \A k \in DOMAIN s : s[k] <= N
    <2>. SUFFICES ASSUME NEW k \in DOMAIN s, ~(s[k] <= N) PROVE FALSE
      OBVIOUS
    <2>. DEFINE f == [x \in DOMAIN s \ {k} |-> s[x]]
    <2>1. DOMAIN f = DOMAIN s \ {k} /\ \A x \in DOMAIN f : f[x] = s[x] /\ f[x] \in Nat
      BY <1>1
    <2>2. IsFiniteSet(DOMAIN s) /\ IsFiniteSet(DOMAIN f)
      <3>1. IsFiniteSet(DOMAIN s)
        <4>1. Len(s) \in Nat
          OBVIOUS
        <4>. QED BY <1>1, <4>1, FS_Interval
      <3>. QED BY <2>1, <3>1, FS_Subset
    <2>. HIDE DEF f
    <2>3. SumFunction(s) = s[k] + SumFunction(f) /\ SumFunction(f) \in Nat
      BY <1>1, <2>1, <2>2, SumOfOneMore
    <2>4. N = SumFunction(s) /\ s[k] \in Nat
      BY <1>1 DEF Total
    <2>. QED BY <2>3, <2>4
  <1>4. V \in SUBSET (0 .. N) /\ V # {}
    <2>1. \A k \in DOMAIN s : s[k] \in 0 .. N
      <3>. HIDE DEF N
      <3>. QED BY <1>1, <1>3
    <2>. HIDE DEF N
    <2>. QED BY <1>2, <2>1
  <1>. HIDE DEF N
  <1>5. top \in V /\ \A v \in V : v <= top
    <2>. HIDE DEF V
    <2>. QED BY <1>1, <1>4, GreatestUpTo
  <1>6. I # {} /\ I \in SUBSET (DOMAIN s)
    <2>. HIDE DEF top
    <2>. QED BY <1>5
  <1>7. Min(I) \in I /\ \A j \in I : Min(I) <= j
    <2>. HIDE DEF I
    <2>. QED BY <1>6, LeastIndex
  <1>. DEFINE first == Min(I)
  <1>8. first \in DOMAIN s /\ s[first] = top
    BY <1>7
  <1>9. Most(first)
    <2>. HIDE DEF top
    <2>1. \A j \in DOMAIN s : s[j] <= top /\ s[j] \in Nat
      BY <1>1, <1>5
    <2>2. \A j \in DOMAIN s : s[j] = top => first <= j
      BY <1>7
    <2>3. top \in Nat
      BY <1>1, <1>8
    <2>. HIDE DEF first, I
    <2>. QED BY <1>8, <2>1, <2>2, <2>3
  <1>10. Biggest(s) \in DOMAIN s /\ Most(Biggest(s))
    <2>1. \E k \in DOMAIN s : Most(k)
      <3>. HIDE DEF Most, first
      <3>. QED BY <1>8, <1>9
    <2>. QED BY <2>1 DEF Biggest
  <1>. DEFINE big == Biggest(s)
  <1>11. s[some] < s[big] \/ s[some] = s[big]
    BY <1>2, <1>10
  <1>. HIDE DEF big
  <1>. QED BY <1>1, <1>2, <1>10, <1>11 DEF big

\* A skill that is popped is one skill less, and nothing else.
LEMMA PopFacts ==
    ASSUME NEW c, ContentShape(c), Total(c.skills) > 0
    PROVE  /\ ContentShape(PopSkill(c)) /\ PopSkill(c).roles = c.roles /\ PopSkill(c).projects = c.projects
           /\ Total(PopSkill(c).skills) = Total(c.skills) - 1 /\ Len(PopSkill(c).skills) = Len(c.skills)
  <1>1. c.skills \in Seq(Nat) /\ c \in [skills : Seq(Nat), roles : Seq(Nat), projects : Seq(Nat)]
    BY DEF ContentShape
  <1>. DEFINE s == c.skills
              big == Biggest(s)
              t == LessAt(s, big)
  <1>2. big \in DOMAIN s /\ s[big] > 0
    BY <1>1, BiggestFacts
  <1>3. PopSkill(c) = [c EXCEPT !.skills = t]
    <2>1. PopSkill(c) = [c EXCEPT !.skills[big] = @ - 1]
      BY DEF PopSkill, Biggest
    <2>2. [c EXCEPT !.skills[big] = @ - 1] = [c EXCEPT !.skills = [s EXCEPT ![big] = @ - 1]]
      OBVIOUS
    <2>. QED BY <2>1, <2>2 DEF LessAt
  <1>. HIDE DEF big
  <1>4. t \in Seq(Nat) /\ Len(t) = Len(s) /\ Total(t) = Total(s) - 1
    BY <1>1, <1>2, TotalOfLess
  <1>. HIDE DEF t
  <1>. QED BY <1>1, <1>3, <1>4 DEF ContentShape

Thick(c) == {i \in 1 .. Upto(2, Len(c.roles)) : c.roles[i] > 1}
Even(c) == ~(Total(c.skills) > 26) /\ Spare(c) = {}

\* The step that comes next, and what is left when it comes.
LEMMA NextTrimIs ==
    ASSUME NEW c
    PROVE  \/ NextTrim(c) = "skill" /\ Total(c.skills) > 26
           \/ NextTrim(c) = "bullet" /\ ~(Total(c.skills) > 26) /\ Spare(c) # {}
           \/ NextTrim(c) = "role" /\ Even(c) /\ Len(c.roles) > 3
           \/ NextTrim(c) = "project_bullet" /\ Even(c) /\ ~(Len(c.roles) > 3) /\ c.projects # <<>> /\ Last(c.projects) > 1
           \/ NextTrim(c) = "project" /\ Even(c) /\ ~(Len(c.roles) > 3) /\ c.projects # <<>> /\ Len(c.projects) > 1
           \/ NextTrim(c) = "last_resort" /\ Even(c) /\ c.projects = <<>> /\ Thick(c) # {}
           \/ /\ NextTrim(c) = "none" /\ Even(c) /\ ~(Len(c.roles) > 3)
              /\ c.projects # <<>> => ~(Last(c.projects) > 1) /\ ~(Len(c.projects) > 1)
  <1>1. NextTrim(c) =
          IF Total(c.skills) > 26 THEN "skill"
          ELSE IF Spare(c) # {} THEN "bullet"
          ELSE IF Len(c.roles) > 3 THEN "role"
          ELSE IF c.projects # <<>> THEN
              IF Last(c.projects) > 1 THEN "project_bullet"
              ELSE IF Len(c.projects) > 1 THEN "project" ELSE "none"
          ELSE IF Thick(c) # {} THEN "last_resort" ELSE "none"
    BY Zenon DEF NextTrim, Thick
  <1>. QED BY <1>1 DEF Even

\* Without a role that can spare a bullet every role is at its floor.
LEMMA EvenIsAtFloor ==
    ASSUME NEW c, ContentShape(c), Even(c)
    PROVE  \A b : \A n \in Int : ContentShape(b) => OlderAtFloor(b, c, n)
  <1>. SUFFICES ASSUME NEW b, ContentShape(b), NEW i \in DOMAIN b.roles PROVE AtFloorOf(c, i)
    BY DEF OlderAtFloor
  <1>1. ASSUME NEW j \in DOMAIN c.roles PROVE c.roles[j] <= FloorOf(j)
    <2>1. ~(c.roles[j] > IF j <= 2 THEN 2 ELSE 1)
      BY <1>1 DEF Even, Spare
    <2>2. c.roles[j] \in Nat
      BY <1>1, ContentFacts
    <2>. QED BY <2>1, <2>2 DEF FloorOf
  <1>. QED BY <1>1 DEF AtFloorOf

\* A trim that leaves the roles alone.
LEMMA SparesRoles ==
    ASSUME NEW x, ContentShape(x), NEW y, ContentShape(y), y.roles = x.roles,
           Total(y.skills) <= Total(x.skills), SizeOf(y) <= SizeOf(x) - 1,
           y.projects # x.projects => x.projects # <<>> /\ Even(x) /\ ~(Len(x.roles) > 3)
    PROVE  TrimStep(x, y)
  <1>1. /\ Len(x.roles) \in Nat /\ DOMAIN x.roles = 1 .. Len(x.roles) /\ \A i \in DOMAIN x.roles : x.roles[i] \in Nat
        /\ Total(x.skills) \in Nat
    BY ContentFacts
  <1>2. \A i \in DOMAIN x.roles : ~GoneOrUnder(y, i, x.roles[i]) /\ x.roles[i] <= x.roles[i]
    BY <1>1 DEF GoneOrUnder
  <1>3. \A i \in DOMAIN x.roles : x.roles[i] >= 2 => ~GoneOrUnder(y, i, 2)
    BY <1>1 DEF GoneOrUnder
  <1>4. Even(x) => OlderAtFloor(x, x, 0)
    BY EvenIsAtFloor
  <1>5. Even(x) => Total(x.skills) <= 26
    BY <1>1 DEF Even
  <1>6. ~(Len(x.roles) > 3) => Len(x.roles) <= 3
    BY <1>1
  <1>. QED BY <1>1, <1>2, <1>3, <1>4, <1>5, <1>6 DEF TrimStep

\* A list that loses one of its last item, or its last item, is smaller.
LEMMA SmallerList ==
    ASSUME NEW p \in Seq(Nat), p # <<>>
    PROVE  /\ Last(p) > 0 =>
                 /\ LessAt(p, Len(p)) \in Seq(Nat)
                 /\ Total(LessAt(p, Len(p))) + Len(LessAt(p, Len(p))) <= Total(p) + Len(p) - 1
           /\ Front(p) \in Seq(Nat)
           /\ Total(Front(p)) + Len(Front(p)) <= Total(p) + Len(p) - 1
  <1>1. Total(p) \in Nat /\ Len(p) \in Nat
    BY TotalFacts
  <1>2. Len(p) \in DOMAIN p
    OBVIOUS
  <1>3. ASSUME Last(p) > 0
        PROVE  /\ LessAt(p, Len(p)) \in Seq(Nat)
               /\ Total(LessAt(p, Len(p))) + Len(LessAt(p, Len(p))) <= Total(p) + Len(p) - 1
    <2>. DEFINE k == Len(p)
                q == LessAt(p, k)
    <2>1. k \in DOMAIN p /\ p[k] > 0
      BY <1>2, <1>3 DEF Last
    <2>. HIDE DEF k
    <2>2. q \in Seq(Nat) /\ Len(q) = Len(p) /\ Total(q) = Total(p) - 1
      BY <2>1, TotalOfLess
    <2>. HIDE DEF q
    <2>3. Total(q) + Len(q) <= Total(p) + Len(p) - 1
      <3>. DEFINE a == Total(p)
                  b == Len(p)
                  d == Total(q)
                  e == Len(q)
      <3>1. a \in Nat /\ b \in Nat /\ e = b /\ d = a - 1
        BY <1>1, <2>2
      <3>. HIDE DEF a, b, d, e
      <3>2. d + e <= a + b - 1
        BY <3>1
      <3>. QED BY <3>2 DEF a, b, d, e
    <2>. QED BY <2>2, <2>3 DEF q, k
  <1>4. /\ Front(p) \in Seq(Nat) /\ Len(Front(p)) = Len(p) - 1 /\ Last(p) \in Nat
        /\ Total(p) = Last(p) + Total(Front(p)) /\ Total(Front(p)) \in Nat
    BY TotalOfFront
  <1>5. Total(Front(p)) + Len(Front(p)) <= Total(p) + Len(p) - 1
    <2>. DEFINE a == Total(p)
                b == Len(p)
                d == Total(Front(p))
                e == Len(Front(p))
                l == Last(p)
    <2>1. a \in Nat /\ b \in Nat /\ e = b - 1 /\ a = l + d /\ l \in Nat /\ d \in Nat
      BY <1>1, <1>4
    <2>. HIDE DEF a, b, d, e, l
    <2>2. d + e <= a + b - 1
      BY <2>1
    <2>. QED BY <2>2 DEF a, b, d, e
  <1>. QED BY <1>3, <1>4, <1>5

\* Trimmed skills, roles or projects make a smaller content.
LEMMA SmallerContent ==
    ASSUME NEW x, ContentShape(x), NEW y, ContentShape(y),
           Total(y.skills) <= Total(x.skills), Len(y.skills) = Len(x.skills),
           Total(y.roles) + Len(y.roles) <= Total(x.roles) + Len(x.roles),
           Total(y.projects) + Len(y.projects) <= Total(x.projects) + Len(x.projects),
           \/ Total(y.skills) <= Total(x.skills) - 1
           \/ Total(y.roles) + Len(y.roles) <= Total(x.roles) + Len(x.roles) - 1
           \/ Total(y.projects) + Len(y.projects) <= Total(x.projects) + Len(x.projects) - 1
    PROVE  SizeOf(y) <= SizeOf(x) - 1
  <1>1. /\ Len(x.roles) \in Nat /\ Len(x.projects) \in Nat /\ Total(x.skills) \in Nat /\ Total(x.roles) \in Nat
        /\ Total(x.projects) \in Nat
    BY ContentFacts
  <1>2. /\ Len(y.roles) \in Nat /\ Len(y.projects) \in Nat /\ Total(y.skills) \in Nat /\ Total(y.roles) \in Nat
        /\ Total(y.projects) \in Nat
    BY ContentFacts
  <1>. DEFINE s == Total(x.skills)
              t == Total(y.skills)
              a == Total(x.roles)
              b == Len(x.roles)
              c == Total(x.projects)
              d == Len(x.projects)
              e == Total(y.roles)
              f == Len(y.roles)
              g == Total(y.projects)
              h == Len(y.projects)
  <1>3. /\ s \in Nat /\ t \in Nat /\ a \in Nat /\ b \in Nat /\ c \in Nat /\ d \in Nat /\ e \in Nat /\ f \in Nat
        /\ g \in Nat /\ h \in Nat
        /\ t <= s /\ e + f <= a + b /\ g + h <= c + d
        /\ t <= s - 1 \/ e + f <= a + b - 1 \/ g + h <= c + d - 1
    BY <1>1, <1>2
  <1>4. SizeOf(y) = t + e + f + g + h /\ SizeOf(x) = s + a + b + c + d
    BY DEF SizeOf
  <1>. HIDE DEF s, t, a, b, c, d, e, f, g, h
  <1>5. t + e + f + g + h <= s + a + b + c + d - 1
    BY <1>3
  <1>. QED BY <1>3, <1>4, <1>5

\* Trimming a skill spares the rest.
LEMMA TrimsSkill ==
    ASSUME NEW x, ContentShape(x), NextTrim(x) = "skill"
    PROVE  TrimStep(x, trim_one(x))
  <1>. DEFINE y == PopSkill(x)
  <1>1. trim_one(x) = y
    BY DEF trim_one
  <1>2. Total(x.skills) > 26 /\ Total(x.skills) \in Nat /\ Total(x.roles) + Len(x.roles) \in Nat
        /\ Total(x.projects) + Len(x.projects) \in Nat
    <2>1. Total(x.skills) > 26
      BY NextTrimIs
    <2>2. /\ Total(x.skills) \in Nat /\ Total(x.roles) \in Nat /\ Len(x.roles) \in Nat
          /\ Total(x.projects) \in Nat /\ Len(x.projects) \in Nat
      BY ContentFacts
    <2>. QED BY <2>1, <2>2
  <1>3. /\ ContentShape(y) /\ y.roles = x.roles /\ y.projects = x.projects
        /\ Total(y.skills) = Total(x.skills) - 1 /\ Len(y.skills) = Len(x.skills)
    <2>1. Total(x.skills) > 0
      BY <1>2
    <2>. QED BY <2>1, PopFacts
  <1>. HIDE DEF y
  <1>4. /\ Total(y.skills) <= Total(x.skills) - 1 /\ Total(y.skills) <= Total(x.skills)
        /\ Total(y.roles) + Len(y.roles) <= Total(x.roles) + Len(x.roles)
        /\ Total(y.projects) + Len(y.projects) <= Total(x.projects) + Len(x.projects)
    BY <1>2, <1>3
  <1>5. SizeOf(y) <= SizeOf(x) - 1
    BY <1>3, <1>4, SmallerContent
  <1>. QED BY <1>1, <1>3, <1>4, <1>5, SparesRoles

\* Projects are trimmed when nothing cheaper is left.
LEMMA TrimsProjects ==
    ASSUME NEW x, ContentShape(x), NextTrim(x) \in {"project_bullet", "project"}
    PROVE  TrimStep(x, trim_one(x))
  <1>1. x \in [skills : Seq(Nat), roles : Seq(Nat), projects : Seq(Nat)]
    BY DEF ContentShape
  <1>2. x.projects # <<>> /\ Even(x) /\ ~(Len(x.roles) > 3) /\ x.projects \in Seq(Nat)
    BY NextTrimIs, ContentFacts
  <1>. DEFINE p == x.projects
              q == IF NextTrim(x) = "project_bullet" THEN LessAt(p, Len(p)) ELSE Front(p)
              y == [x EXCEPT !.projects = q]
  <1>3. trim_one(x) = y
    <2>1. CASE NextTrim(x) = "project_bullet"
      <3>1. trim_one(x) = [x EXCEPT !.projects[Len(x.projects)] = @ - 1]
        BY <2>1 DEF trim_one
      <3>. QED BY <2>1, <3>1 DEF LessAt
    <2>2. CASE NextTrim(x) = "project"
      <3>1. trim_one(x) = [x EXCEPT !.projects = Front(@)]
        BY <2>2 DEF trim_one
      <3>. QED BY <2>2, <3>1
    <2>. QED BY <2>1, <2>2
  <1>4. p \in Seq(Nat) /\ p # <<>>
    BY <1>2
  <1>5. NextTrim(x) = "project_bullet" => Last(p) > 0
    <2>. SUFFICES ASSUME NextTrim(x) = "project_bullet" PROVE Last(p) > 0
      OBVIOUS
    <2>1. Last(p) > 1
      BY NextTrimIs
    <2>. HIDE DEF p
    <2>2. Last(p) \in Nat
      BY <1>4, TotalOfFront
    <2>. QED BY <2>1, <2>2
  <1>6. q \in Seq(Nat) /\ Total(q) + Len(q) <= Total(p) + Len(p) - 1
    <2>. HIDE DEF p
    <2>. QED BY <1>4, <1>5, SmallerList
  <1>. HIDE DEF q
  <1>7. ContentShape(y) /\ y.roles = x.roles /\ y.skills = x.skills /\ y.projects = q
    BY <1>1, <1>6 DEF ContentShape
  <1>. HIDE DEF y
  <1>8. Total(x.skills) \in Nat /\ Total(x.roles) \in Nat /\ Len(x.roles) \in Nat
    BY ContentFacts
  <1>9. /\ Total(y.skills) <= Total(x.skills)
        /\ Total(y.roles) + Len(y.roles) <= Total(x.roles) + Len(x.roles)
    BY <1>7, <1>8
  <1>10. Total(y.projects) + Len(y.projects) <= Total(x.projects) + Len(x.projects) - 1
    BY <1>6, <1>7
  <1>11. Total(y.projects) + Len(y.projects) <= Total(x.projects) + Len(x.projects)
    <2>1. /\ Total(x.projects) \in Nat /\ Len(x.projects) \in Nat
          /\ Total(y.projects) \in Nat /\ Len(y.projects) \in Nat
      BY <1>7, ContentFacts
    <2>. DEFINE m == Total(x.projects) + Len(x.projects)
                n == Total(y.projects) + Len(y.projects)
    <2>2. m \in Nat /\ n \in Nat /\ n <= m - 1
      BY <1>10, <2>1
    <2>. HIDE DEF m, n
    <2>3. n <= m
      BY <2>2
    <2>. QED BY <2>3 DEF m, n
  <1>12. SizeOf(y) <= SizeOf(x) - 1
    BY <1>7, <1>9, <1>10, <1>11, SmallerContent
  <1>. QED BY <1>2, <1>3, <1>7, <1>9, <1>12, SparesRoles

\* A trim of the roles only: r is what is left of them.
LEMMA SparesTheRest ==
    ASSUME NEW x, ContentShape(x), NEW r \in Seq(Nat), NEW y, y = [x EXCEPT !.roles = r],
           Total(r) + Len(r) <= Total(x.roles) + Len(x.roles) - 1,
           Len(r) <= Len(x.roles), \A i \in DOMAIN r : r[i] <= x.roles[i],
           \A i \in DOMAIN x.roles : (i \notin DOMAIN r \/ r[i] < x.roles[i]) => OlderAtFloor(x, x, i),
           \A i \in DOMAIN x.roles : i <= 2 /\ x.roles[i] >= 2 /\ (i \notin DOMAIN r \/ r[i] < 2) => x.projects = <<>>
    PROVE  TrimStep(x, y)
  <1>1. /\ Len(x.roles) \in Nat /\ Len(x.projects) \in Nat /\ Total(x.skills) \in Nat /\ Total(x.roles) \in Nat
        /\ Total(x.projects) \in Nat
    BY ContentFacts
  <1>2. ContentShape(y) /\ y.roles = r /\ y.skills = x.skills /\ y.projects = x.projects
    BY DEF ContentShape
  <1>3. Total(r) \in Nat /\ Len(r) \in Nat
    BY TotalFacts
  <1>4. SizeOf(y) <= SizeOf(x) - 1 /\ Total(y.skills) <= Total(x.skills)
    <2>. DEFINE m == Total(x.roles) + Len(x.roles)
                n == Total(r) + Len(r)
    <2>1. m \in Nat /\ n \in Nat /\ n <= m - 1
      BY <1>1, <1>3
    <2>. HIDE DEF m, n
    <2>2. n <= m
      BY <2>1
    <2>3. Total(x.projects) + Len(x.projects) \in Nat
      BY <1>1
    <2>4. /\ Total(y.skills) <= Total(x.skills) /\ Len(y.skills) = Len(x.skills)
          /\ Total(y.projects) + Len(y.projects) <= Total(x.projects) + Len(x.projects)
      BY <1>1, <1>2, <2>3
    <2>. QED BY <1>2, <2>1, <2>2, <2>4, SmallerContent DEF m, n
  <1>. QED BY <1>2, <1>4 DEF TrimStep, GoneOrUnder

\* One bullet less of role k.
LEMMA TrimsOneBullet ==
    ASSUME NEW x, ContentShape(x), NEW k \in DOMAIN x.roles, x.roles[k] > 0,
           OlderAtFloor(x, x, k), k <= 2 /\ x.roles[k] <= 2 => x.projects = <<>>
    PROVE  TrimStep(x, [x EXCEPT !.roles[k] = @ - 1])
  <1>. DEFINE r == LessAt(x.roles, k)
              y == [x EXCEPT !.roles = r]
  <1>1. /\ x.roles \in Seq(Nat) /\ Len(x.roles) \in Nat /\ \A i \in DOMAIN x.roles : x.roles[i] \in Nat
        /\ DOMAIN x.roles = 1 .. Len(x.roles) /\ Total(x.roles) \in Nat
    BY ContentFacts
  <1>2. /\ r \in Seq(Nat) /\ Len(r) = Len(x.roles) /\ Total(r) = Total(x.roles) - 1
        /\ r[k] = x.roles[k] - 1 /\ \A i \in DOMAIN x.roles : i # k => r[i] = x.roles[i]
    BY <1>1, TotalOfLess
  <1>3. [x EXCEPT !.roles[k] = @ - 1] = y
    BY DEF LessAt
  <1>. HIDE DEF r
  <1>4. DOMAIN r = DOMAIN x.roles
    BY <1>1, <1>2
  <1>5. \A i \in DOMAIN r : r[i] <= x.roles[i]
    <2>1. ASSUME NEW i \in DOMAIN x.roles PROVE r[i] <= x.roles[i]
      <3>1. x.roles[i] \in Nat
        BY <1>1
      <3>2. r[i] = x.roles[i] \/ r[i] = x.roles[i] - 1
        BY <1>2
      <3>. QED BY <3>1, <3>2
    <2>. QED BY <1>4, <2>1
  <1>6. \A i \in DOMAIN x.roles : i # k => ~(r[i] < x.roles[i])
    BY <1>1, <1>2, SMTT(30)
  <1>7. \A i \in DOMAIN x.roles : (i \notin DOMAIN r \/ r[i] < x.roles[i]) => OlderAtFloor(x, x, i)
    BY <1>4, <1>6
  <1>8. ASSUME NEW i \in DOMAIN x.roles, i <= 2, x.roles[i] >= 2, i \notin DOMAIN r \/ r[i] < 2
        PROVE  x.projects = <<>>
    <2>1. r[i] < 2 /\ x.roles[i] \in Nat
      BY <1>1, <1>4, <1>8
    <2>2. i = k
      <3>1. CASE i # k
        BY <1>2, <1>8, <2>1, <3>1
      <3>. QED BY <3>1
    <2>3. x.roles[k] - 1 < 2 /\ x.roles[k] \in Nat /\ k <= 2
      BY <1>2, <1>8, <2>1, <2>2
    <2>4. x.roles[k] <= 2
      BY <1>1, <1>2, <1>8, <2>1, <2>2
    <2>. QED BY <2>3, <2>4
  <1>9. Total(r) + Len(r) <= Total(x.roles) + Len(x.roles) - 1 /\ Len(r) <= Len(x.roles)
    BY <1>1, <1>2
  <1>10. TrimStep(x, y)
    BY <1>2, <1>5, <1>7, <1>8, <1>9, SparesTheRest
  <1>. QED BY <1>3, <1>10

\* The bullet is the oldest role's that can spare one.
LEMMA TrimsBullet ==
    ASSUME NEW x, ContentShape(x), NextTrim(x) = "bullet"
    PROVE  TrimStep(x, trim_one(x))
  <1>. DEFINE k == Max(Spare(x))
  <1>1. /\ Len(x.roles) \in Nat /\ \A i \in DOMAIN x.roles : x.roles[i] \in Nat
        /\ DOMAIN x.roles = 1 .. Len(x.roles)
    BY ContentFacts
  <1>2. Spare(x) # {} /\ Spare(x) \in SUBSET (0 .. Len(x.roles))
    <2>1. Spare(x) # {}
      BY NextTrimIs
    <2>2. \A i \in Spare(x) : i \in 1 .. Len(x.roles)
      BY <1>1 DEF Spare
    <2>3. \A i \in 1 .. Len(x.roles) : i \in 0 .. Len(x.roles)
      BY <1>1
    <2>. QED BY <2>1, <2>2, <2>3
  <1>3. k \in Spare(x) /\ \A i \in Spare(x) : i <= k
    BY <1>1, <1>2, GreatestUpTo
  <1>4. trim_one(x) = [x EXCEPT !.roles[k] = @ - 1]
    BY DEF trim_one
  <1>. HIDE DEF k
  <1>5. k \in DOMAIN x.roles /\ x.roles[k] > FloorOf(k)
    BY <1>3 DEF Spare, FloorOf
  <1>6. FloorOf(k) \in {1, 2} /\ (k <= 2 => FloorOf(k) = 2)
    BY DEF FloorOf
  <1>7. x.roles[k] > 0 /\ (k <= 2 => ~(x.roles[k] <= 2))
    BY <1>1, <1>5, <1>6
  <1>8. OlderAtFloor(x, x, k)
    <2>. SUFFICES ASSUME NEW i \in DOMAIN x.roles, i > k PROVE AtFloorOf(x, i)
      BY DEF OlderAtFloor
    <2>1. i \in Nat /\ k \in Nat
      BY <1>1, <1>5
    <2>2. i \notin Spare(x)
      BY <1>3, <2>1
    <2>3. ~(x.roles[i] > FloorOf(i)) /\ x.roles[i] \in Nat /\ FloorOf(i) \in Nat
      BY <1>1, <2>2 DEF Spare, FloorOf
    <2>. QED BY <2>3 DEF AtFloorOf
  <1>. QED BY <1>4, <1>5, <1>7, <1>8, TrimsOneBullet

\* The two newest roles go under two bullets when no project is left.
LEMMA TrimsLastResort ==
    ASSUME NEW x, ContentShape(x), NextTrim(x) = "last_resort"
    PROVE  TrimStep(x, trim_one(x))
  <1>. DEFINE k == IF x.roles[1] > 1 THEN 1 ELSE 2
  <1>1. /\ Len(x.roles) \in Nat /\ \A i \in DOMAIN x.roles : x.roles[i] \in Nat
        /\ DOMAIN x.roles = 1 .. Len(x.roles)
    BY ContentFacts
  <1>2. Thick(x) # {} /\ Even(x) /\ x.projects = <<>>
    BY NextTrimIs
  <1>3. PICK i \in 1 .. Upto(2, Len(x.roles)) : x.roles[i] > 1
    BY <1>2 DEF Thick
  <1>4. (i = 1 \/ i = 2) /\ i \in DOMAIN x.roles
    BY <1>1, <1>3 DEF Upto
  <1>5. k \in DOMAIN x.roles /\ x.roles[k] > 1
    BY <1>1, <1>3, <1>4
  <1>6. trim_one(x) = [x EXCEPT !.roles[k] = @ - 1]
    BY DEF trim_one
  <1>. HIDE DEF k
  <1>7. x.roles[k] > 0
    BY <1>1, <1>5
  <1>8. OlderAtFloor(x, x, k)
    <2>1. k \in Int
      BY <1>1, <1>5
    <2>. QED BY <1>2, <2>1, EvenIsAtFloor
  <1>. QED BY <1>2, <1>5, <1>6, <1>7, <1>8, TrimsOneBullet

\* The role that goes is the oldest of more than three, all at their floor.
LEMMA TrimsRole ==
    ASSUME NEW x, ContentShape(x), NextTrim(x) = "role"
    PROVE  TrimStep(x, trim_one(x))
  <1>. DEFINE r == Front(x.roles)
              y == [x EXCEPT !.roles = r]
  <1>1. /\ x.roles \in Seq(Nat) /\ Len(x.roles) \in Nat /\ \A i \in DOMAIN x.roles : x.roles[i] \in Nat
        /\ DOMAIN x.roles = 1 .. Len(x.roles)
    BY ContentFacts
  <1>2. Even(x) /\ Len(x.roles) > 3
    BY NextTrimIs
  <1>3. x.roles # <<>>
    BY <1>1, <1>2
  <1>4. trim_one(x) = y
    BY DEF trim_one
  <1>5. /\ r \in Seq(Nat) /\ Len(r) = Len(x.roles) - 1 /\ \A i \in DOMAIN r : r[i] = x.roles[i]
        /\ Total(r) + Len(r) <= Total(x.roles) + Len(x.roles) - 1
    BY <1>1, <1>3, TotalOfFront, SmallerList
  <1>. HIDE DEF r
  <1>6. DOMAIN r = 1 .. Len(x.roles) - 1 /\ Len(r) <= Len(x.roles)
    BY <1>1, <1>5
  <1>7. \A i \in DOMAIN r : i \in DOMAIN x.roles /\ r[i] <= x.roles[i]
    BY <1>1, <1>5, <1>6
  <1>8. \A i \in DOMAIN x.roles : OlderAtFloor(x, x, i)
    <2>1. \A i \in DOMAIN x.roles : i \in Int
      BY <1>1
    <2>. QED BY <1>2, <2>1, EvenIsAtFloor
  <1>9. \A i \in DOMAIN x.roles : i <= 2 /\ x.roles[i] >= 2 => ~(i \notin DOMAIN r \/ r[i] < 2)
    <2>. SUFFICES ASSUME NEW i \in DOMAIN x.roles, i <= 2, x.roles[i] >= 2 PROVE i \in DOMAIN r /\ ~(r[i] < 2)
      OBVIOUS
    <2>1. i \in DOMAIN r
      BY <1>1, <1>2, <1>6
    <2>2. r[i] = x.roles[i] /\ x.roles[i] \in Nat
      BY <1>1, <1>5, <2>1
    <2>. QED BY <2>1, <2>2
  <1>10. TrimStep(x, y)
    BY <1>5, <1>6, <1>7, <1>8, <1>9, SparesTheRest
  <1>. QED BY <1>4, <1>10

\* Every step of the trimming is such a trim.
LEMMA TrimSteps ==
    ASSUME NEW x, ContentShape(x), NextTrim(x) # "none"
    PROVE  TrimStep(x, trim_one(x))
  <1>1. NextTrim(x) \in {"skill", "bullet", "role", "project_bullet", "project", "last_resort"}
    BY NextTrimIs
  <1>. QED BY <1>1, TrimsSkill, TrimsBullet, TrimsRole, TrimsProjects, TrimsLastResort

-----------------------------------------------------------------------------
\* The budget keeps a content a content.
\* p[k] is c with k skills less, up to n.
Pops(c, p, n) ==
    /\ p = [k \in 0 .. n |-> p[k]]
    /\ \A k \in 0 .. n : p[k] = IF k = 0 THEN c ELSE PopSkill(p[k - 1])

\* There is a list of what is left after any number of pops.
LEMMA PopsExist ==
    ASSUME NEW c, NEW n \in Nat
    PROVE  \E p : Pops(c, p, n)
  <1>. DEFINE Good(k) == \E p : Pops(c, p, k)
              T == {k \in Nat : ~Good(k)}
  <1>. SUFFICES ASSUME T # {} PROVE FALSE
    OBVIOUS
  <1>1. PICK k \in T : \A j \in T : k <= j
    <2>1. T \in SUBSET Nat
      OBVIOUS
    <2>. HIDE DEF T
    <2>. QED BY <2>1, LeastNat
  <1>2. Good(0)
    <2>. DEFINE p == [j \in 0 .. 0 |-> c]
    <2>1. Pops(c, p, 0)
      BY DEF Pops
    <2>. QED BY <2>1
  <1>3. k # 0 /\ k \in Nat /\ k - 1 \in Nat /\ k - 1 \notin T
    <2>. HIDE DEF Good
    <2>1. k # 0 /\ k \in Nat
      BY <1>2
    <2>2. k - 1 \in Nat /\ ~(k <= k - 1)
      BY <2>1
    <2>. QED BY <1>1, <2>1, <2>2
  <1>4. PICK p : Pops(c, p, k - 1)
    BY <1>3
  <1>. DEFINE g == [j \in 0 .. k |-> IF j = k THEN PopSkill(p[k - 1]) ELSE p[j]]
  <1>5. Pops(c, g, k)
    <2>1. g = [j \in 0 .. k |-> g[j]]
      OBVIOUS
    <2>2. \A j \in 0 .. k - 1 : g[j] = p[j] /\ j \in 0 .. k /\ j # k
      BY <1>3
    <2>3. g[k] = PopSkill(p[k - 1]) /\ k - 1 \in 0 .. k - 1
      BY <1>3
    <2>. HIDE DEF g
    <2>4. ASSUME NEW j \in 0 .. k PROVE g[j] = IF j = 0 THEN c ELSE PopSkill(g[j - 1])
      <3>1. CASE j = k
        BY <1>3, <2>2, <2>3, <3>1
      <3>2. CASE j # k
        <4>1. j \in 0 .. k - 1 /\ (j # 0 => j - 1 \in 0 .. k - 1)
          BY <1>3, <3>2
        <4>2. p[j] = IF j = 0 THEN c ELSE PopSkill(p[j - 1])
          BY <1>4, <4>1 DEF Pops
        <4>. QED BY <2>2, <4>1, <4>2
      <3>. QED BY <3>1, <3>2
    <2>. QED BY <2>1, <2>4 DEF Pops
  <1>. QED BY <1>1, <1>5

\* n times a skill less, while there are skills.
LEMMA PopsFacts ==
    ASSUME NEW c, ContentShape(c), NEW p, NEW n \in 0 .. Total(c.skills), Pops(c, p, Total(c.skills))
    PROVE  ContentShape(p[n])
  <1>. DEFINE N == Total(c.skills)
              Good(k) == ContentShape(p[k]) /\ Total(p[k].skills) = N - k
              T == {k \in 0 .. N : ~Good(k)}
  <1>1. N \in Nat
    BY ContentFacts
  <1>. HIDE DEF N
  <1>2. Pops(c, p, N) /\ n \in 0 .. N
    BY DEF N
  <1>3. Good(0)
    <2>1. p[0] = c
      BY <1>1, <1>2 DEF Pops
    <2>. QED BY <1>1, <2>1 DEF N
  <1>4. T = {}
    <2>. SUFFICES ASSUME T # {} PROVE FALSE
      OBVIOUS
    <2>1. PICK k \in T : \A j \in T : k <= j
      <3>1. T \in SUBSET Nat
        BY <1>1
      <3>. HIDE DEF T
      <3>. QED BY <3>1, LeastNat
    <2>2. k \in 0 .. N /\ k # 0 /\ k - 1 \in 0 .. N /\ k - 1 \notin T
      <3>. HIDE DEF Good
      <3>. QED BY <1>1, <1>3, <2>1
    <2>3. Good(k - 1)
      <3>. HIDE DEF Good
      <3>. QED BY <2>2
    <2>4. p[k] = PopSkill(p[k - 1])
      BY <1>2, <2>2 DEF Pops
    <2>. DEFINE x == p[k - 1]
    <2>5. ContentShape(x) /\ Total(x.skills) = N - (k - 1) /\ Total(x.skills) > 0
      BY <1>1, <2>2, <2>3
    <2>. HIDE DEF x
    <2>6. ContentShape(PopSkill(x)) /\ Total(PopSkill(x).skills) = Total(x.skills) - 1
      BY <2>5, PopFacts
    <2>7. Total(PopSkill(x).skills) = N - k
      BY <1>1, <2>2, <2>5, <2>6
    <2>8. Good(k)
      BY <2>4, <2>6, <2>7 DEF x
    <2>. QED BY <2>1, <2>8
  <1>5. Good(n)
    <2>. HIDE DEF Good
    <2>. QED BY <1>2, <1>4
  <1>. QED BY <1>5

\* The budget makes a content of a content.
LEMMA BudgetFacts ==
    ASSUME NEW c, ContentShape(c), NEW target
    PROVE  ContentShape(apply_budget(c, target))
  <1>1. CASE target > 1
    BY <1>1 DEF apply_budget
  <1>2. CASE ~(target > 1)
    <2>. DEFINE Eq(g) == g = [n \in 0 .. Total(c.skills) |-> IF n = 0 THEN c ELSE PopSkill(g[n - 1])]
                p == CHOOSE g : Eq(g)
                over == Total(c.skills) - Upto(Total(c.skills), 30)
                roles == [i \in 1 .. Upto(Len(c.roles), 4) |-> Upto(c.roles[i], <<4, 4, 3, 3>>[i])]
                projects == [i \in 1 .. Upto(Len(c.projects), 2) |-> Upto(c.projects[i], 2)]
    <2>1. apply_budget(c, target) = [skills |-> p[over].skills, roles |-> roles, projects |-> projects]
      BY <1>2 DEF apply_budget
    <2>2. /\ Total(c.skills) \in Nat /\ c.roles \in Seq(Nat) /\ c.projects \in Seq(Nat)
          /\ Len(c.roles) \in Nat /\ Len(c.projects) \in Nat
      BY ContentFacts
    <2>3. Pops(c, p, Total(c.skills))
      <3>1. ASSUME NEW g PROVE Pops(c, g, Total(c.skills)) <=> Eq(g)
        BY DEF Pops
      <3>2. Eq(p)
        <4>1. \E g : Eq(g)
          <5>. HIDE DEF Eq
          <5>. QED BY <2>2, <3>1, PopsExist
        <4>. HIDE DEF Eq
        <4>. QED BY <4>1
      <3>. HIDE DEF p, Eq
      <3>. QED BY <3>1, <3>2
    <2>4. over \in 0 .. Total(c.skills)
      BY <2>2 DEF Upto
    <2>. HIDE DEF p, over
    <2>5. p[over].skills \in Seq(Nat)
      BY <2>3, <2>4, PopsFacts, ContentFacts
    <2>6. roles \in Seq(Nat)
      <3>. DEFINE k == Upto(Len(c.roles), 4)
                  caps == <<4, 4, 3, 3>>
      <3>1. k \in Nat /\ k <= 4 /\ k <= Len(c.roles)
        BY <2>2 DEF Upto
      <3>2. \A i \in 1 .. k : caps[i] \in Nat
        <4>1. \A i \in 1 .. k : i = 1 \/ i = 2 \/ i = 3 \/ i = 4
          <5>. HIDE DEF k
          <5>. QED BY <3>1
        <4>2. caps[1] \in Nat /\ caps[2] \in Nat /\ caps[3] \in Nat /\ caps[4] \in Nat
          OBVIOUS
        <4>. HIDE DEF caps
        <4>. QED BY <4>1, <4>2
      <3>3. \A i \in 1 .. k : c.roles[i] \in Nat
        <4>. HIDE DEF k
        <4>. QED BY <2>2, <3>1
      <3>. HIDE DEF caps
      <3>4. \A i \in 1 .. k : Upto(c.roles[i], caps[i]) \in Nat
        BY <3>2, <3>3 DEF Upto
      <3>5. roles = [i \in 1 .. k |-> Upto(c.roles[i], caps[i])]
        BY DEF caps
      <3>. HIDE DEF k, roles
      <3>. QED BY <3>1, <3>4, <3>5
    <2>7. projects \in Seq(Nat)
      <3>. DEFINE k == Upto(Len(c.projects), 2)
      <3>1. k \in Nat /\ k <= Len(c.projects)
        BY <2>2 DEF Upto
      <3>2. \A i \in 1 .. k : c.projects[i] \in Nat
        <4>. HIDE DEF k
        <4>. QED BY <2>2, <3>1
      <3>3. \A i \in 1 .. k : Upto(c.projects[i], 2) \in Nat
        BY <3>2 DEF Upto
      <3>4. projects = [i \in 1 .. k |-> Upto(c.projects[i], 2)]
        OBVIOUS
      <3>. HIDE DEF k, projects
      <3>. QED BY <3>1, <3>3, <3>4
    <2>. HIDE DEF roles, projects
    <2>. QED BY <2>1, <2>5, <2>6, <2>7 DEF ContentShape
  <1>. QED BY <1>1, <1>2

-----------------------------------------------------------------------------
\* The loop: what one more rendering makes of a content.
GoesOn(x, target, per_page) == Pages(x, per_page) > target /\ NextTrim(x) # "none"
Rendered(x, target, per_page) == IF GoesOn(x, target, per_page) THEN trim_one(x) ELSE x

Trims(b, target, per_page, t, n) ==
    /\ t = [k \in 0 .. n |-> t[k]]
    /\ \A k \in 0 .. n : t[k] = IF k = 0 THEN b ELSE Rendered(t[k - 1], target, per_page)

\* There is a list of the contents after any number of renderings.
LEMMA TrimsExist ==
    ASSUME NEW b, NEW target, NEW per_page, NEW n \in Nat
    PROVE  \E t : Trims(b, target, per_page, t, n)
  <1>. DEFINE Good(k) == \E t : Trims(b, target, per_page, t, k)
              T == {k \in Nat : ~Good(k)}
  <1>. SUFFICES ASSUME T # {} PROVE FALSE
    OBVIOUS
  <1>1. PICK k \in T : \A j \in T : k <= j
    <2>1. T \in SUBSET Nat
      OBVIOUS
    <2>. HIDE DEF T
    <2>. QED BY <2>1, LeastNat
  <1>2. Good(0)
    <2>. DEFINE t == [j \in 0 .. 0 |-> b]
    <2>1. Trims(b, target, per_page, t, 0)
      BY DEF Trims
    <2>. QED BY <2>1
  <1>3. k # 0 /\ k \in Nat /\ k - 1 \in Nat /\ k - 1 \notin T
    <2>. HIDE DEF Good
    <2>1. k # 0 /\ k \in Nat
      BY <1>2
    <2>2. k - 1 \in Nat /\ ~(k <= k - 1)
      BY <2>1
    <2>. QED BY <1>1, <2>1, <2>2
  <1>4. PICK t : Trims(b, target, per_page, t, k - 1)
    BY <1>3
  <1>. DEFINE g == [j \in 0 .. k |-> IF j = k THEN Rendered(t[k - 1], target, per_page) ELSE t[j]]
  <1>5. Trims(b, target, per_page, g, k)
    <2>1. g = [j \in 0 .. k |-> g[j]]
      OBVIOUS
    <2>2. \A j \in 0 .. k - 1 : g[j] = t[j] /\ j \in 0 .. k /\ j # k
      BY <1>3
    <2>3. g[k] = Rendered(t[k - 1], target, per_page) /\ k - 1 \in 0 .. k - 1
      BY <1>3
    <2>. HIDE DEF g
    <2>4. ASSUME NEW j \in 0 .. k PROVE g[j] = IF j = 0 THEN b ELSE Rendered(g[j - 1], target, per_page)
      <3>1. CASE j = k
        BY <1>3, <2>2, <2>3, <3>1
      <3>2. CASE j # k
        <4>1. j \in 0 .. k - 1 /\ (j # 0 => j - 1 \in 0 .. k - 1)
          BY <1>3, <3>2
        <4>2. t[j] = IF j = 0 THEN b ELSE Rendered(t[j - 1], target, per_page)
          BY <1>4, <4>1 DEF Trims
        <4>. QED BY <2>2, <4>1, <4>2
      <3>. QED BY <3>1, <3>2
    <2>. QED BY <2>1, <2>4 DEF Trims
  <1>. QED BY <1>1, <1>5

\* A content has a number of pages.
LEMMA PagesIsInt ==
    ASSUME NEW x, ContentShape(x), NEW per_page \in Nat \ {0}
    PROVE  Pages(x, per_page) \in Int
  <1>1. /\ Total(x.skills) \in Nat /\ Total(x.roles) \in Nat /\ Total(x.projects) \in Nat
        /\ Len(x.roles) \in Nat /\ Len(x.projects) \in Nat /\ Len(x.skills) \in Nat
    BY ContentFacts
  <1>. DEFINE some == {k \in DOMAIN x.skills : x.skills[k] > 0}
              n == Cardinality(some)
  <1>2. n \in Nat
    <2>1. DOMAIN x.skills = 1 .. Len(x.skills)
      BY DEF ContentShape
    <2>2. IsFiniteSet(DOMAIN x.skills)
      <3>1. IsFiniteSet(1 .. Len(x.skills))
        <4>1. 1 \in Int /\ Len(x.skills) \in Int
          BY <1>1
        <4>. QED BY <4>1, FS_Interval
      <3>. QED BY <2>1, <3>1
    <2>3. IsFiniteSet(some)
      BY <2>2, FS_Subset
    <2>. HIDE DEF some
    <2>. QED BY <2>3, FS_CardinalityType
  <1>3. Lines(x) = 10 + n + Total(x.skills) \div 8 + Len(x.roles) + 2 * Total(x.roles) + Len(x.projects)
                     + 2 * Total(x.projects)
    BY DEF Lines
  <1>. HIDE DEF n
  <1>4. Lines(x) \in Int
    <2>. DEFINE a == Total(x.skills) \div 8
                b == Len(x.roles)
                c == Total(x.roles)
                d == Len(x.projects)
                e == Total(x.projects)
    <2>1. a \in Int /\ b \in Int /\ c \in Int /\ d \in Int /\ e \in Int
      BY <1>1
    <2>2. Lines(x) = 10 + n + a + b + 2 * c + d + 2 * e
      BY <1>3
    <2>. HIDE DEF a, b, c, d, e
    <2>. QED BY <1>2, <2>1, <2>2
  <1>. QED BY <1>4 DEF Pages

\* What is left when there is nothing to trim.
LEMMA NothingToTrim ==
    ASSUME NEW x, ContentShape(x), NextTrim(x) = "none"
    PROVE  /\ Total(x.skills) <= 26 /\ Len(x.roles) <= 3 /\ Total(x.projects) <= 1
           /\ \A b : ContentShape(b) => OlderAtFloor(b, x, 0)
  <1>1. /\ Total(x.skills) \in Nat /\ Len(x.roles) \in Nat /\ Len(x.projects) \in Nat /\ x.projects \in Seq(Nat)
    BY ContentFacts
  <1>2. /\ Even(x) /\ ~(Len(x.roles) > 3)
        /\ x.projects # <<>> => ~(Last(x.projects) > 1) /\ ~(Len(x.projects) > 1)
    BY NextTrimIs
  <1>3. Total(x.projects) <= 1
    <2>0. \A s : s = <<>> => Total(s) = 0
      <3>1. \A s : s = <<>> => DOMAIN s = {}
        OBVIOUS
      <3>. QED BY <3>1, SumOfNone DEF Total
    <2>1. CASE x.projects = <<>>
      BY <2>0, <2>1
    <2>2. CASE x.projects # <<>>
      <3>. DEFINE p == x.projects
      <3>1. p \in Seq(Nat) /\ p # <<>>
        BY <1>1, <2>2
      <3>. HIDE DEF p
      <3>2. /\ Front(p) \in Seq(Nat) /\ Len(Front(p)) = Len(p) - 1 /\ Last(p) \in Nat
            /\ Total(p) = Last(p) + Total(Front(p))
        BY <3>1, TotalOfFront
      <3>3. ~(Last(p) > 1) /\ ~(Len(p) > 1)
        BY <1>2, <2>2 DEF p
      <3>4. Len(p) = 1
        <4>1. Len(p) \in Nat /\ Len(p) # 0
          BY <3>1
        <4>2. ~(Len(p) > 1)
          BY <3>3
        <4>. DEFINE l == Len(p)
        <4>3. l \in Nat /\ l # 0 /\ ~(l > 1)
          BY <4>1, <4>2
        <4>. HIDE DEF l
        <4>4. l = 1
          BY <4>3
        <4>. QED BY <4>4 DEF l
      <3>5. Front(p) = <<>>
        BY <3>2, <3>4
      <3>6. Total(p) = Last(p) + 0
        BY <2>0, <3>2, <3>5
      <3>7. Total(p) <= 1
        BY <3>2, <3>3, <3>6
      <3>. QED BY <3>7 DEF p
    <2>. QED BY <2>1, <2>2
  <1>4. Total(x.skills) <= 26 /\ Len(x.roles) <= 3
    BY <1>1, <1>2 DEF Even
  <1>. QED BY <1>2, <1>3, <1>4, EvenIsAtFloor

\* A content has a size.
LEMMA SizeIsNat == ASSUME NEW x, ContentShape(x) PROVE SizeOf(x) \in Nat
  BY ContentFacts DEF SizeOf

\* However long the loop runs, it has kept the best, and has trimmed at every
\* rendering or stopped.
LEMMA LoopFacts ==
    ASSUME NEW b, ContentShape(b), NEW target, NEW per_page, NEW n \in Nat,
           NEW t, Trims(b, target, per_page, t, n)
    PROVE  /\ FitSoFar(b, t[n])
           /\ SizeOf(b) - SizeOf(t[n]) >= n \/ ~GoesOn(t[n], target, per_page)
  <1>. DEFINE Good(k) == /\ FitSoFar(b, t[k])
                         /\ SizeOf(b) - SizeOf(t[k]) >= k \/ ~GoesOn(t[k], target, per_page)
              T == {k \in 0 .. n : ~Good(k)}
  <1>1. SizeOf(b) \in Nat
    BY SizeIsNat
  <1>2. Good(0)
    <2>1. t[0] = b
      BY SMTT(30) DEF Trims
    <2>. QED BY <1>1, <2>1, StartFits
  <1>3. T = {}
    <2>. SUFFICES ASSUME T # {} PROVE FALSE
      OBVIOUS
    <2>1. PICK k \in T : \A j \in T : k <= j
      <3>1. T \in SUBSET Nat
        OBVIOUS
      <3>. HIDE DEF T
      <3>. QED BY <3>1, LeastNat
    <2>2. k \in 0 .. n /\ k # 0 /\ k - 1 \in 0 .. n /\ k - 1 \notin T
      <3>. HIDE DEF Good
      <3>. QED BY <1>2, <2>1
    <2>3. Good(k - 1)
      <3>. HIDE DEF Good
      <3>. QED BY <2>2
    <2>. DEFINE x == t[k - 1]
                y == t[k]
    <2>4. y = Rendered(x, target, per_page)
      BY <2>2 DEF Trims
    <2>5. FitSoFar(b, x) /\ ContentShape(x)
      BY <2>3 DEF FitSoFar
    <2>6. CASE GoesOn(x, target, per_page)
      <3>1. y = trim_one(x) /\ NextTrim(x) # "none" /\ SizeOf(b) - SizeOf(x) >= k - 1
        BY <2>3, <2>4, <2>6 DEF Rendered, GoesOn
      <3>. HIDE DEF x, y
      <3>2. TrimStep(x, y)
        BY <2>5, <3>1, TrimSteps
      <3>3. FitSoFar(b, y)
        BY <2>5, <3>2, StepKeeps
      <3>4. SizeOf(y) <= SizeOf(x) - 1 /\ SizeOf(x) \in Nat /\ SizeOf(y) \in Nat
        BY <2>5, <3>2, SizeIsNat DEF TrimStep
      <3>5. SizeOf(b) - SizeOf(y) >= k
        BY <1>1, <2>2, <3>1, <3>4
      <3>6. Good(k)
        BY <3>3, <3>5 DEF y
      <3>. QED BY <2>1, <3>6
    <2>7. CASE ~GoesOn(x, target, per_page)
      <3>1. y = x
        BY <2>4, <2>7 DEF Rendered
      <3>2. Good(k)
        BY <2>5, <2>7, <3>1
      <3>. QED BY <2>1, <3>2
    <2>. QED BY <2>6, <2>7
  <1>4. Good(n)
    <2>1. n \in 0 .. n
      OBVIOUS
    <2>. HIDE DEF Good
    <2>. QED BY <1>3, <2>1
  <1>. QED BY <1>4

\* Where the trimming of any number of rounds ends.
LEMMA FitFacts ==
    ASSUME NEW c, ContentShape(c), NEW target \in Nat, NEW per_page \in Nat \ {0}, NEW n \in Nat,
           NEW before, before = apply_budget(c, target), NEW after, after = fit_pages(c, target, per_page, n)
    PROVE  /\ ContentShape(before) /\ FitSoFar(before, after)
           /\ \/ Pages(after, per_page) <= target
              \/ SizeOf(before) - SizeOf(after) >= n
              \/ Total(after.skills) <= 26 /\ OlderAtFloor(before, after, 0) /\ Len(after.roles) <= 3
                   /\ Total(after.projects) <= 1
  <1>1. ContentShape(before)
    BY BudgetFacts
  <1>. DEFINE Eq(g) == g = [k \in 0 .. n |->
                              IF k = 0 THEN apply_budget(c, target)
                              ELSE IF Pages(g[k - 1], per_page) > target /\ NextTrim(g[k - 1]) # "none"
                                   THEN trim_one(g[k - 1]) ELSE g[k - 1]]
              t == CHOOSE g : Eq(g)
  <1>2. after = t[n]
    BY DEF fit_pages
  <1>3. Trims(before, target, per_page, t, n)
    <2>1. ASSUME NEW g PROVE Trims(before, target, per_page, g, n) <=> Eq(g)
      BY DEF Trims, Rendered, GoesOn
    <2>2. Eq(t)
      <3>1. \E g : Eq(g)
        <4>. HIDE DEF Eq
        <4>. QED BY <2>1, TrimsExist
      <3>. HIDE DEF Eq
      <3>. QED BY <3>1
    <2>. HIDE DEF Eq, t
    <2>. QED BY <2>1, <2>2
  <1>. HIDE DEF Eq, t
  <1>4. /\ FitSoFar(before, after)
        /\ SizeOf(before) - SizeOf(after) >= n \/ ~GoesOn(after, target, per_page)
    BY <1>1, <1>2, <1>3, LoopFacts
  <1>5. ContentShape(after)
    BY <1>4 DEF FitSoFar
  <1>6. Pages(after, per_page) \in Int
    BY <1>5, PagesIsInt
  <1>7. ~GoesOn(after, target, per_page) => Pages(after, per_page) <= target \/ NextTrim(after) = "none"
    BY <1>6 DEF GoesOn
  <1>8. NextTrim(after) = "none" =>
          Total(after.skills) <= 26 /\ OlderAtFloor(before, after, 0) /\ Len(after.roles) <= 3
            /\ Total(after.projects) <= 1
    BY <1>1, <1>5, NothingToTrim
  <1>. QED BY <1>1, <1>4, <1>7, <1>8

\* For every question about pages BestIsKept holds.
LEMMA FitTrue == Asked => BestIsKept
  <1>. SUFFICES ASSUME Asked, Decided("fit") PROVE BestIsKept
    BY DEF BestIsKept
  <1>. DEFINE c == asked
              before == apply_budget(c.content, c.target)
              after == answer[1]
  <1>1. c \in FitCases /\ after = fit_pages(c.content, c.target, c.per_page, 20)
    BY AnswerIs DEF Cases, Result
  <1>2. ContentShape(c.content) /\ c.target \in Nat /\ c.per_page \in Nat \ {0}
    BY <1>1, FitAssumption
  <1>. HIDE DEF c, before, after
  <1>3. /\ ContentShape(before) /\ FitSoFar(before, after)
        /\ \/ Pages(after, c.per_page) <= c.target
           \/ SizeOf(before) - SizeOf(after) >= 20
           \/ Total(after.skills) <= 26 /\ OlderAtFloor(before, after, 0) /\ Len(after.roles) <= 3
                /\ Total(after.projects) <= 1
    BY <1>1, <1>2, FitFacts DEF before
  <1>. DEFINE Size(x) == Total(x.skills) + Total(x.roles) + Len(x.roles) + Total(x.projects) + Len(x.projects)
              Floor(i) == IF i <= 2 THEN 2 ELSE 1
              AtFloor(i) == i \notin DOMAIN after.roles \/ after.roles[i] <= Floor(i)
              Oldest(n) == \A i \in DOMAIN before.roles : i > n => AtFloor(i)
  <1>4. /\ \A x : Size(x) = SizeOf(x)
        /\ \A n : Oldest(n) <=> OlderAtFloor(before, after, n)
    BY DEF SizeOf, OlderAtFloor, AtFloorOf, FloorOf
  <1>. HIDE DEF Oldest, Size
  <1>5. \/ Pages(after, c.per_page) <= c.target
        \/ Size(before) - Size(after) >= 20
        \/ Total(after.skills) <= 26 /\ Oldest(0) /\ Len(after.roles) <= 3 /\ Total(after.projects) <= 1
    BY <1>3, <1>4
  <1>6. \A i \in DOMAIN before.roles :
           i \notin DOMAIN after.roles \/ after.roles[i] < before.roles[i] => Oldest(i)
    BY <1>3, <1>4 DEF FitSoFar, GoneOrUnder
  <1>7. after.projects # before.projects => Oldest(0) /\ Len(after.roles) <= 3 /\ Total(after.skills) <= 26
    BY <1>3, <1>4 DEF FitSoFar
  <1>8. (\E i \in DOMAIN before.roles : i <= 2 /\ before.roles[i] >= 2
            /\ (i \notin DOMAIN after.roles \/ after.roles[i] < 2)) => after.projects = <<>>
    BY <1>3 DEF FitSoFar, GoneOrUnder
  <1>. QED BY <1>5, <1>6, <1>7, <1>8 DEF BestIsKept, Oldest, Size, c, before, after

\* Trimming cuts the oldest and the cheapest first and stops when the content
\* fits, or when nothing is left to trim, or after its twenty renderings:
\* fit_pages, for every content, page length and target.
THEOREM BestStays == Spec => []BestIsKept
  BY AskedAlways, FitTrue, PTL
=============================================================================
