----------------------------- MODULE Decisions -----------------------------
(* The decisions of the program that depend on their input alone, each      *)
(* asked one case: list a board, find a company's board, filter and count   *)
(* postings, rate a sponsor, judge a posting, place the candidate, make the *)
(* documents, scrape a description.                                         *)
EXTENDS Adapters, BoardProbe, Discovery, Assess, Resume, Location, Scraper

CONSTANTS ListCases, BoardCases, FeedCases, SponsorCases, AssessCases, LocationCases,
          ResumeCases, FitCases, SkillCases, ScrapeCases

\* A visit is to a board that is known.
ASSUME ListAssumption ==
    \A c \in ListCases : c.source \in Sources /\ VisitShape(c.visit)

\* The boards are on the hosts that are probed, the links of a page are of the
\* sources they are looked for under, and the owner gives at most one careers page.
ASSUME BoardAssumption ==
    \A c \in BoardCases :
        /\ c.name \in Seq(ToSet(c.name))
        /\ \A b \in c.hosted : b.source \in ToSet(ProbedSources)
        /\ c.careers \in Seq(ToSet(c.careers)) /\ Len(c.careers) <= 1
        /\ \A page \in ToSet(c.careers) :
              /\ page.rendered \in Seq(ToSet(page.rendered))
              /\ \A link \in ToSet(page.rendered) : link.source \in ToSet(LinkedSources)

\* A posting's location is one that the patterns can read off a text, and a
\* request gives every filter.
ASSUME FeedAssumption ==
    \A c \in FeedCases :
        /\ \A j \in c.jobs : LocationShape(j.location)
        /\ DOMAIN c.filters = DOMAIN Unconstrained

\* The rows of the files are rows of their own.
ASSUME SponsorAssumption ==
    \A c \in SponsorCases : RowShape(c.rows)

\* The objects of the gap analysis are in a list, and the overall score is a
\* whole number, when there is one.
ASSUME AssessAssumption ==
    \A c \in AssessCases :
        /\ c.gaps \in Seq(ToSet(c.gaps))
        /\ c.overall \in Seq(Int)
        /\ IsFiniteSet(c.said.required)

\* A profile's role ends no earlier than it starts; what the model says of the
\* roles is in lists, with years that can be read.
ASSUME ResumeAssumption ==
    \A c \in ResumeCases :
        /\ c.profile.roles \in Seq(ToSet(c.profile.roles))
        /\ \A e \in ToSet(c.profile.roles) :
              e.start \in 0 .. Present /\ e.end \in 0 .. Present /\ e.start <= e.end
        /\ {"roles", "summary", "typos", "page"} \subseteq DOMAIN c.said
        /\ c.said.roles \in Seq(ToSet(c.said.roles))
        /\ \A r \in ToSet(c.said.roles) :
              r.start \in 0 .. Present /\ r.end \in 0 .. Present /\ r.bullets \in Seq(ToSet(r.bullets))

\* A content has no category without skills, and a page holds a line.
ASSUME FitAssumption ==
    \A c \in FitCases :
        /\ ContentShape(c.content) /\ \A k \in DOMAIN c.content.skills : c.content.skills[k] > 0
        /\ c.target \in Nat /\ c.per_page \in Nat \ {0}

\* What the model answers is in lists, a profile's skills are in lists by category,
\* where a name is of one skill, and a description is scored on the parts of a
\* resume.
ASSUME SkillAssumption ==
    \A c \in SkillCases :
        /\ c.passes \in Seq(ToSet(c.passes)) /\ c.final \in Seq(ToSet(c.final))
        /\ c.skills \in Seq(ToSet(c.skills))
        /\ \A category \in ToSet(c.skills) :
              /\ category.items \in Seq(ToSet(category.items))
              /\ \A s \in ToSet(category.items) : s.mention \in Nat /\ s.must \in BOOLEAN
        /\ \A k \in DOMAIN c.skills :
              \A s, t \in ToSet(c.skills[k].items) : s.category = k /\ (s.name = t.name => s = t)
        /\ c.max_items \in Nat /\ c.per_category_cap \in Nat /\ c.numbered \in Nat
        /\ c.parts \subseteq DOMAIN StructurePoints

\* A board is no tier's name, and lists a posting once.
ASSUME ScrapeAssumption ==
    \A c \in ScrapeCases :
        /\ c.address.board \notin {"none", "jsonld", "playwright"}
        /\ c.host.listed \in Seq(ToSet(c.host.listed))
        /\ \A i, j \in DOMAIN c.host.listed : c.host.listed[i].id = c.host.listed[j].id => i = j
        /\ c.host.domains \in Seq(ToSet(c.host.domains))
        /\ c.page.blocks \in Seq(ToSet(c.page.blocks))

VARIABLES kind, asked, answer

vars == <<kind, asked, answer>>

Init ==
    /\ \/ kind = "list" /\ asked \in ListCases
       \/ kind = "board" /\ asked \in BoardCases
       \/ kind = "feed" /\ asked \in FeedCases
       \/ kind = "sponsor" /\ asked \in SponsorCases
       \/ kind = "assess" /\ asked \in AssessCases
       \/ kind = "location" /\ asked \in LocationCases
       \/ kind = "resume" /\ asked \in ResumeCases
       \/ kind = "fit" /\ asked \in FitCases
       \/ kind = "skills" /\ asked \in SkillCases
       \/ kind = "scrape" /\ asked \in ScrapeCases
    /\ answer = <<>>

Decide(k, result) == kind = k /\ answer = <<>> /\ answer' = <<result>> /\ UNCHANGED <<kind, asked>>

ListPostings == Decide("list", List(asked.source, asked.visit))
ResolveCompany ==
    Decide("board", [found |-> resolve(asked.hosted, asked.name, asked.careers),
                     report |-> [i \in DOMAIN asked.careers |-> fingerprint(asked.careers[i])]])
Discover ==
    Decide("feed", discover({j \in asked.jobs : passes(j, asked.avoid, TRUE, FALSE, TRUE)},
                            asked.filters, asked.avoid, 50, 0))
RateSponsor ==
    Decide("sponsor", score_company(asked.company, build_index(asked.rows, asked.answered), asked.alike))
AssessPosting == Decide("assess", assess(asked))
PlaceCandidate == Decide("location", resolve_location(asked.job, asked.candidate, asked.prefs))
MakeDocuments ==
    Decide("resume", [resume |-> generate_resume(asked.profile, asked.said),
                      letter |-> write_cover_letter(asked.profile, asked.letter)])
FitPages == Decide("fit", fit_pages(asked.content, asked.target, asked.per_page, 20))
RankSkills ==
    Decide("skills",
        LET ks == extract_keywords(asked.passes, asked.final)
            keywords == ToSet(ks.keywords)
            kept == rank_skills(asked.skills, keywords, asked.ai_role, asked.max_items, asked.per_category_cap)
            Scored(terms) == score_ats(keywords, asked.text \cup terms, asked.numbered, 4, asked.parts)
        IN  IF ks.error THEN [error |-> TRUE]
            ELSE [error |-> FALSE, kept |-> kept, without |-> Scored({}),
                  ats |-> Scored({kept[i].term : i \in DOMAIN kept})])
ScrapePosting == Decide("scrape", scrape(asked.host, asked.address, asked.page))

Next ==
    \/ ListPostings \/ ResolveCompany \/ Discover \/ RateSponsor \/ AssessPosting
    \/ PlaceCandidate \/ MakeDocuments \/ FitPages \/ RankSkills \/ ScrapePosting

Spec == Init /\ [][Next]_vars

Decided(k) == kind = k /\ answer # <<>>

-----------------------------------------------------------------------------
(* Listings.                                                                *)

KeysOf(rows) == {r.key : r \in ToSet(rows)}

Listable(a, row) == row.flaw \notin a.drops /\ (a.searches => row.queries # {})

\* The host answered everything, told its total when it was asked for it, and
\* fits the cap; no page of a parsed site is without a usable row.
Undisturbed(a, v) ==
    /\ a.needs \subseteq v.extra
    /\ a.handshake => v.greets
    /\ v.throttled < a.attempts
    /\ v.silent => a.stop \notin {"counted", "first"}
    /\ a.stop # "one" => \A n \in {1, v.when} : Len(BoardAt(v, n)) <= a.cap * v.size
    /\ a.empty = "kept" =>
          \A m \in {1, v.when}, n \in 1 .. a.cap :
              LET page == PageOf(BoardAt(v, m), v.size, n) IN page # <<>> => Keep(a, page) # <<>>

\* A posting that is on its board during the whole listing is listed, whatever
\* is published meanwhile and pushes it to a later page, unless a posting
\* ahead of it is taken down meanwhile, or the adapter counts pages only once.
StayingIsListed ==
    Decided("list") =>
        LET a == Adapter[asked.source]
            v == asked.visit
        IN  Undisturbed(a, v) /\ ~(v.edit = "insert" /\ a.stop = "first") =>
                \A i \in DOMAIN v.board :
                    \/ ~Listable(a, v.board[i])
                    \/ v.edit = "remove" /\ v.at <= i
                    \/ v.board[i].key \in KeysOf(answer[1].rows)

Unthrottled(v) == [v EXCEPT !.throttled = 0]

\* A listing cut short by a refusal is an error, or the front of what the
\* whole listing would have been (each of Workday's searches is cut by itself,
\* and of a posting two of them find either row is the one that is kept); it
\* holds nothing that was never on the board.
CutKeepsTheFront ==
    Decided("list") =>
        LET a == Adapter[asked.source]
            v == asked.visit
            whole == List(asked.source, Unthrottled(v))
        IN  /\ ToSet(answer[1].rows) \subseteq ToSet(v.board) \cup ToSet(BoardAt(v, v.when))
            /\ IF answer[1].error THEN answer[1].rows = <<>>
               ELSE IF a.searches THEN KeysOf(answer[1].rows) \subseteq KeysOf(whole.rows)
               ELSE IsPrefix(answer[1].rows, whole.rows)

-----------------------------------------------------------------------------
(* Boards.                                                                  *)

\* A board the program can tell for the company's: it lists postings under a
\* slug the name suggests and, on greenhouse, the host answers for its official
\* name and that name is like the company's.
Recognised(b, slugs) ==
    /\ b.lists = "postings" /\ b.token \in ToSet(slugs)
    /\ b.source = "greenhouse" => b.answers /\ b.title = "like"

\* A probe finds only a board that can be told for the company's, and finds one
\* whenever there is one: of the slugs it suggests no later one than that of any
\* board of the company's own, so that another company's board is taken only
\* under a slug that comes as early (the company's own greenhouse board is
\* missed while its name request fails, or when the names are not alike);
\* and the fingerprint the agent starts from names first the board the careers
\* page resolves to, when both read the same links.
OwnBoardResolved ==
    Decided("board") =>
        LET found == answer[1].found
            slugs == slug_candidates(asked.name)
            known == {b \in asked.hosted : Recognised(b, slugs)}
            NoLater(s, t) == \E i, j \in DOMAIN slugs : i <= j /\ slugs[i] = s /\ slugs[j] = t
        IN  /\ IF known = {} THEN found.method # "slug-probe"
               ELSE \E b \in known :
                      /\ found = [method |-> "slug-probe", board |-> [source |-> b.source, token |-> <<b.token>>]]
                      /\ \A o \in known : o.own => NoLater(b.token, o.token)
            /\ \A i \in DOMAIN asked.careers :
                   LET page == asked.careers[i]
                       links == answer[1].report[i].board_links
                   IN  /\ found.method = "careers-page" /\ page.url = <<>>
                       /\ links # <<>> /\ fetch_html(page) = page.rendered
                       => found.board = [source |-> links[1].source, token |-> Token(links[1])]

-----------------------------------------------------------------------------
(* The feed and its page.                                                   *)

\* A dropdown offers just the values that would show something if they were
\* selected alone, whatever is selected elsewhere, and its counts are what they
\* would show; but for a company with a comma in its name, which cannot be
\* selected.
FacetsReachable ==
    Decided("feed") =>
        LET kept == {j \in asked.jobs : passes(j, asked.avoid, TRUE, FALSE, TRUE)}
            Shown(dim, v) == discover(kept, [asked.filters EXCEPT ![dim] = {v}], asked.avoid, 50, 0).total
        IN  \A dim \in Facets :
                LET facet == answer[1].facets[dim] IN
                \A v \in UNION {FacetOf(dim, j) : j \in kept} :
                    \/ dim = "company" /\ v.comma
                    \/ Shown(dim, v) = IF v \in DOMAIN facet THEN facet[v] ELSE 0

\* Two sites of one posting, separated by a semicolon: the text no longer ends
\* where the first of them does.
Sites(a, b) ==
    [names |-> a.names \cup b.names, us |-> a.us \/ b.us, us_last |-> b.us_last, foreign |-> a.foreign \/ b.foreign,
     abbrs |-> a.abbrs \o b.abbrs, prefix |-> a.prefix \cup b.prefix, cities |-> a.cities \cup b.cities,
     comma |-> a.comma \/ b.comma, blank |-> FALSE, text |-> a.text \cup b.text]

\* The US shows by a written name, a term, or a code that is no country's.
SaysUs(loc) ==
    \/ Named(loc) \ {"district of columbia"} # {} \/ loc.us \/ loc.us_last
    \/ loc.abbrs # <<>> /\ Head(loc.abbrs) \in StateCodes \ {"IN"}

\* A posting that says it is in the US is kept whatever site is added to it,
\* and one that is only taken to be stays so when the site added says so;
\* but for what its last two letters alone say ("Remote-US"), which the added
\* site hides; and it is found under the states of both.
AnotherSiteKeepsIt ==
    Decided("feed") =>
        \A j, k \in asked.jobs :
            LET a == [j.location EXCEPT !.us_last = FALSE]
                b == k.location
            IN  /\ SaysUs(a) \/ (is_us_location(a) /\ ~a.foreign /\ SaysUs(b) /\ (a.abbrs = <<>> \/ ~b.foreign))
                   => is_us_location(Sites(j.location, b))
                /\ us_states_of(j.location) \cup us_states_of(b) \subseteq us_states_of(Sites(j.location, b))

-----------------------------------------------------------------------------
(* Judgements.                                                              *)

Rank(likelihood_of) == CHOOSE i \in DOMAIN Likelihoods : Likelihoods[i] = likelihood_of

\* More approvals, of any employer and any year in the files, never make a
\* sponsor less likely; and a match that is not sure is never rated high.
ApprovalsNeverHurt ==
    Decided("sponsor") =>
        /\ answer[1].needs_verification => answer[1].likelihood # "high"
        /\ \A r \in asked.rows, more \in {1, 100} :
               LET rows == (asked.rows \ {r}) \cup {[r EXCEPT !.approvals = @ + more]}
                   better == score_company(asked.company, build_index(rows, asked.answered), asked.alike)
               IN  Rank(better.likelihood) >= Rank(answer[1].likelihood)

\* Whatever the language model answers, a posting is recommended only when the
\* profile has something to show for 32.45% of the requirements (45% less half
\* of the 25 points the model may add, less half a tenth that rounding may), it
\* is recommended when the coverage is over 57.45% and nothing blocks, and never
\* when the description excludes the sponsorship the candidate needs.  To show
\* something is what verify_evidence asks: one word in common is enough.
RecommendationIsEarned ==
    (Decided("assess") /\ ~answer[1].error) =>
        LET a == answer[1]
            Shown(o) == \/ o.evidence.touches \cap asked.profile.skills # {}
                        \/ o.evidence.quotes \cap asked.profile.bullets # {}
                        \/ o.substitution \cap Owned(asked.profile) # {}
            shown == Cardinality({i \in DOMAIN asked.gaps : Shown(asked.gaps[i])})
        IN  /\ (a.decision.recommend /\ asked.gaps # <<>>) => 2000 * shown >= 649 * Len(asked.gaps)
            /\ (200 * a.coverage.tenths > 1149 * a.coverage.of /\ ~a.decision.blocked) => a.decision.recommend
            /\ (asked.said.stance = "no_sponsorship" /\ asked.needs_sponsorship) => ~a.decision.recommend

-----------------------------------------------------------------------------
(* The candidate's place and documents.                                     *)

\* The place a resume shows is the candidate's own, unless the role is not
\* remote, the job is in another metro, and the candidate would move there;
\* and a plan that passes the location filter elsewhere says so in its line
\* or is for a place the candidate would move to.
NeverSpoofed ==
    Decided("location") =>
        LET plan == answer[1]
            own == MetroShown(asked.candidate)
            job == to_metro(parse_city_state(asked.job.location))
            moves == asked.prefs.anywhere \/ (asked.prefs.willing /\ job \in asked.prefs.metros)
        IN  /\ plan.display.metro # own => moves /\ asked.job.work_model # "remote" /\ plan.display.metro = job
            /\ plan.passes /\ job \notin {Nowhere, own} =>
                   IF asked.job.work_model = "remote"
                   THEN plan.display.metro = own /\ plan.strategy \in {"local", "open_to_remote"}
                   ELSE moves /\ plan.strategy = "relocating"

\* Every role that is said is a role of the profile, with its dates.
Truthful(profile, said) ==
    \A r \in ToSet(said.roles) : \E e \in ToSet(profile.roles) : r.org = e.org /\ r.start = e.start /\ r.end = e.end

\* Documents the gates let through show no time at an employer of the profile
\* outside the time the profile gives, but for a role that is said to go on
\* (no employer's name being part of another's); merging and ordering lose no
\* bullet and no employer, and end with the latest role first; and a true
\* resume is never stopped for its dates, in whatever order it was written.
TenureChecked ==
    Decided("resume") =>
        LET a == answer[1].resume
            roles == a.content.roles
            Bullets(rs) == UNION {ToSet(r.bullets) : r \in ToSet(rs)}
        IN  /\ (a.fact_gate /\ a.ats /\ asked.profile.within = {}) =>
                   \A r \in ToSet(roles) :
                       /\ r.start >= Span(asked.profile, r.org).start
                       /\ r.end \in {Present} \cup 0 .. Span(asked.profile, r.org).end
            /\ \A i, j \in DOMAIN roles : i < j => roles[i].end >= roles[j].end
            /\ Bullets(roles) = Bullets(asked.said.roles)
            /\ {r.org : r \in ToSet(roles)} = {r.org : r \in ToSet(asked.said.roles)}
            /\ (Truthful(asked.profile, asked.said) /\ asked.profile.within = {}) =>
                   \A r \in ToSet(roles) : consistent(asked.profile, r)

\* Trimming ends with a content that fits, after its twenty renderings, or with
\* nothing left to trim; a role loses a bullet only when every older one is at
\* its floor or gone, one of the two newest goes under two bullets, and a
\* project is trimmed, only when nothing cheaper is left.
BestIsKept ==
    Decided("fit") =>
        LET before == apply_budget(asked.content, asked.target)
            after == answer[1]
            Size(c) == Total(c.skills) + Total(c.roles) + Len(c.roles) + Total(c.projects) + Len(c.projects)
            Floor(i) == IF i <= 2 THEN 2 ELSE 1
            AtFloor(i) == i \notin DOMAIN after.roles \/ after.roles[i] <= Floor(i)
            Oldest(n) == \A i \in DOMAIN before.roles : i > n => AtFloor(i)
        IN  /\ \/ Pages(after, asked.per_page) <= asked.target
               \/ Size(before) - Size(after) >= 20
               \/ Total(after.skills) <= 26 /\ Oldest(0) /\ Len(after.roles) <= 3 /\ Total(after.projects) <= 1
            /\ \A i \in DOMAIN before.roles :
                   i \notin DOMAIN after.roles \/ after.roles[i] < before.roles[i] => Oldest(i)
            /\ after.projects # before.projects =>
                   Oldest(0) /\ Len(after.roles) <= 3 /\ Total(after.skills) <= 26
            /\ (\E i \in DOMAIN before.roles : i <= 2 /\ before.roles[i] >= 2
                     /\ (i \notin DOMAIN after.roles \/ after.roles[i] < 2)) => after.projects = <<>>

\* The skills shown are the profile's, and no more than max_items of them are
\* different (one that a category lists twice is shown twice, and the document
\* grows by it); a skill that must be shown is, unless its
\* category is one that the role leaves out, its category is full of skills at
\* least as good, or there are too many such skills; and showing them never
\* lowers the score.
MustHavesSurvive ==
    (Decided("skills") /\ ~answer[1].error) =>
        LET a == answer[1]
            keywords == ToSet(extract_keywords(asked.passes, asked.final).keywords)
            Of6(s) == Score(s, keywords, asked.ai_role)
            Items(c) == asked.skills[c].items
            all == UNION {ToSet(Items(c)) : c \in DOMAIN asked.skills}
            musts == UNION {{<<c, i>> : i \in {i \in DOMAIN Items(c) : Items(c)[i].must}} : c \in DOMAIN asked.skills}
        IN  /\ ToSet(a.kept) \subseteq all /\ Cardinality(ToSet(a.kept)) <= asked.max_items
            /\ \A c \in DOMAIN asked.skills :
                   \A s \in ToSet(Items(c)) :
                       \/ ~s.must
                       \/ s \in ToSet(a.kept)
                       \/ asked.ai_role /\ asked.skills[c].offrole /\ Of6(s) < 18
                       \/ Cardinality({i \in DOMAIN Items(c) : Of6(Items(c)[i]) >= Of6(s)}) > asked.per_category_cap
                       \/ Cardinality(musts) > asked.max_items
            /\ a.ats.overall >= a.without.overall

\* A description that a board's handler finds is that of the posting the
\* address names; while any tier has it the scrape succeeds with it, whatever
\* the tiers before it answer; and a page is read only when the board fails.
TheNamedPosting ==
    Decided("scrape") =>
        LET a == answer[1].jd
            board == asked.address.board
            asks == board \in Handlers /\ (asked.address.custom => asked.address.guessed)
            listed == {p \in ToSet(asked.host.listed) : p.id = asked.address.id /\ p.text # ""}
            has == \/ board \in ById /\ asked.host.answer = "ok" /\ asked.host.text # ""
                   \/ board \in InList /\ asked.host.answer = "ok" /\ listed # {}
                   \/ board \in ByDomain /\ \E d \in ToSet(asked.host.domains) : d.answer = "ok" /\ d.text # ""
            marked == asked.page.answer = "ok" /\ \E b \in ToSet(asked.page.blocks) : b.posting /\ b.text # ""
        IN  /\ a.source \in InList => \E p \in listed : a.text = p.text
            /\ answer[1].ok <=> (asks /\ has) \/ marked \/ asked.page.browser
            /\ asks /\ has <=> a.source = board
            /\ ~(asks /\ has) /\ marked => a.source = "jsonld"
=============================================================================
