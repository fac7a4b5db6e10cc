---------------------------- MODULE MCDecisions ----------------------------
(* The cases asked of each decision.                                        *)
EXTENDS Decisions

-----------------------------------------------------------------------------
(* Listings: boards of up to five rows, pages of one or two; one thing goes *)
(* wrong or changes in each visit.                                          *)

Row(k) == [key |-> k, flaw |-> "none", queries |-> {1 + (k % 2)}]
Board(n) == [k \in 1 .. n |-> Row(k)]
Options == {"host", "site", "domain", "url", "page_id", "origin", "index", "api_key"}
Calm == [board |-> <<>>, edit |-> "none", when |-> 2, at |-> 1, size |-> 1, silent |-> FALSE,
         query |-> 1, request |-> 1, throttled |-> 0, greets |-> TRUE, extra |-> Options]

Visits ==
    LET Boards == {Board(n) : n \in 0 .. 5}
        Flawed == {[Board(n) EXCEPT ![i] = x] : n \in {3, 4}, i \in 1 .. 3,
                      x \in {[Row(9) EXCEPT !.flaw = f] : f \in Flaws}
                              \cup {Row(1), [Row(9) EXCEPT !.queries = {}], [Row(9) EXCEPT !.queries = {1, 2}]}}
        Paired == {[Board(4) EXCEPT ![2].flaw = f, ![3].flaw = f] : f \in Flaws}
        Twice == {[Board(3) EXCEPT ![1].queries = {q}, ![2] = [Row(1) EXCEPT !.queries = {p}]] : q, p \in {1, 2}}
        Sized(boards) == {[Calm EXCEPT !.board = b, !.size = n] : b \in boards, n \in {1, 2}}
        Long == {[Calm EXCEPT !.board = Board(5), !.size = 1]}
    IN  Sized(Boards \cup Flawed)
        \cup {[v EXCEPT !.edit = "insert", !.when = w] : v \in Sized(Boards \cup Flawed \cup Paired), w \in 2 .. 4}
        \cup {[v EXCEPT !.edit = "remove", !.when = w, !.at = i] :
                v \in Sized({Board(3), Board(5)}), w \in 2 .. 4, i \in 1 .. 3}
        \cup {[v EXCEPT !.silent = TRUE] : v \in Sized(Boards)}
        \cup {[v EXCEPT !.throttled = t, !.query = q, !.request = n] :
                v \in Sized(Boards \cup Twice), t \in 1 .. 4, q \in 1 .. 3, n \in 1 .. 3}
        \cup {[v EXCEPT !.greets = FALSE] : v \in Long}
        \cup {[v EXCEPT !.extra = @ \ {o}] : v \in Long, o \in Options}

MCListCases == [source : Sources, visit : Visits]
None == {}

-----------------------------------------------------------------------------
(* Boards: a name of two words, of two parts, of a stop word and a word;    *)
(* up to two boards under the slugs these suggest; careers pages that link, *)
(* search and call one thing or another.                                    *)

Word(t, n, stop) == [text |-> t, letters |-> n, stop |-> stop]
acme == Word("acme", 4, FALSE)
ai == Word("ai", 2, FALSE)
the == Word("the", 3, TRUE)
Names == {<<<<acme, ai>>, <<acme, ai>>>>, <<<<acme, ai>>, <<acme>>, <<ai>>>>, <<<<the, acme>>, <<the, acme>>>>}

Slug(words, hyphens) == [words |-> words, hyphens |-> hyphens]
HostedBoards ==
    {[source |-> s, token |-> t, lists |-> l, own |-> o[1], title |-> o[2], answers |-> o[3]] :
        s \in ToSet(ProbedSources),
        t \in {Slug(<<acme>>, FALSE), Slug(<<acme, ai>>, FALSE), Slug(<<acme, ai>>, TRUE), Slug(<<ai>>, FALSE)},
        l \in {"postings", "nothing", "fails"},
        o \in {<<TRUE, "like", TRUE>>, <<TRUE, "like", FALSE>>, <<TRUE, "unlike", TRUE>>,
               <<FALSE, "unlike", TRUE>>, <<FALSE, "like", TRUE>>}}

Link(source, form, path) == [source |-> source, form |-> form, path |-> path]
gh == Link("greenhouse", "plain", <<"gh">>)
ghs == Link("greenhouse", "script", <<"js">>)
lv == Link("lever", "plain", <<"lv">>)
wd == Link("workday", "plain", <<"en-US", "site">>)
wd1 == Link("workday", "plain", <<"site">>)

SearchRequests == [app : {TRUE}, key : BOOLEAN, index : {"", "jobs"}]
Call(p, search, creds) == [path |-> p, hinted |-> p # 3, json |-> ~search, search |-> search, credentials |-> creds]
CallLists ==
    {<<>>, <<Call(1, FALSE, FALSE), Call(1, FALSE, FALSE), Call(2, TRUE, TRUE)>>,
     <<Call(1, FALSE, FALSE), Call(2, FALSE, FALSE), Call(4, TRUE, TRUE)>>,
     <<Call(2, TRUE, FALSE), Call(2, TRUE, TRUE), Call(3, FALSE, FALSE)>>}
Pages1 ==
    [url : {<<>>, <<wd>>}, plain : [long : BOOLEAN, links : {<<>>, <<lv, gh>>, <<wd1>>}],
     rendered : {<<>>, <<lv, gh>>, <<wd1>>, <<ghs, lv>>}, browser : BOOLEAN,
     searches : {<<>>} \cup {<<a, b>> : a, b \in SearchRequests}, index : {"", "page"},
     calls : {<<>>}, postings : {<<>>}]
CalledPages ==
    {[p EXCEPT !.calls = c, !.postings = [i \in 1 .. n |-> i]] :
        p \in {q \in Pages1 : q.url = <<>> /\ q.searches = <<>>}, c \in CallLists, n \in {0, 6}}

MCBoardCases ==
    [hosted : {h \in {{}} \cup {{a, b} : a, b \in HostedBoards} :
                    \A a, b \in h : a # b => a.source # b.source \/ a.token # b.token},
     name : Names, careers : {<<>>}]
      \cup [hosted : {{}, {[source |-> "lever", token |-> Slug(<<acme, ai>>, TRUE), lists |-> "postings",
                            own |-> TRUE, title |-> "like", answers |-> TRUE]}},
            name : {<<<<acme, ai>>>>}, careers : {<<p>> : p \in Pages1 \cup CalledPages}]
MCMetroOf == [x \in {<<"quincy", "MA">>} |-> [city |-> "boston", state |-> "MA"]]

-----------------------------------------------------------------------------
(* The feed: three postings of two companies under every selection, and two *)
(* postings with every pair of locations.                                   *)

Loc == [names |-> {}, us |-> FALSE, us_last |-> FALSE, foreign |-> FALSE, abbrs |-> <<>>, prefix |-> {}, cities |-> {},
        comma |-> FALSE, blank |-> FALSE, text |-> {}]
Locations ==
    {[Loc EXCEPT !.names = n, !.foreign = f, !.abbrs = a, !.cities = c, !.comma = a # <<>> \/ k] :
        n \in {{}, {"west virginia"}, {"district of columbia"}}, f \in BOOLEAN,
        a \in {<<>>, <<"MA">>, <<"IN">>, <<"XX">>, <<"XX", "MA">>}, c \in {{}, {"boston"}}, k \in BOOLEAN}
      \cup {[Loc EXCEPT !.blank = TRUE]}
      \cup {[Loc EXCEPT !.us = TRUE, !.prefix = p, !.foreign = f] : p \in {{}, {"VA"}}, f \in BOOLEAN}
      \cup {[Loc EXCEPT !.us_last = TRUE, !.abbrs = a, !.comma = a # <<>>, !.foreign = f] :
              a \in {<<>>, <<"XX">>}, f \in BOOLEAN}

Company(n, comma) == [words |-> {"co"}, comma |-> comma, rank |-> n]
Title == [levels |-> {}, nontech |-> FALSE, tech |-> TRUE, noise |-> FALSE, roles |-> {}, field |-> TRUE,
          words |-> {"ml"}, rank |-> 1]
Posting(n) == [title |-> Title, company |-> Company(1, FALSE), source |-> "lever", age |-> n,
               location |-> [Loc EXCEPT !.abbrs = <<"MA">>, !.comma = TRUE, !.text = {"bo"}]]
Second ==
    {[Posting(2) EXCEPT !.title = t, !.company = c, !.location = l] :
        t \in {Title, [Title EXCEPT !.levels = {"staff", "senior"}, !.words = {"ml", "java"}, !.rank = 0],
               [Title EXCEPT !.levels = {"intern"}, !.roles = {"sre"}], [Title EXCEPT !.noise = TRUE]},
        c \in {Company(1, FALSE), Company(2, FALSE), Company(3, TRUE)},
        l \in {Posting(1).location, [Loc EXCEPT !.names = {"west virginia"}, !.abbrs = <<"XX">>, !.comma = TRUE],
               [Loc EXCEPT !.blank = TRUE]}}
Third == {[Posting(3) EXCEPT !.source = "ashby", !.title.levels = {"senior"}],
          [Posting(3) EXCEPT !.title.nontech = TRUE]}
Filters ==
    {[Unconstrained EXCEPT !.company = v] :
        v \in {{}, {Company(1, FALSE)}, {Company(2, FALSE), Company(3, TRUE)}}}
      \cup {[Unconstrained EXCEPT ![s[1]] = s[2], !.on_target = t] : t \in BOOLEAN,
              s \in {<<"source", {"lever"}>>, <<"state", {"MA"}>>, <<"state", {"OTHER", "WV"}>>,
                     <<"level", {"senior", "staff"}>>, <<"keyword", {"java"}>>, <<"keyword", {"co"}>>,
                     <<"include", {"ml"}>>, <<"include", {"java", "go"}>>, <<"exclude", {"java"}>>}}
      \cup {[Unconstrained EXCEPT !.place = {"bo"}, !.order = "title"],
            [Unconstrained EXCEPT !.since = {2}, !.order = "company", !.level = {"mid"}]}

MCFeedCases ==
    [jobs : {{Posting(1), b, c} : b \in Second, c \in Third}, filters : Filters, avoid : {{"sre"}}]
      \cup {[jobs |-> {[Posting(1) EXCEPT !.location = a], [Posting(2) EXCEPT !.location = b]},
             filters |-> Unconstrained, avoid |-> {}] : a, b \in Locations}

-----------------------------------------------------------------------------
(* Sponsors: two rows of the files, for three employers over four years.    *)

W(t, n, legal) == [text |-> t, letters |-> n, digit |-> FALSE, legal |-> legal, tail |-> FALSE]
Name(words) == [words |-> words]
wacme == W("acme", 4, FALSE)
wrobo == W("robo", 4, FALSE)
warm == W("arm", 3, FALSE)
wcorp == W("corp", 4, TRUE)
wxq == W("xq", 2, FALSE)
FileRows(n) ==
    {[id |-> n, year |-> y, name |-> Name(e), approvals |-> a, denials |-> d] :
        y \in {1, 3, 4}, e \in {<<wacme, wcorp>>, <<wacme, wrobo>>, <<wacme, wrobo, warm>>},
        a \in {0, 9, 99, 100}, d \in {0, 40}}

MCSponsorCases ==
    [company : {Name(<<wacme>>), Name(<<wacme, wrobo, wcorp>>), Name(<<wrobo>>), Name(<<wxq>>)},
     rows : {{a, b} : a \in FileRows(1), b \in FileRows(2)}, answered : {1 .. 4}, alike : {{}}]
      \cup [company : {Name(<<wcorp>>), Name(<<W("acmee", 5, FALSE)>>)},
            rows : {{a} : a \in FileRows(1)}, answered : {1 .. 4, {1, 2, 3}, {}},
            alike : {{}, {<<[text |-> "acme", letters |-> 4]>>}}]

-----------------------------------------------------------------------------
(* Judgements: up to three requirements, classified in every way.           *)

Object(status, touches, quotes, bridge) ==
    [requirement |-> 1, status |-> status, evidence |-> [touches |-> touches, quotes |-> quotes],
     substitution |-> bridge]
Objects ==
    {Object("existing", {"sql"}, {}, {}), Object("existing", {}, {}, {}), Object("existing", {"go"}, {}, {"go"}),
     Object("supportedByResume", {}, {1}, {}), Object("supportedByResume", {"sql"}, {}, {}),
     Object("gap", {}, {}, {"spark"}), Object("gap", {}, {}, {}), Object("maybe", {"sql"}, {1}, {})}
Answers == {<<>>} \cup {<<a>> : a \in Objects} \cup {<<a, b>> : a, b \in Objects}
             \cup {<<a, b, c>> : a, b, c \in Objects}

Profile(skills, bullets, tools) == [skills |-> skills, bullets |-> bullets, tools |-> tools]
Said == [title |-> "", location |-> "", work_model |-> "remote", stance |-> "unclear", required |-> {1, 2},
         preferred |-> {}, years |-> {}]
Judged == [raw |-> [length |-> 100, title |-> "t", location |-> "l"], said |-> Said,
           profile |-> Profile({"sql"}, {1}, {"spark"}), gaps |-> <<>>, overlap |-> {1}, overall |-> <<50>>, tie_up |-> TRUE,
           signal |-> <<>>, years |-> 3, needs_sponsorship |-> TRUE]
\* Lists long enough for a score to lie between two tenths: 44.9545% and 44.95%.
Counted(existing, supported, n) ==
    [i \in 1 .. n |-> CASE i <= existing -> Object("existing", {"sql"}, {}, {})
                        [] i > existing /\ i <= existing + supported -> Object("supportedByResume", {}, {1}, {})
                        [] OTHER -> Object("gap", {}, {}, {})]
Signal(l) == <<[likelihood |-> l, approvals |-> 10, needs_verification |-> FALSE]>>

MCAssessCases ==
    {[Judged EXCEPT !.profile = p, !.gaps = g, !.overall = o] :
        p \in {Judged.profile, Profile({}, {}, {}), Profile({"sql"}, {}, {})}, g \in Answers,
        o \in {<<>>, <<0>>, <<45>>, <<100>>}}
      \cup {[Judged EXCEPT !.said.stance = s, !.said.years = y, !.signal = h, !.needs_sponsorship = n,
                           !.overlap = v, !.said.required = r, !.overall = <<90>>] :
              s \in Stances \cup {"perhaps"}, y \in {{}, {4}, {3, 5}, {6}}, h \in {<<>>, Signal("low"), Signal("high")},
              n \in BOOLEAN, v \in {{}, {1, 2}}, r \in {{}, {1, 2}}}
      \cup {[Judged EXCEPT !.raw.length = 10]}
      \cup {[Judged EXCEPT !.gaps = Counted(25, 0, 77), !.overall = <<100>>, !.tie_up = u] : u \in BOOLEAN}
      \cup {[Judged EXCEPT !.gaps = Counted(40, 7, 100), !.overall = <<45>>, !.tie_up = u] : u \in BOOLEAN}

-----------------------------------------------------------------------------
(* Places: a candidate of a suburb, a city or nowhere that can be read, and *)
(* a job at each of them, under every preference.                           *)

At(city, state, loose) == [city |-> city, state |-> state, loose |-> loose, text |-> "text"]
Places == {At("quincy", "MA", FALSE), At("boston", "MA", FALSE), At("nyc", "NY", FALSE), At("", "WV", FALSE),
           At("nyc", "NY", TRUE), At("", "", FALSE)}
boston == [city |-> "boston", state |-> "MA"]
nyc == [city |-> "nyc", state |-> "NY"]
MCLocationCases ==
    [job : [work_model : {"remote", "onsite"}, location : Places, restriction : {{}, {"MA"}, {"NY", "WV"}}],
     candidate : Places,
     prefs : [authorized : {{}, {{"MA"}}, {{"NY", "VA"}}}, open_to_remote : BOOLEAN, willing : BOOLEAN,
              metros : {{}, {nyc}, {nyc, boston}}, anywhere : BOOLEAN,
              style : {"bare_metro", "target_metro_open", "base_relocating"}]]

-----------------------------------------------------------------------------
(* Documents: up to three roles, at two employers of the profile, one whose *)
(* name contains the other's, and one the profile does not have.            *)

Bullet(m, p) == [metrics |-> m, phrases |-> p]
Job(org, start, end) == [org |-> org, start |-> start, end |-> end]
Spoken(org, start, end, n, bullets) ==
    [org |-> org, letters |-> n, start |-> start, end |-> end, bullets |-> bullets]
Careers == {<<Job("a", 5, Present), Job("a", 3, 5), Job("b", 1, 3)>>, <<Job("a", 3, 4), Job("b", 1, 3)>>,
            <<Job("a", 5, 6), Job("b", 3, 5), Job("a", 1, 3)>>}
Profiles == [roles : Careers, metrics : {{10}}, forbidden : {{"secret"}}, within : {{}, {<<"a", "c">>}, {<<"b", "a">>}}]
Plain == <<Bullet({10}, {})>>
RolesSaid ==
    {Spoken(o, d[1], d[2], 4, Plain) : o \in {"a", "b", "c"},
         d \in {<<5, Present>>, <<3, 5>>, <<3, 4>>, <<1, 3>>, <<5, 6>>, <<0, 4>>}}
      \cup {Spoken("a", 3, 4, 2, <<Bullet({10}, {}), Bullet({99}, {})>>), Spoken("b", 1, 3, 0, <<Bullet({}, {"secret"})>>)}
SaidRoles == {<<r>> : r \in RolesSaid} \cup {<<r, s>> : r, s \in RolesSaid}
               \cup {<<r, s, u>> : r, s \in {x \in RolesSaid : x.org = "a"}, u \in {x \in RolesSaid : x.org # "c"}}
Fine == [sections |-> <<"SUMMARY", "SKILLS", "EXPERIENCE", "EDUCATION">>, ordered |-> TRUE, email |-> TRUE, ascii |-> TRUE]
Speech(roles) == [roles |-> roles, summary |-> Bullet({}, {}), typos |-> {}, page |-> Fine]
Letter(m) == [metrics |-> m, buzzwords |-> FALSE, long |-> FALSE]

MCResumeCases ==
    [profile : Profiles, said : {Speech(r) : r \in SaidRoles}, letter : {Letter({10})}]
      \cup [profile : Profiles, letter : {Letter({10}), Letter({99}), [Letter({}) EXCEPT !.long = TRUE]},
            said : {[Speech(<<Spoken("a", 3, 4, 4, Plain)>>) EXCEPT !.summary.metrics = m, !.typos = t, !.page = g] :
                      m \in {{}, {99}}, t \in {{}, {"teh"}},
                      g \in {Fine, [Fine EXCEPT !.ordered = FALSE], [Fine EXCEPT !.email = FALSE],
                             [Fine EXCEPT !.ascii = FALSE], [Fine EXCEPT !.sections = Tail(@)],
                             [Fine EXCEPT !.sections = Front(@)]}}]

-----------------------------------------------------------------------------
(* Pages: up to five roles and three projects, short, long and too long.    *)

Counts(n, most) == UNION {[1 .. k -> most] : k \in 0 .. n}
MCFitCases ==
    [content : [skills : {<<>>, <<12, 12, 1>>, <<9, 9, 9>>, <<20, 14, 1>>},
                roles : Counts(3, {0, 1, 2, 5}) \cup {<<5, 5, 2, 1>>, <<2, 4, 4, 4, 1>>, <<5, 5, 5, 5, 5>>},
                projects : {<<>>, <<1>>, <<3>>, <<2, 1>>, <<2, 2, 3>>}],
     target : {1, 2}, per_page : {12, 18, 24, 30}]

-----------------------------------------------------------------------------
(* Skills: two categories, three passes of the keyword search; a skill that *)
(* is listed twice, and two names of one term.                              *)

Skill(c, n, t, mention, must) == [category |-> c, name |-> n, term |-> t, mention |-> mention, must |-> must]
docker(m) == Skill(1, "Docker", "docker", m, TRUE)
go(m) == Skill(1, "Go", "go", m, FALSE)
Tools == {<<docker(m), go(n), Skill(1, "SQL", "sql", 0, FALSE)>> : m, n \in 0 .. 2}
           \cup {<<go(2), docker(1), docker(1)>>, <<go(2), go(2), docker(1)>>, <<docker(1), Skill(1, "DOCKER", "docker", 1, TRUE)>>}
Fronts == {<<>>, <<Skill(2, "React", "react", 1, FALSE), Skill(2, "FastAPI", "fastapi", 0, TRUE)>>,
           <<Skill(2, "FastAPI", "fastapi", 1, TRUE), Skill(2, "Spark", "spark", 0, TRUE), Skill(2, "CSS", "css", 2, FALSE)>>,
           <<Skill(2, "Docker", "docker", 1, TRUE)>>}
Term(t, k) == [term |-> t, kind |-> k]

MCSkillCases ==
    [passes : {<<<<"go">>, <<"go">>, <<"go", "sql">>>>, <<<<"docker">>, <<"sql", "go">>, <<"sql">>>>, <<<<>>, <<>>, <<>>>>},
     final : {<<>>, <<Term("go", "hard"), Term("sql", "soft")>>, <<Term("css", "hard"), Term("sql", "hard"), Term("docker", "soft")>>},
     skills : {<<[offrole |-> FALSE, items |-> t], [offrole |-> o, items |-> f]>> : t \in Tools, f \in Fronts, o \in BOOLEAN},
     ai_role : BOOLEAN, max_items : {1, 2, 4}, per_category_cap : {1, 2},
     text : {{}, {"sql"}}, numbered : {1, 4}, parts : {DOMAIN StructurePoints}]

-----------------------------------------------------------------------------
(* Addresses: every board, and each tier with and without the description.  *)

Listed(i, t) == [id |-> i, text |-> t]
Tier(a, t) == [answer |-> a, text |-> t]
MCScrapeCases ==
    [host : [answer : {"ok", "refused"}, text : {"", "mine"},
             listed : {<<>>, <<Listed(1, "other"), Listed(2, "mine")>>, <<Listed(2, "mine")>>, <<Listed(2, "")>>},
             domains : {<<>>, <<Tier("refused", "mine"), Tier("ok", ""), Tier("ok", "mine")>>}],
     address : [board : Handlers \cup {"other"}, id : {2}, custom : BOOLEAN, guessed : BOOLEAN],
     page : [answer : {"ok", "refused"}, browser : BOOLEAN, rendered : {"", "page"},
             blocks : {<<>>, <<[posting |-> FALSE, text |-> "news"], [posting |-> TRUE, text |-> ""],
                               [posting |-> TRUE, text |-> "mine"]>>}]]
=============================================================================
