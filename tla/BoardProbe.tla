----------------------------- MODULE BoardProbe -----------------------------
(* Deterministic onboarding: from a company's name, and the careers page    *)
(* its owner may give, to the board that lists its postings; and the        *)
(* fingerprint of a page, which the onboarding agent starts from.           *)
(*                                                                          *)
(* Abstractions: a word is its text, its length and whether it is a stop    *)
(* word; a page is the links, the credentials and the calls it shows; how   *)
(* the name a board bears compares with the company's, and whether the host *)
(* answers for that name, are facts of the board.                           *)
EXTENDS Naturals, Sequences, FiniteSetsExt, SequencesExt, Picking

CONSTANT MaxCalls       \* calls a fingerprint keeps

NoBoard == [source |-> "none", token |-> <<>>]
ProbedSources == <<"greenhouse", "lever", "ashby">>
LinkedSources == ProbedSources \o <<"workday">>

-----------------------------------------------------------------------------
(* The slugs a name suggests.  A name is its words as one part, and as the  *)
(* parts its separators cut it into.                                        *)

Letters(slug) ==
    FoldLeft(LAMBDA n, w : n + w.letters, 0, slug.words)
      + IF slug.hyphens THEN Len(slug.words) - 1 ELSE 0

slug_candidates(name) ==
    LET Words(part) == SelectSeq(part, LAMBDA w : ~w.stop)
        Slugs(words) ==
            IF words = <<>> THEN <<>>
            ELSE <<[words |-> words, hyphens |-> FALSE]>>
                   \o IF Len(words) > 1 THEN <<[words |-> words, hyphens |-> TRUE]>> ELSE <<>>
        guesses == FlattenSeq([i \in DOMAIN name |-> Slugs(Words(name[i]))])
    IN  Pick(guesses, {i \in DOMAIN guesses : /\ Letters(guesses[i]) >= 4
                                              /\ \A j \in 1 .. i - 1 : guesses[j] # guesses[i]})

-----------------------------------------------------------------------------
(* Tier 1: the probe.  hosted is the set of boards on the probed hosts:     *)
(* each lists postings, or nothing, or fails; its official name is like the *)
(* company's, unlike it, or empty; the request for that name may fail.      *)

greenhouse_board_name(b) == IF b.answers THEN b.title ELSE "empty"

\* The loose match: an empty name matches nothing.
name_matches(title) == title = "like"

\* Mutant of Probed: the official name of a greenhouse board is not asked.
ProbedUnnamed(hosted, source, slug) ==
    \E b \in hosted : b.source = source /\ b.token = slug /\ b.lists = "postings"

Probed(hosted, source, slug) ==
    \E b \in hosted :
        /\ b.source = source /\ b.token = slug /\ b.lists = "postings"
        /\ source = "greenhouse" => name_matches(greenhouse_board_name(b))

probe_boards(hosted, name) ==
    LET slugs == slug_candidates(name)
        Hits(i) == {j \in DOMAIN ProbedSources : Probed(hosted, ProbedSources[j], slugs[i])}
        hit == {i \in DOMAIN slugs : Hits(i) # {}}
    IN  IF hit = {} THEN NoBoard
        ELSE [source |-> ProbedSources[Min(Hits(Min(hit)))], token |-> <<slugs[Min(hit)]>>]

-----------------------------------------------------------------------------
(* Tier 2: the careers page.  A link is the segments of its path after the  *)
(* host; `form' tells how a greenhouse board is embedded.                   *)

Token(link) ==
    IF link.source = "greenhouse" /\ link.form = "script" THEN <<"embed">>
    ELSE IF link.source = "workday" /\ Len(link.path) > 1 THEN <<link.path[2]>>
    ELSE <<link.path[1]>>

\* The first link of each source, in the order of the sources.
LinksBySource(links) ==
    FlattenSeq([i \in DOMAIN LinkedSources |->
        LET found == {k \in DOMAIN links : links[k].source = LinkedSources[i]}
        IN  IF found = {} THEN <<>> ELSE <<links[Min(found)]>>])

board_from_html(links) ==
    IF LinksBySource(links) = <<>> THEN NoBoard
    ELSE LET link == Head(LinksBySource(links)) IN [source |-> link.source, token |-> Token(link)]

\* A page that answers plainly, and at length, is not rendered in a browser.
fetch_html(page) ==
    IF page.plain.long THEN page.plain.links
    ELSE IF page.browser THEN page.rendered ELSE <<>>

\* The first search request that carries both credentials is the one used;
\* without an index of its own it takes the one the page configures.
discover_algolia(page) ==
    LET full == SelectSeq(page.searches, LAMBDA s : s.app /\ s.key)
        index == IF Head(full).index # "" THEN Head(full).index ELSE page.index
    IN  IF ~page.browser \/ full = <<>> THEN NoBoard
        ELSE IF index = "" THEN NoBoard
        ELSE [source |-> "algolia", token |-> <<index>>]

discover_from_careers(page) ==
    LET linked == board_from_html(page.url)
        fetched == board_from_html(fetch_html(page))
    IN  IF linked # NoBoard THEN linked
        ELSE IF fetched # NoBoard THEN fetched ELSE discover_algolia(page)

\* careers is empty, or holds the page the owner gave.
resolve(hosted, name, careers) ==
    LET probed == probe_boards(hosted, name)
        found == IF careers = <<>> THEN NoBoard ELSE discover_from_careers(careers[1])
    IN  IF probed # NoBoard THEN [method |-> "slug-probe", board |-> probed]
        ELSE IF found # NoBoard THEN [method |-> "careers-page", board |-> found]
        ELSE [method |-> "none", board |-> NoBoard]

-----------------------------------------------------------------------------
(* The fingerprint of a page.                                               *)

\* The calls kept: one for each path, the first that is hinted at and speaks
\* JSON or is a search, until there are MaxCalls of them.
Captured(calls) ==
    FoldLeft(LAMBDA kept, c :
                 IF \/ Len(kept) >= MaxCalls \/ ~c.hinted \/ ~(c.json \/ c.search)
                    \/ \E i \in DOMAIN kept : kept[i].path = c.path
                 THEN kept ELSE Append(kept, c),
             <<>>, calls)

board_links(links) == LinksBySource(links)
json_ld_jobs(page) == SubSeq(page.postings, 1, IF Len(page.postings) > 5 THEN 5 ELSE Len(page.postings))

fingerprint(page) ==
    LET calls == IF page.browser THEN Captured(page.calls) ELSE <<>>
        links == IF page.browser THEN board_links(page.rendered) ELSE <<>>
        ld == IF page.browser THEN json_ld_jobs(page) ELSE <<>>
        keys == SelectSeq(calls, LAMBDA c : c.search /\ c.credentials)
    IN  [api_calls |-> calls, board_links |-> links, json_ld |-> ld,
         algolia |-> keys # <<>>, index |-> IF keys = <<>> THEN "" ELSE page.index,
         ok |-> keys # <<>> \/ calls # <<>> \/ links # <<>> \/ ld # <<>>]
=============================================================================
