------------------------------ MODULE Discovery ------------------------------
(* The deterministic readings of a posting's title and location, which the  *)
(* ingestion filters and the discovery page share, and the page itself: a   *)
(* filtered slice of the jobs table with the counts of its dropdowns.       *)
(*                                                                          *)
(* Abstractions: a title is the markers it contains, a location the         *)
(* markers, names and abbreviations it contains, in order; a word of a      *)
(* title filter is one of the title's words or not.                         *)
EXTENDS Naturals, Sequences, FiniteSets, SequencesExt, TLC

-----------------------------------------------------------------------------
(* Locations.                                                               *)

\* The names that occur inside a state's name.
NamesIn ==
    [n \in {"virginia", "west virginia", "kansas", "arkansas", "district of columbia"} |->
        CASE n = "west virginia" -> {n, "virginia"}
          [] n = "arkansas" -> {n, "kansas"}
          [] OTHER -> {n}]
CodeOf ==
    [n \in DOMAIN NamesIn |->
        CASE n = "virginia" -> "VA" [] n = "west virginia" -> "WV" [] n = "kansas" -> "KS"
          [] n = "arkansas" -> "AR" [] n = "district of columbia" -> "DC"]
CityCode == [c \in {"boston", "mclean"} |-> IF c = "boston" THEN "MA" ELSE "VA"]

\* Two letters after a comma; "XX" is no state's code.
StateCodes == {"MA", "VA", "WV", "KS", "AR", "IN", "DC"}

\*   names     the state names written out     us       "United States" and the like
\*   foreign   a foreign marker                 abbrs    two letters after a comma
\*   prefix    codes of the form US-CA-         cities   known cities of the US
\*   comma     there is a comma                 blank    there is nothing
\*   us_last   ends in "us" after something else, as in "Remote-US": the term is
\*             the two letters and a space, which the end of the text stands for
Named(loc) == UNION {NamesIn[n] : n \in loc.names}
CodesOf(loc) == {loc.abbrs[i] : i \in DOMAIN loc.abbrs} \cap StateCodes

\* The patterns read the two letters off the text after a comma, so a location
\* with some has a comma in it and is not blank.
LocationShape(loc) ==
    /\ DOMAIN loc = {"names", "us", "us_last", "foreign", "abbrs", "prefix", "cities", "comma", "blank", "text"}
    /\ loc.names \subseteq DOMAIN NamesIn
    /\ loc.cities \subseteq DOMAIN CityCode
    /\ loc.abbrs \in Seq(STRING)
    /\ loc.abbrs # <<>> => loc.comma /\ ~loc.blank

\* Mutant of is_us_location: a foreign marker is looked for first.
is_us_foreign_first(loc) ==
    \/ loc.blank
    \/ ~loc.foreign /\ (Named(loc) # {} \/ loc.us \/ loc.us_last \/ CodesOf(loc) # {} \/ loc.cities # {} \/ ~loc.comma)

\* Only the first two letters after a comma are looked at; `in' is not
\* believed next to a foreign marker.
is_us_location(loc) ==
    \/ loc.blank
    \/ Named(loc) \ {"district of columbia"} # {}
    \/ loc.us \/ loc.us_last
    \/ loc.abbrs # <<>> /\ Head(loc.abbrs) \in StateCodes \ (IF loc.foreign THEN {"IN"} ELSE {})
    \/ ~loc.foreign /\ (loc.cities # {} \/ ~loc.comma)

us_states_of(loc) ==
    {CodeOf[n] : n \in Named(loc)} \cup CodesOf(loc) \cup (loc.prefix \cap StateCodes)
        \cup {CityCode[c] : c \in loc.cities}

-----------------------------------------------------------------------------
(* Titles.                                                                  *)

Levels == <<"intern", "manager", "staff", "senior", "junior">>

title_level(t) ==
    LET hits == SelectSeq(Levels, LAMBDA l : l \in t.levels)
    IN  IF hits = <<>> THEN "mid" ELSE Head(hits)

is_tech_role(t) == ~t.nontech /\ t.tech

\* An empty list is no constraint.
title_matches(t, include, exclude) ==
    /\ exclude \cap t.words = {}
    /\ include # {} => include \cap t.words # {}

\* roles: the avoided roles a title names, in any of their spellings.
matches_preferences(t, avoid) == ~t.noise /\ t.roles \cap avoid = {} /\ t.field

\* What an ingestion lets through.
passes(job, avoid, tech_only, preferred_only, us_only) ==
    /\ tech_only => is_tech_role(job.title)
    /\ preferred_only => matches_preferences(job.title, avoid)
    /\ us_only => is_us_location(job.location)

-----------------------------------------------------------------------------
(* The discovery page.  An empty selection is no constraint; at most one    *)
(* source, keyword and place can be asked for.                              *)

Unconstrained ==
    [company |-> {}, source |-> {}, place |-> {}, keyword |-> {}, include |-> {}, exclude |-> {},
     since |-> {}, on_target |-> FALSE, state |-> {}, level |-> {}, order |-> "recent"]

\* The column filters, in SQL, and the order of the page.
query_jobs(jobs, f) ==
    {r \in jobs : f.place \subseteq r.location.text /\ \A days \in f.since : r.age <= days}

Ordered(rows, order) ==
    SetToSortSeq(rows, LAMBDA a, b :
        IF order = "company" /\ a.company # b.company THEN a.company.rank < b.company.rank
        ELSE IF order = "title" THEN a.title.rank < b.title.rank
        ELSE a.age < b.age)

match_state(job, states) ==
    LET found == us_states_of(job.location)
    IN  \E s \in states : IF s = "OTHER" THEN found = {} ELSE s \in found

\* Selecting several companies sends their names separated by commas, and a
\* name with a comma in it comes apart.
csv(names) == {n \in names : ~n.comma}

apply(rows, f, avoid) ==
    {r \in rows :
        /\ f.keyword \subseteq r.title.words \cup r.company.words
        /\ title_matches(r.title, f.include, f.exclude)
        /\ f.company # {} => r.company \in csv(f.company)
        /\ f.source # {} => r.source \in f.source
        /\ f.on_target => matches_preferences(r.title, avoid)
        /\ f.level # {} => title_level(r.title) \in f.level
        /\ f.state # {} => match_state(r, f.state)}

\* What a row counts for in a dropdown.
FacetOf(dim, r) ==
    CASE dim = "company" -> {r.company}
      [] dim = "source" -> {r.source}
      [] dim = "level" -> {title_level(r.title)}
      [] dim = "state" -> LET s == us_states_of(r.location) IN IF s = {} THEN {"OTHER"} ELSE s
Facets == {"company", "source", "state", "level"}

Tally(dim, rows) ==
    [v \in UNION {FacetOf(dim, r) : r \in rows} |-> Cardinality({r \in rows : v \in FacetOf(dim, r)})]

\* Mutant of Facet: the dropdown is narrowed by its own selection.
FacetNarrowed(dim, base, f, avoid) == Tally(dim, apply(base, f, avoid))

\* Each dropdown is counted without its own selection.
Facet(dim, base, f, avoid) == Tally(dim, apply(base, [f EXCEPT ![dim] = {}], avoid))

discover(jobs, f, avoid, limit, offset) ==
    LET base == query_jobs(jobs, f)
        filtered == apply(base, f, avoid)
        total == Cardinality(filtered)
        last == IF offset + limit < total THEN offset + limit ELSE total
    IN  [total |-> total, jobs |-> SubSeq(Ordered(filtered, f.order), offset + 1, last),
         facets |-> [dim \in Facets |-> Facet(dim, base, f, avoid)]]
=============================================================================
