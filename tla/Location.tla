------------------------------ MODULE Location ------------------------------
(* Where the resume says the candidate is: the metro of the candidate and   *)
(* of the job, the eligibility for a remote role, and the line that is      *)
(* shown.                                                                   *)
(*                                                                          *)
(* Abstractions: a location is a city and a state, "" for what it does not  *)
(* name; `loose' tells that words follow the state without a comma.         *)
EXTENDS Naturals, FiniteSets

CONSTANT MetroOf        \* the metro of a suburb: a partial function of <<city, state>>

Nowhere == [city |-> "", state |-> ""]

\* A name with another state's name inside is taken for that state when it
\* does not stand after a city and a comma.
BareState(state) == IF state = "WV" THEN "VA" ELSE state

parse_city_state(loc) ==
    IF loc.state = "" THEN Nowhere
    ELSE IF loc.city = "" \/ loc.loose THEN [city |-> "", state |-> BareState(loc.state)]
    ELSE [city |-> loc.city, state |-> loc.state]

to_metro(place) ==
    IF <<place.city, place.state>> \in DOMAIN MetroOf THEN MetroOf[<<place.city, place.state>>]
    ELSE place

\* A place that cannot be read is shown as it is written.
MetroShown(loc) ==
    LET place == parse_city_state(loc)
    IN  IF place = Nowhere THEN [city |-> loc.text, state |-> ""] ELSE to_metro(place)

\* restriction: the states a remote role names; prefs.authorized is empty, or
\* holds the states the candidate may work in.
remote_eligible(restriction, state, prefs) ==
    /\ prefs.authorized # {} /\ state # "" => \E states \in prefs.authorized : state \in states
    /\ restriction # {} /\ state # "" => state \in restriction

\* The line: a metro, and what is said next to it.
Line(metro, note) == [metro |-> metro, note |-> note]

reloc_display(base, metro, style) ==
    CASE style = "target_metro_open" -> Line(metro, "open to relocation")
      [] style = "base_relocating" -> Line(base, "relocating")
      [] OTHER -> Line(metro, "")

\* Mutant of Moves: a list of metros is enough.
MovesIfListed(prefs, metro) == metro \in prefs.metros \/ prefs.anywhere

Moves(prefs, metro) == (prefs.willing /\ metro \in prefs.metros) \/ prefs.anywhere

resolve_location(job, candidate, prefs) ==
    LET own == MetroShown(candidate)
        metro == to_metro(parse_city_state(job.location))
        state == parse_city_state(candidate).state
        Plan(line, strategy, passes) == [display |-> line, strategy |-> strategy, passes |-> passes]
    IN  IF job.work_model = "remote" THEN
            IF ~remote_eligible(job.restriction, state, prefs)
            THEN Plan(Line(own, ""), "remote_ineligible", FALSE)
            ELSE IF prefs.open_to_remote THEN Plan(Line(own, "open to remote"), "open_to_remote", TRUE)
            ELSE Plan(Line(own, ""), "local", TRUE)
        ELSE IF metro = Nowhere THEN Plan(Line(own, ""), "unknown_jd", TRUE)
        ELSE IF metro = own THEN Plan(Line(own, ""), "local", TRUE)
        ELSE IF Moves(prefs, metro)
        THEN Plan(reloc_display(own, metro, prefs.style), "relocating", TRUE)
        ELSE Plan(Line(own, ""), "non_local", FALSE)
=============================================================================
