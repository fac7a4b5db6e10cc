------------------------------- MODULE Assess -------------------------------
(* The judgement of a posting: the fields and the keywords a language model *)
(* reads off the description, its classification of the requirements, the   *)
(* fit it finds, and the recommendation.  Each step checks or bounds what   *)
(* the model answered; here the answers are inputs, whatever they say.      *)
(*                                                                          *)
(* Abstractions: a requirement, a term and a skill are identities; what a   *)
(* piece of evidence shares with the profile is a fact of the evidence.     *)
EXTENDS Sponsorship, Picking

-----------------------------------------------------------------------------
(* structure_jd and extract_keywords.                                       *)

Stances == {"offers", "no_sponsorship", "case_by_case", "unclear"}
WorkModels == {"onsite", "hybrid", "remote", "unknown"}

\* raw: the text's length and what the scraper knew; said: the model's
\* answer, "" where it says nothing.
structure_jd(raw, said) ==
    IF raw.length < 20 THEN [error |-> TRUE]
    ELSE [error |-> FALSE,
          title |-> IF said.title = "" THEN raw.title ELSE said.title,
          location |-> IF said.location = "" THEN raw.location ELSE said.location,
          work_model |-> IF said.work_model \in WorkModels THEN said.work_model ELSE "unknown",
          stance |-> IF said.stance \in Stances THEN said.stance ELSE "unclear",
          required |-> said.required, preferred |-> said.preferred,
          years |-> said.years]

\* passes: the terms of each pass, in order; a failed pass has none.  final:
\* the consolidated list of [term, kind], of
\* which the first of a term counts.  A weight is out of Len(passes).
extract_keywords(passes, final) ==
    LET Passes(t) == Cardinality({i \in DOMAIN passes : t \in ToSet(passes[i])})
        Weight(t) == IF Passes(t) = 0 THEN 1 ELSE Passes(t)
        Keyword(k) == [term |-> k.term, kind |-> IF k.kind = "soft" THEN "soft" ELSE "hard",
                       weight |-> Weight(k.term)]
        kept == Pick(final, {i \in DOMAIN final :
                                \A j \in DOMAIN final : final[j].term = final[i].term => i <= j})
    IN  IF \A i \in DOMAIN passes : passes[i] = <<>> THEN [error |-> TRUE, keywords |-> <<>>]
        ELSE [error |-> FALSE, keywords |-> [i \in DOMAIN kept |-> Keyword(kept[i])]]

-----------------------------------------------------------------------------
(* analyze_gaps.  profile: the named skills, the bullets and the tools of   *)
(* the equivalence map.  said: one object for each requirement the model    *)
(* chose to answer.  The evidence of an object touches some skills (a word  *)
(* in common, or one text within the other) and quotes some bullets.        *)

\* A skill is touched by as little as one word in common.
verify_evidence(profile, status, evidence) ==
    IF status = "existing" THEN evidence.touches \cap profile.skills # {}
    ELSE evidence.quotes \cap profile.bullets # {}

\* A bridge may start at a named skill or at any tool the map lists.
Owned(profile) == profile.skills \cup profile.tools

gap_item(profile, o) ==
    LET claimed == IF o.status \in {"existing", "supportedByResume"} THEN o.status ELSE "gap"
    IN  [requirement |-> o.requirement,
         status |-> IF claimed # "gap" /\ verify_evidence(profile, claimed, o.evidence)
                    THEN claimed ELSE "gap",
         substitution |-> o.substitution \cap Owned(profile)]

analyze_gaps(profile, said) == [i \in DOMAIN said |-> gap_item(profile, said[i])]

-----------------------------------------------------------------------------
(* score_fit.  Coverage is a fraction [tenths, of]: tenths of a requirement *)
(* met, of so many.  A final score is in tenths of a percent, rounded from  *)
(* the mean of the coverage and of what the model says; the floating point  *)
(* number that stands for a score halfway between two tenths lies on either *)
(* side of it (tie_up).                                                     *)

Having(items, status) == Cardinality({i \in DOMAIN items : items[i].status = status})
Bridged(items) ==
    Cardinality({i \in DOMAIN items : items[i].status = "gap" /\ items[i].substitution # {}})
Tenths(items) == 10 * Having(items, "existing") + 7 * Having(items, "supportedByResume") + 5 * Bridged(items)

\* Without items, the required qualifications whose words the profile has.
coverage(items, required, overlap) ==
    IF items # <<>> THEN [tenths |-> Tenths(items), of |-> Len(items)]
    ELSE IF required = {} THEN [tenths |-> 0, of |-> 1]
    ELSE [tenths |-> 10 * Cardinality(required \cap overlap), of |-> Cardinality(required)]

Between(low, x, high) == IF x < low THEN low ELSE IF x > high THEN high ELSE x

Rounded(a, b, tie_up) == IF tie_up THEN (2 * a + b) \div (2 * b) ELSE -((b - 2 * a) \div (2 * b))

\* The coverage, and the model's score (the coverage when it gives none), in
\* of parts of a percent.
Share(cov) == 10 * cov.tenths
Told(cov, overall) == IF overall = <<>> THEN Share(cov) ELSE cov.of * overall[1]
Mean(cov, told, tie_up) == Rounded(5 * (Share(cov) + told), cov.of, tie_up)

\* Mutant of score_fit: the model's score is not held near the coverage.
score_fit_unheld(cov, overall, tie_up) == Mean(cov, Told(cov, overall), tie_up)

score_fit(cov, overall, tie_up) ==
    Mean(cov, Between(Share(cov) - 25 * cov.of, Told(cov, overall), Share(cov) + 25 * cov.of), tie_up)

-----------------------------------------------------------------------------
(* decide_apply.  years: the numbers of years the description asks for, as  *)
(* its knockouts and required qualifications state them.                    *)

Reaches(final, percent) == final >= 10 * percent

decide_apply(final, verdict, years, candidate_years, needs_sponsorship) ==
    LET blocked ==
            \/ verdict.hard_blocker /\ needs_sponsorship
            \/ /\ years # {} /\ candidate_years + 1 < Max(years)
               /\ Max(years) - candidate_years >= 3
    IN  IF blocked THEN [recommend |-> FALSE, confidence |-> "high", blocked |-> TRUE]
        ELSE [recommend |-> Reaches(final, 45), blocked |-> FALSE,
              confidence |-> IF Reaches(final, 75) THEN "high"
                             ELSE IF Reaches(final, 60) THEN "medium"
                             ELSE IF Reaches(final, 45) THEN "low" ELSE "medium"]

\* The judgement, from the description to the recommendation.
assess(c) ==
    LET job == structure_jd(c.raw, c.said)
        items == analyze_gaps(c.profile, c.gaps)
        cov == coverage(items, job.required, c.overlap)
        final == score_fit(cov, c.overall, c.tie_up)
        verdict == resolve_sponsorship(job.stance, c.signal)
    IN  IF job.error THEN [error |-> TRUE]
        ELSE [error |-> FALSE, items |-> items, coverage |-> cov, final |-> final, verdict |-> verdict,
              decision |-> decide_apply(final, verdict, job.years, c.years, c.needs_sponsorship)]
=============================================================================
