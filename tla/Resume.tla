------------------------------- MODULE Resume -------------------------------
(* The documents: roles merged and ordered, skills ranked, the content      *)
(* trimmed to its pages, and the gates that compare the result with the     *)
(* profile.  What the language model wrote is an input, whatever it says.   *)
(*                                                                          *)
(* Abstractions: a bullet is the metrics it claims and its identity; a      *)
(* title is its length, of which a merged role takes the shortest; a date   *)
(* is a year, Present the end of a role that goes on; a document's length   *)
(* is a number of lines.                                                    *)
EXTENDS Integers, Sequences, FiniteSets, SequencesExt, FiniteSetsExt, Picking

Present == 9999
Total(counts) == SumFunction(counts)

-----------------------------------------------------------------------------
(* Roles: consecutive roles at one company become one, newest first.        *)

Once(s) == Pick(s, {i \in DOMAIN s : \A j \in DOMAIN s : s[j] = s[i] => i <= j})

\* A group is taken to be listed newest first, whatever its dates say.
merge_roles(a, b) ==
    LET shorter == b.letters > 0 /\ (a.letters = 0 \/ b.letters < a.letters)
    IN  [org |-> a.org, letters |-> IF shorter THEN b.letters ELSE a.letters,
         start |-> b.start, end |-> a.end, bullets |-> Once(a.bullets \o b.bullets)]

\* The roles so far, with one more.
Joined(out, r) ==
    IF out # <<>> /\ Last(out).org = r.org THEN Append(Front(out), merge_roles(Last(out), r)) ELSE Append(out, r)

merge_same_company(roles) ==
    LET Merged[n \in 0 .. Len(roles)] == IF n = 0 THEN <<>> ELSE Joined(Merged[n - 1], roles[n])
    IN  Merged[Len(roles)]

\* The place of a role is the number of those ahead of it; equals keep their order.
sort_reverse_chron(roles) ==
    LET Later(j, i) == roles[j].end > roles[i].end \/ (roles[j].end = roles[i].end /\ j < i)
        Place(i) == 1 + Cardinality({j \in DOMAIN roles : Later(j, i)})
    IN  [k \in DOMAIN roles |-> roles[CHOOSE i \in DOMAIN roles : Place(i) = k]]

ordered_roles(roles) == sort_reverse_chron(merge_same_company(roles))

-----------------------------------------------------------------------------
(* Skills: chosen from the profile, category by category.  A score is in    *)
(* sixths, for the keywords come from three passes: a keyword of the        *)
(* description, a mention in it, a tool that is standard for the role.  A   *)
(* skill has its category, its name as it is written there, which tells the *)
(* rest, and the term that the name is when case and marks are left out.    *)

Score(s, keywords, ai_role) ==
    LET Worth(k) == 18 + IF k.kind = "hard" THEN 2 * k.weight ELSE k.weight
    IN  SumFunction([k \in {k \in keywords : k.term = s.term} |-> Worth(k)])
          + 6 * s.mention + (IF ai_role /\ s.must THEN 15 ELSE 0)

\* The n best, equals in their order; they are given in the order of items.
\* better: the pairs of indices of which the first is the better item's.
Best(items, n, better) ==
    LET Ahead(j, i) == <<j, i>> \in better \/ (j < i /\ <<i, j>> \notin better)
    IN  Pick(items, {i \in DOMAIN items : Cardinality({j \in DOMAIN items : Ahead(j, i)}) < n})

Ranked(category, keywords, ai_role, cap) ==
    LET Of6(s) == Score(s, keywords, ai_role)
        Shown(s) == IF ai_role /\ category.offrole THEN Of6(s) >= 18 ELSE Of6(s) > 0 \/ s.must
        kept == Pick(category.items, {i \in DOMAIN category.items : Shown(category.items[i])})
    IN  Best(kept, cap, {p \in (DOMAIN kept) \X (DOMAIN kept) : Of6(kept[p[1]]) > Of6(kept[p[2]])})

\* Mutant of Preferred: the global cap looks at the score only.
PreferredByScore(a, b, keywords, ai_role) == Score(a, keywords, ai_role) > Score(b, keywords, ai_role)

Preferred(a, b, keywords, ai_role) ==
    \/ a.must /\ ~b.must
    \/ a.must = b.must /\ Score(a, keywords, ai_role) > Score(b, keywords, ai_role)

\* What is kept is kept by category and name: a skill that is listed twice there
\* takes one of the max_items places or two, and is shown twice.
rank_skills(skills, keywords, ai_role, max_items, per_category_cap) ==
    LET ranked == FlattenSeq([c \in DOMAIN skills |-> Ranked(skills[c], keywords, ai_role, per_category_cap)])
        keep == Best(ranked, max_items, {p \in (DOMAIN ranked) \X (DOMAIN ranked) :
                                             Preferred(ranked[p[1]], ranked[p[2]], keywords, ai_role)})
    IN  Pick(ranked, {i \in DOMAIN ranked : ranked[i] \in ToSet(keep)})

-----------------------------------------------------------------------------
(* Pages.  A content is the number of skills in each category, of bullets   *)
(* in each role and of bullets in each project.  A category that loses its  *)
(* last skill is no line of the document any more.                          *)

ContentShape(c) == c \in [skills : Seq(Nat), roles : Seq(Nat), projects : Seq(Nat)]

Lines(c) == 10 + Cardinality({k \in DOMAIN c.skills : c.skills[k] > 0}) + Total(c.skills) \div 8 + Len(c.roles) + 2 * Total(c.roles)
              + Len(c.projects) + 2 * Total(c.projects)
Pages(c, per_page) == (Lines(c) + per_page - 1) \div per_page

Upto(n, m) == IF n < m THEN n ELSE m

\* One item off the largest category, the first of the largest.
PopSkill(c) ==
    LET big == CHOOSE k \in DOMAIN c.skills :
                   \A j \in DOMAIN c.skills : c.skills[j] < c.skills[k] \/ (c.skills[j] = c.skills[k] /\ k <= j)
    IN  [c EXCEPT !.skills[big] = @ - 1]

apply_budget(c, target) ==
    LET Pop[n \in 0 .. Total(c.skills)] == IF n = 0 THEN c ELSE PopSkill(Pop[n - 1])
        over == Total(c.skills) - Upto(Total(c.skills), 30)
    IN  IF target > 1 THEN c
        ELSE [skills |-> Pop[over].skills,
              roles |-> [i \in 1 .. Upto(Len(c.roles), 4) |-> Upto(c.roles[i], <<4, 4, 3, 3>>[i])],
              projects |-> [i \in 1 .. Upto(Len(c.projects), 2) |-> Upto(c.projects[i], 2)]]

\* The roles that can lose a bullet: the two newest keep two.
Spare(c) == {i \in DOMAIN c.roles : c.roles[i] > (IF i <= 2 THEN 2 ELSE 1)}

\* The step that trims next; "none" when no step is left.  A last project of
\* one bullet ends the trimming: the last resort is for content without projects.
NextTrim(c) ==
    LET thick == {i \in 1 .. Upto(2, Len(c.roles)) : c.roles[i] > 1} IN
    IF Total(c.skills) > 26 THEN "skill"
    ELSE IF Spare(c) # {} THEN "bullet"
    ELSE IF Len(c.roles) > 3 THEN "role"
    ELSE IF c.projects # <<>> THEN
        IF Last(c.projects) > 1 THEN "project_bullet"
        ELSE IF Len(c.projects) > 1 THEN "project" ELSE "none"
    ELSE IF thick # {} THEN "last_resort" ELSE "none"

\* Mutant of trim_one: the newest role loses its bullets first.
trim_newest(c) ==
    CASE NextTrim(c) = "bullet" -> [c EXCEPT !.roles[1] = IF @ > 0 THEN @ - 1 ELSE 0]
      [] NextTrim(c) = "skill" -> PopSkill(c)
      [] OTHER -> [c EXCEPT !.projects = <<>>]

trim_one(c) ==
    CASE NextTrim(c) = "skill" -> PopSkill(c)
      [] NextTrim(c) = "bullet" -> [c EXCEPT !.roles[Max(Spare(c))] = @ - 1]
      [] NextTrim(c) = "role" -> [c EXCEPT !.roles = Front(@)]
      [] NextTrim(c) = "project_bullet" -> [c EXCEPT !.projects[Len(c.projects)] = @ - 1]
      [] NextTrim(c) = "project" -> [c EXCEPT !.projects = Front(@)]
      [] NextTrim(c) = "last_resort" ->
           [c EXCEPT !.roles[IF c.roles[1] > 1 THEN 1 ELSE 2] = @ - 1]

\* The content after n renderings too long.
fit_pages(c, target, per_page, max_iter) ==
    LET Trimmed[n \in 0 .. max_iter] ==
            IF n = 0 THEN apply_budget(c, target)
            ELSE LET x == Trimmed[n - 1]
                 IN  IF Pages(x, per_page) > target /\ NextTrim(x) # "none" THEN trim_one(x) ELSE x
    IN  Trimmed[max_iter]

-----------------------------------------------------------------------------
(* The gates.  profile: its metrics, its roles in order, the phrases it     *)
(* forbids; within: the pairs of employers whose names contain one another. *)

Alike(profile, a, b) == a = b \/ <<a, b>> \in profile.within \/ <<b, a>> \in profile.within
Employers(profile) == {profile.roles[i].org : i \in DOMAIN profile.roles}

\* Skills are not read for metrics.
Claims(content) ==
    content.summary.metrics \cup UNION {b.metrics : b \in UNION {ToSet(r.bullets) : r \in ToSet(content.roles)}}
Phrases(content) ==
    content.summary.phrases \cup UNION {b.phrases : b \in UNION {ToSet(r.bullets) : r \in ToSet(content.roles)}}

ungrounded_metrics(profile, metrics) == metrics \ profile.metrics

verify_resume(profile, content) ==
    /\ ungrounded_metrics(profile, Claims(content)) = {}
    /\ \A r \in ToSet(content.roles) : \E e \in Employers(profile) : Alike(profile, r.org, e)
    /\ Phrases(content) \cap profile.forbidden = {}

\* The span of an employer, over all its roles in the profile.
Span(profile, org) ==
    LET roles == {r \in ToSet(profile.roles) : r.org = org}
    IN  [start |-> Min({r.start : r \in roles}), end |-> Max({r.end : r \in roles})]

\* Mutant of consistent: the end of a role is not compared.
consistent_start(profile, role) ==
    \E e \in Employers(profile) : Alike(profile, role.org, e) /\ role.start >= Span(profile, e).start

\* The first employer whose name contains the role's, or is contained in it,
\* gives the span; the years of a role are the least and the largest it names;
\* a role that is said to go on is not compared with the end of the span.
consistent(profile, role) ==
    LET alike == {i \in DOMAIN profile.roles : Alike(profile, role.org, profile.roles[i].org)}
        span == Span(profile, profile.roles[Min(alike)].org)
    IN  /\ alike # {}
        /\ Min({role.start, role.end}) >= span.start
        /\ (role.end # Present /\ span.end # Present) => Max({role.start, role.end}) <= span.end

\* page: what the extracted text of the rendered document shows.
verify_ats(profile, content, page) ==
    /\ {"EXPERIENCE", "SKILLS", "EDUCATION"} \subseteq ToSet(page.sections)
    /\ page.ordered /\ page.email /\ page.ascii
    /\ content.typos = {}
    /\ \A r \in ToSet(content.roles) : consistent(profile, r)

write_cover_letter(profile, letter) ==
    [passed |-> ungrounded_metrics(profile, letter.metrics) = {},
     warned |-> letter.buzzwords \/ letter.long \/ ungrounded_metrics(profile, letter.metrics) # {}]

\* What the pipeline makes of the model's content, and what its gates say.
generate_resume(profile, said) ==
    LET content == [said EXCEPT !.roles = ordered_roles(@)]
    IN  [content |-> content, fact_gate |-> verify_resume(profile, content),
         ats |-> verify_ats(profile, content, said.page)]

-----------------------------------------------------------------------------
(* The scores, in tenths of a percent.                                      *)

\* A soft keyword weighs half as much as a hard one.
keyword_coverage(keywords, text) ==
    LET Weight(k) == IF k.kind = "hard" THEN 2 * k.weight ELSE k.weight
        all == SumFunction([k \in keywords |-> Weight(k)])
    IN  IF all = 0 THEN 0
        ELSE (1000 * SumFunction([k \in {k \in keywords : k.term \in text} |-> Weight(k)])) \div all

\* Best when 45% to 70% of the bullets have a number; 60 when all have.
quantification(numbered, bullets) ==
    IF bullets = 0 THEN 0
    ELSE IF 100 * numbered < 45 * bullets THEN (100000 * numbered) \div (45 * bullets)
    ELSE IF 100 * numbered <= 70 * bullets THEN 1000
    ELSE 1000 - (400 * (100 * numbered - 70 * bullets)) \div (30 * bullets)

StructurePoints ==
    [summary |-> 15, skills |-> 20, experience |-> 25, education |-> 15, email |-> 5, location |-> 5, dates |-> 15]
structure(parts) == 10 * SumFunction([p \in parts |-> StructurePoints[p]])

score_ats(keywords, text, numbered, bullets, parts) ==
    LET overall == (5 * keyword_coverage(keywords, text) + 3 * quantification(numbered, bullets)
                      + 2 * structure(parts)) \div 10
    IN  [overall |-> overall,
         band |-> IF overall >= 750 THEN "good" ELSE IF overall >= 600 THEN "fair" ELSE "weak"]
=============================================================================
