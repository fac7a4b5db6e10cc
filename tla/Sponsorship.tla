----------------------------- MODULE Sponsorship -----------------------------
(* The visa signal: the index over the USCIS files, the employers a         *)
(* company's name matches, the likelihood their record gives, and the       *)
(* verdict the description and the record give together.                    *)
(*                                                                          *)
(* Abstractions: a name is its words, each a text with its letters and      *)
(* whether it is a legal suffix; the fuzzy comparison of names whose words  *)
(* do not include one another is an input.                                  *)
EXTENDS Integers, Sequences, FiniteSets, SequencesExt, FiniteSetsExt

N_FY == 3

-----------------------------------------------------------------------------
(* Names and the index.                                                     *)

\* A tail after DBA, FKA or AKA is dropped; a name of suffixes only is kept.
normalize_name(name) ==
    LET own == SelectSeq(name.words, LAMBDA w : ~w.tail)
        telling == SelectSeq(own, LAMBDA w : ~w.legal /\ (w.letters > 1 \/ w.digit))
        Texts(s) == [i \in DOMAIN s |-> [text |-> s[i].text, letters |-> s[i].letters]]
    IN  Texts(IF telling = <<>> THEN own ELSE telling)

\* The last N_FY of the years whose file answered the probe.
Window(answered) == {y \in answered : Cardinality({z \in answered : z > y}) < N_FY}

\* rows: what the files say.  A row's id is its place in them; it counts the
\* approvals and denials of one employer in one year.
FileRow(ids, years, names) == [id : ids, year : years, name : names, approvals : Nat, denials : Nat]
RowShape(rows) ==
    /\ IsFiniteSet(rows)
    /\ rows \subseteq FileRow({r.id : r \in rows}, {r.year : r \in rows}, {r.name : r \in rows})
    /\ \A r, s \in rows : r.id = s.id => r = s

build_index(rows, answered) ==
    LET kept == {r \in rows : r.year \in Window(answered) /\ normalize_name(r.name) # <<>>}
    IN  [years |-> Window(answered), keys |-> {normalize_name(r.name) : r \in kept},
         rows |-> {[r EXCEPT !.name = normalize_name(@)] : r \in kept}]

Of(idx, keys) == {r \in idx.rows : r.name \in keys}
Approvals(rows) == SumFunction([r \in rows |-> r.approvals])
Denials(rows) == SumFunction([r \in rows |-> r.denials])

-----------------------------------------------------------------------------
(* The employers a company's name matches.                                  *)

NoMatch == [keys |-> {}, sure |-> FALSE]

match_employer(company, idx, alike) ==
    LET q == normalize_name(company)
        family == {k \in idx.keys : IsPrefix(q, k)}
        narrow == {k \in family : Len(k) <= Len(q) + 1}
        including == {k \in idx.keys : ToSet(k) \subseteq ToSet(q) \/ ToSet(q) \subseteq ToSet(k)}
        closest == IF including # {} THEN including ELSE alike \cap idx.keys
    IN  IF q = <<>> \/ (Len(q) = 1 /\ q[1].letters <= 2) THEN NoMatch
        ELSE IF q \in idx.keys THEN [keys |-> family, sure |-> TRUE]
        ELSE IF family # {} THEN [keys |-> IF narrow # {} THEN narrow ELSE family, sure |-> FALSE]
        ELSE IF closest # {} THEN [keys |-> {CHOOSE k \in closest : TRUE}, sure |-> FALSE]
        ELSE NoMatch

-----------------------------------------------------------------------------
(* The signal and the verdict.                                              *)

Likelihoods == <<"unknown", "low", "medium", "high">>

\* Mutant of likelihood: the middle band ends where the upper one begins.
likelihood_in_bands(approvals, denials, recent) ==
    LET AtLeast(tenths) == 10 * approvals >= tenths * (approvals + denials) IN
    IF approvals = 0 THEN "unknown"
    ELSE IF approvals >= 100 /\ recent /\ AtLeast(8) THEN "high"
    ELSE IF approvals \in 10 .. 99 /\ AtLeast(5) THEN "medium"
    ELSE "low"

likelihood(approvals, denials, recent) ==
    LET AtLeast(tenths) == 10 * approvals >= tenths * (approvals + denials) IN
    IF approvals = 0 THEN "unknown"
    ELSE IF approvals >= 100 /\ recent /\ AtLeast(8) THEN "high"
    ELSE IF approvals >= 10 /\ AtLeast(5) THEN "medium"
    ELSE "low"

score_company(company, idx, alike) ==
    LET match == match_employer(company, idx, alike)
        rows == Of(idx, match.keys)
        recent == \E r \in rows : r.year = Max(idx.years) /\ r.approvals > 0
        found == likelihood(Approvals(rows), Denials(rows), recent)
    IN  IF match.keys = {} THEN [likelihood |-> "unknown", approvals |-> 0, needs_verification |-> FALSE]
        ELSE [likelihood |-> IF ~match.sure /\ found = "high" THEN "medium" ELSE found,
              approvals |-> Approvals(rows), needs_verification |-> ~match.sure]

\* signal is empty when the company's record could not be had.
resolve_sponsorship(stance, signal) ==
    LET known == signal # <<>> /\ signal[1].likelihood # "unknown" IN
    CASE stance = "no_sponsorship" ->
           [verdict |-> "not_eligible", hard_blocker |-> TRUE, needs_verification |-> FALSE]
      [] stance = "offers" ->
           [verdict |-> "eligible", hard_blocker |-> FALSE, needs_verification |-> FALSE]
      [] stance \notin {"no_sponsorship", "offers"} /\ ~known ->
           [verdict |-> "unknown", hard_blocker |-> FALSE, needs_verification |-> FALSE]
      [] stance \notin {"no_sponsorship", "offers"} /\ known ->
           [verdict |-> IF signal[1].likelihood = "low" THEN "unlikely" ELSE "likely",
            hard_blocker |-> FALSE, needs_verification |-> signal[1].needs_verification]
=============================================================================
