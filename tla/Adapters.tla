------------------------------ MODULE Adapters ------------------------------
(* The board adapters: each lists the postings of one careers board, page   *)
(* by page or in one request.  They differ in how many pages they ask for,  *)
(* what ends the paging, what a refusal costs, which rows they drop, and in *)
(* the options and the handshake they need.  An adapter is a record of      *)
(* these facts, and Reading is the loop they share.                         *)
(*                                                                          *)
(* Abstractions: a row is its identity, what it lacks and the searches it   *)
(* answers to; the page size is the host's, the same for every adapter.     *)
EXTENDS Naturals, Sequences, FiniteSets, SequencesExt, Picking

Flaws == {"untitled", "keyless", "unlisted"}
Queries == 1 .. 4

\* A visit to a board.  An edit of the board happens before request `when':
\* a posting comes first, or the one at a place is taken down.
\*   size      rows on a page
\*   board     the rows, in the host's order
\*   edit      "none", "insert", "remove"; `at' is the place taken down
\*   silent    the host does not tell its total
\*   query, request, throttled   how often it throttles one request
\*   greets    the handshake is answered as expected
\*   extra     the options stored with the board
Rows == [key: Nat, flaw: Flaws \cup {"none"}, queries: SUBSET Queries]

VisitShape(v) ==
    /\ v \in [board: Seq(Rows), size: Nat \ {0}, edit: {"none", "insert", "remove"},
              when: Nat \ {0}, at: Nat, silent: BOOLEAN, query: Nat, request: Nat,
              throttled: Nat, greets: BOOLEAN, extra: SUBSET STRING]
    /\ v.edit = "remove" => v.at \in DOMAIN v.board

\* What is published meanwhile answers to every search.
Published == [key |-> 0, flaw |-> "none", queries |-> Queries]

BoardAt(v, n) ==
    IF v.edit = "none" \/ n < v.when THEN v.board
    ELSE IF v.edit = "insert"
         THEN <<Published>> \o v.board
         ELSE RemoveAt(v.board, v.at)

-----------------------------------------------------------------------------
(* The adapters.                                                            *)

\* One request, three attempts when throttled, an error when refused.
Single ==
    [searches |-> FALSE, stop |-> "one", cap |-> 1, empty |-> "no", refused |-> "raises",
     attempts |-> 3, drops |-> {}, once |-> FALSE, handshake |-> FALSE, needs |-> {}]

\* Pages until the count the host tells is reached; a refusal ends the paging.
Paged(cap) ==
    [Single EXCEPT !.stop = "counted", !.cap = cap, !.empty = "raw", !.refused = "ends"]

Greenhouse == Single
Lever == Single
Ashby == [Single EXCEPT !.drops = {"unlisted"}]
Breezy == [Single EXCEPT !.drops = {"keyless"}, !.once = TRUE]
Recruitee == [Single EXCEPT !.once = TRUE]
Tesla == [Single EXCEPT !.refused = "ends", !.attempts = 1]
Wayfair == [Tesla EXCEPT !.handshake = TRUE]
Meta == [Tesla EXCEPT !.handshake = TRUE, !.drops = {"keyless"}]
Amazon == Paged(4)
Goldman == Paged(4)
McKinsey == Paged(4)
SmartRecruiters == Paged(6)
ByteDance == Paged(8)
Microsoft == Paged(8)
IBM == Paged(12)
Eightfold == [Paged(8) EXCEPT !.needs = {"host", "domain"}]
Phenom == [Paged(6) EXCEPT !.needs = {"url", "page_id"}]
Pcsx == [Paged(12) EXCEPT !.needs = {"domain"}, !.attempts = 1]
Paradox == [Paged(20) EXCEPT !.needs = {"host"}, !.attempts = 1, !.handshake = TRUE]
Apple == [Paged(10) EXCEPT !.attempts = 1, !.handshake = TRUE]
Google == [Paged(15) EXCEPT !.empty = "kept", !.drops = {"keyless"}]
Radancy == [Paged(30) EXCEPT !.needs = {"origin"}, !.empty = "kept", !.drops = {"untitled"}]

\* A total of zero is taken as unknown: only an empty page ends the paging.
OracleCloud == [Paged(6) EXCEPT !.stop = "known", !.needs = {"host", "site"}]
Dassault == [Paged(40) EXCEPT !.stop = "known", !.drops = {"untitled"}]

\* The number of pages is read once, from the first one.
ICIMS == [Paged(40) EXCEPT !.stop = "first", !.needs = {"host"}]

\* No count: a page shorter than the first one is the last one.
JibeApply == [Paged(40) EXCEPT !.stop = "short", !.needs = {"host"},
                               !.drops = {"untitled", "keyless"}]

\* A refused page fails the whole listing, and an empty page ends nothing.
Algolia == [Paged(60) EXCEPT !.refused = "raises", !.empty = "no", !.once = TRUE,
                             !.drops = {"keyless"}, !.needs = {"index", "api_key"}]

\* Four searches, one after the other; a refusal ends only its own search.
Workday == [Paged(20) EXCEPT !.searches = TRUE, !.attempts = 4, !.once = TRUE,
                             !.drops = {"keyless"}, !.needs = {"host", "site"}]

Adapter ==
    [greenhouse |-> Greenhouse, lever |-> Lever, ashby |-> Ashby, breezy |-> Breezy,
     recruitee |-> Recruitee, tesla |-> Tesla, wayfair |-> Wayfair, meta |-> Meta,
     amazon |-> Amazon, goldman |-> Goldman, mckinsey |-> McKinsey,
     smartrecruiters |-> SmartRecruiters, bytedance |-> ByteDance,
     microsoft |-> Microsoft, ibm |-> IBM, eightfold |-> Eightfold, phenom |-> Phenom,
     pcsx |-> Pcsx, paradox |-> Paradox, apple |-> Apple, google |-> Google,
     radancy |-> Radancy, oracle_cloud |-> OracleCloud, dassault |-> Dassault,
     icims |-> ICIMS, jibe |-> JibeApply, algolia |-> Algolia, workday |-> Workday]
Sources == DOMAIN Adapter

-----------------------------------------------------------------------------
(* The loop.  q is the search, n the number of the request in it.           *)

PageOf(board, size, n) ==
    SubSeq(board, (n - 1) * size + 1, IF n * size < Len(board) THEN n * size ELSE Len(board))

Found(a, v, q, n) ==
    LET board == BoardAt(v, n)
    IN  Pick(board, {i \in DOMAIN board : a.searches => q \in board[i].queries})
Answer(a, v, q, n) ==
    IF a.stop = "one" THEN Found(a, v, q, n) ELSE PageOf(Found(a, v, q, n), v.size, n)

Keep(a, rows) == Pick(rows, {i \in DOMAIN rows : rows[i].flaw \notin a.drops})

\* The host throttles, and goes on throttling until the attempts are used up.
Refused(a, v, q, n) == v.query = q /\ v.request = n /\ v.throttled >= a.attempts

\* The total the adapter goes by after request n; 0 when it was told none.
Claim(a, v, q, n) ==
    IF v.silent THEN 0 ELSE Len(Found(a, v, q, IF a.stop = "first" THEN 1 ELSE n))

\* Mutant of Ends: the paging ends one page early when the count is exact.
EndsEarly(a, v, q, n) ==
    \/ a.stop = "one"
    \/ a.empty # "no" /\ Answer(a, v, q, n) = <<>>
    \/ a.stop \in {"counted", "first"} /\ (n + 1) * v.size >= Claim(a, v, q, n)

Ends(a, v, q, n) ==
    \/ a.stop = "one"
    \/ a.empty = "raw" /\ Answer(a, v, q, n) = <<>>
    \/ a.empty = "kept" /\ Keep(a, Answer(a, v, q, n)) = <<>>
    \/ a.stop \in {"counted", "first"} /\ n * v.size >= Claim(a, v, q, n)
    \/ a.stop = "known" /\ Claim(a, v, q, n) > 0 /\ n * v.size >= Claim(a, v, q, n)
    \/ a.stop = "short" /\ Len(Answer(a, v, q, n)) < Len(Answer(a, v, q, 1))

\* The last request of a search: it is refused, it ends the paging, or it is
\* the last one the cap allows.
LastRequest(a, v, q) ==
    CHOOSE n \in 1 .. a.cap :
        /\ n = a.cap \/ Refused(a, v, q, n) \/ Ends(a, v, q, n)
        /\ \A m \in 1 .. n - 1 : ~Refused(a, v, q, m) /\ ~Ends(a, v, q, m)

\* Mutant of Search: a refused page is skipped and the paging goes on.
SearchSkipping(a, v, q) ==
    FlattenSeq([n \in 1 .. 4 |->
        IF Refused(a, v, q, n) \/ \E m \in 1 .. n - 1 : Ends(a, v, q, m) THEN <<>>
        ELSE Keep(a, Answer(a, v, q, n))])

Search(a, v, q) ==
    LET n == LastRequest(a, v, q)
        answered == IF Refused(a, v, q, n) THEN n - 1 ELSE n
    IN  FlattenSeq([m \in 1 .. answered |-> Keep(a, Answer(a, v, q, m))])

FirstOnly(rows) ==
    Pick(rows, {i \in DOMAIN rows : \A j \in 1 .. i - 1 : rows[j].key # rows[i].key})

Reading(a, v) ==
    LET rows == FlattenSeq([q \in 1 .. (IF a.searches THEN 4 ELSE 1) |-> Search(a, v, q)])
    IN  IF a.once THEN FirstOnly(rows) ELSE rows

\* get_source, then list_postings: an error, or the rows.
List(source, v) ==
    LET a == Adapter[source] IN
    IF \/ ~(a.needs \subseteq v.extra)
       \/ a.refused = "raises" /\ Refused(a, v, 1, LastRequest(a, v, 1))
    THEN [error |-> TRUE, rows |-> <<>>]
    ELSE [error |-> FALSE, rows |-> IF a.handshake /\ ~v.greets THEN <<>> ELSE Reading(a, v)]

=============================================================================
