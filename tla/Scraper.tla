------------------------------ MODULE Scraper ------------------------------
(* The description behind a posting's address: the handlers of the known    *)
(* boards, then structured data in the page, then the rendered page.        *)
(*                                                                          *)
(* Abstractions: an address is the board it belongs to and the posting it   *)
(* names; a text is the posting it describes, or "" when it is empty.       *)
EXTENDS Naturals, Sequences, FiniteSetsExt

\* Handlers that ask for the posting by its identifier, that look for it in a
\* list, and that try several names of the tenant.
ById == {"greenhouse", "lever", "workday", "oracle_cloud", "rippling"}
InList == {"ashby", "amazon"}
ByDomain == {"eightfold"}
Handlers == ById \cup InList \cup ByDomain

Nothing == [source |-> "none", text |-> ""]

\* Mutant of InListing: the first posting of the list is taken.
FirstListed(host, address) == IF host.listed = <<>> THEN "" ELSE Head(host.listed).text

\* The text of the first item whose index is in I.
FirstText(items, I) == IF I = {} THEN "" ELSE items[Min(I)].text

\* The posting in the list that has the address's identifier.
InListing(host, address) ==
    FirstText(host.listed, {i \in DOMAIN host.listed : host.listed[i].id = address.id})

\* The first tenant name that answers with a description.
FromDomains(host) ==
    FirstText(host.domains,
              {i \in DOMAIN host.domains : host.domains[i].answer = "ok" /\ host.domains[i].text # ""})

\* What the board's own handler returns.  A refusal, and an exception, leave
\* the address to the next handler.  An address on the company's own domain
\* lets only the board's name be guessed.
FromBoard(host, address) ==
    IF address.board \notin Handlers \/ (address.custom /\ ~address.guessed) THEN Nothing
    ELSE LET text ==
                 CASE address.board \in ById -> IF host.answer = "ok" THEN host.text ELSE ""
                   [] address.board \in InList ->
                        IF host.answer = "ok" THEN InListing(host, address) ELSE ""
                   [] address.board \in ByDomain -> FromDomains(host)
         IN  IF text = "" THEN Nothing ELSE [source |-> address.board, text |-> text]

\* The first block of structured data that is a posting with a description.
FromStructuredData(page) ==
    LET blocks == {i \in DOMAIN page.blocks : page.blocks[i].posting /\ page.blocks[i].text # ""}
    IN  IF page.answer # "ok" \/ blocks = {} THEN Nothing
        ELSE [source |-> "jsonld", text |-> FirstText(page.blocks, blocks)]

scrape(host, address, page) ==
    LET board == FromBoard(host, address)
        data == FromStructuredData(page)
    IN  IF board # Nothing THEN [ok |-> TRUE, jd |-> board]
        ELSE IF data # Nothing THEN [ok |-> TRUE, jd |-> data]
        ELSE IF page.browser THEN [ok |-> TRUE, jd |-> [source |-> "playwright", text |-> page.rendered]]
        ELSE [ok |-> FALSE, jd |-> Nothing]
=============================================================================
