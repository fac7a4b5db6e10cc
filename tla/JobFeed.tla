------------------------------ MODULE JobFeed ------------------------------
(* What the jobs table promises its readers - the discovery page, the       *)
(* digest, the command line - whatever ingestion does behind it: a posting  *)
(* once seen stays, and what is shown of it is something the board really   *)
(* published at some time.                                                  *)
EXTENDS Naturals

CONSTANTS
    Keys           \* postings, by (source, external_id)

VARIABLES
    published,     \* how many versions of a posting its board has published
    stored         \* the version in the jobs table; 0 while there is none

vars == <<published, stored>>

Init ==
    /\ published = [k \in Keys |-> 0]
    /\ stored = [k \in Keys |-> 0]

Publish(k) ==
    /\ published' = [published EXCEPT ![k] = @ + 1]
    /\ UNCHANGED stored

\* Any part of the table is brought to versions that were published.
Store ==
    /\ stored' \in [Keys -> Nat]
    /\ \A k \in Keys : stored'[k] # stored[k] => stored'[k] \in 1 .. published[k]
    /\ UNCHANGED published

Next == (\E k \in Keys : Publish(k)) \/ Store

Spec == Init /\ [][Next]_vars
=============================================================================
