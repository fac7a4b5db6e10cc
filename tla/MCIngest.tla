------------------------------ MODULE MCIngest ------------------------------
(* A company with a conditional board on the fast sources, which lists two  *)
(* postings, and one on the slow sources whose adapter ends early.          *)
EXTENDS Ingest, TLC

CONSTANTS c1, c2, b1, b2, k1, k2, k3

MCOwnerOf == b1 :> c1 @@ b2 :> c2
MCBoardOf == k1 :> b1 @@ k2 :> b1 @@ k3 :> b2

\* The first version of a posting is turned away, its second one passes.
MCPassing == Content \ {<<k2, 1>>}
=============================================================================
