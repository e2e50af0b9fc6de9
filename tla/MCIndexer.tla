----------------------------- MODULE MCIndexer -----------------------------
(***************************************************************************)
(* Two passes at a time.                                                   *)
(***************************************************************************)
EXTENDS Indexer

CONSTANTS p1, p2

MCPasses == {p1, p2}

=============================================================================
