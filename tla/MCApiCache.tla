----------------------------- MODULE MCApiCache -----------------------------
(***************************************************************************)
(* Two requests at a time for one key.                                     *)
(***************************************************************************)
EXTENDS ApiCache

CONSTANTS r1, r2

MCRequests == {r1, r2}

MCMaxWrites == [name \in Names |-> IF name \in {"pools", "pool"} THEN 1 ELSE 2]

=============================================================================
