------------------------------ MODULE MCFaucet ------------------------------
(***************************************************************************)
(* Two requests at a time for one address.                                 *)
(***************************************************************************)
EXTENDS Faucet

CONSTANTS r1, r2

MCRequests == {r1, r2}

=============================================================================
