--------------------------- MODULE MCKeeperSettle ---------------------------
(***************************************************************************)
(* Two keeper processes.                                                   *)
(***************************************************************************)
EXTENDS KeeperSettle

CONSTANTS k1, k2

MCKeepers == {k1, k2}

=============================================================================
