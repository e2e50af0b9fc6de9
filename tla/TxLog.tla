------------------------------- MODULE TxLog -------------------------------
(***************************************************************************)
(* The tx_log table through which the keeper submits transactions          *)
(* (services/keeper/src/idempotency.ts): one row per idempotency key, each *)
(* function one SQL statement or two, so each an operator on the row.      *)
(*                                                                         *)
(* A row's updated_at only matters as older or younger than the 90 seconds *)
(* after which a pending attempt is taken for dead: "pending" is younger,  *)
(* "stale" is a pending row that has grown older.                          *)
(***************************************************************************)

RowStatuses == {"none", "pending", "stale", "failed", "confirmed"}

-----------------------------------------------------------------------------
(* Slips the properties must catch. *)

ClaimableUnlessPending(row) == row \in {"none", "failed"}

ReleaseToIdle(row) == IF row = "confirmed" THEN row ELSE "released"

ReleaseNothing(row) == row

-----------------------------------------------------------------------------

\* Whether claim() returns true: a new key, a failed one, or an attempt that
\* is pending for too long.
Claimable(row) == row \in {"none", "failed", "stale"}

ClaimRow(row) == IF Claimable(row) THEN "pending" ELSE row

\* An UPDATE by key: whatever the row's status, if there is a row.
ConfirmRow(row) == IF row = "none" THEN "none" ELSE "confirmed"

FailRow(row) == IF row = "none" THEN "none" ELSE "failed"

\* A DELETE unless the key is confirmed.
ReleaseRow(row) == IF row = "confirmed" THEN row ELSE "none"

\* 90 seconds go by without an update of the row.
AgeRow(row) == IF row = "pending" THEN "stale" ELSE row

=============================================================================
