---------------------------- MODULE KeeperSettle ----------------------------
(***************************************************************************)
(* The keeper's settlement of one series (services/keeper/src/settle.ts):  *)
(* every 30 seconds each keeper process scans the chain and, for a series  *)
(* it sees active and past maturity by its own clock, claims the key       *)
(* settle-<series>, fetches the pool, submits settle and records the       *)
(* outcome.  Every await is a step, so processes, the chain and callers    *)
(* from outside interleave between them; a process may crash anywhere.     *)
(*                                                                         *)
(* The chain side of settle is the guard of YcVault's Settle: the program  *)
(* answers WrongStatus or NotMatured, or the transaction takes effect.  An *)
(* .rpc() call that is not confirmed in time throws although its           *)
(* transaction may still land.  MaxCrashes bounds the scans cut short by a *)
(* crash or an error, MaxFaults the failed calls and statements inside the *)
(* try and the lost or unanswered submissions.                             *)
(***************************************************************************)
EXTENDS Naturals, TxLog

CONSTANTS Keepers, MaxCrashes, MaxFaults

ASSUME BoundsAssumption == MaxCrashes \in Nat /\ MaxFaults \in Nat
ASSUME KeepersAssumption == Keepers # {}

VARIABLES
    series,     \* on-chain status of the series
    matured,    \* whether the chain's clock has reached maturity_ts
    row,        \* the tx_log row of the key
    pc,         \* where each keeper's settleMatured is
    tx,         \* each keeper's last submission: "none", "sent", or how it ended
    lost,       \* earlier submissions nobody waits for that may still land
    crashes, faults

vars == <<series, matured, row, pc, tx, lost, crashes, faults>>

Outcomes == {"ok", "WrongStatus", "NotMatured", "dropped"}

TypeOK ==
    /\ series \in {"active", "settled"}
    /\ matured \in BOOLEAN
    /\ row \in RowStatuses
    /\ pc \in [Keepers -> {"idle", "claim", "submit", "await", "confirm", "noteSettled",
                           "release", "fail"}]
    /\ tx \in [Keepers -> {"none", "sent"} \cup Outcomes]
    /\ lost \in 0 .. (MaxCrashes + MaxFaults)
    /\ crashes \in 0 .. MaxCrashes /\ faults \in 0 .. MaxFaults

Init ==
    /\ series = "active"
    /\ matured = FALSE
    /\ row = "none"
    /\ pc = [k \in Keepers |-> "idle"]
    /\ tx = [k \in Keepers |-> "none"]
    /\ lost = 0 /\ crashes = 0 /\ faults = 0

Goto(k, step) == pc' = [pc EXCEPT ![k] = step]

\* What the program does with a settle transaction that reaches it.
Answer == IF series # "active" THEN "WrongStatus" ELSE IF matured THEN "ok" ELSE "NotMatured"

Execute == series' = IF Answer = "ok" THEN "settled" ELSE series

-----------------------------------------------------------------------------
(* The keeper. *)

\* series.all() and the maturity test, which uses the keeper's own clock:
\* it may be ahead of the chain's.
Scan(k) ==
    /\ pc[k] = "idle"
    /\ series = "active"
    /\ Goto(k, "claim")
    /\ UNCHANGED <<series, matured, row, tx, lost, crashes, faults>>

Claim(k) ==
    /\ pc[k] = "claim"
    /\ row' = ClaimRow(row)
    /\ Goto(k, IF Claimable(row) THEN "submit" ELSE "idle")
    /\ UNCHANGED <<series, matured, tx, lost, crashes, faults>>

\* pool.fetch, then settle().rpc(); the fetch may fail.
Submit(k) ==
    /\ pc[k] = "submit"
    /\ \/ /\ tx' = [tx EXCEPT ![k] = "sent"]
          /\ Goto(k, "await")
          /\ UNCHANGED faults
       \/ /\ faults < MaxFaults
          /\ faults' = faults + 1
          /\ Goto(k, "fail")
          /\ UNCHANGED tx
    /\ UNCHANGED <<series, matured, row, lost, crashes>>

\* A slip the properties must catch: an early attempt taken for a late one.
EarlyIsSettled(outcome) ==
    CASE outcome = "ok" -> "confirm"
      [] outcome \in {"WrongStatus", "NotMatured"} -> "noteSettled"
      [] OTHER -> "fail"

\* What a keeper does about the end of its call.
AfterOutcome(outcome) ==
    CASE outcome = "ok" -> "confirm"
      [] outcome = "WrongStatus" -> "noteSettled"
      [] outcome = "NotMatured" -> "release"
      [] OTHER -> "fail"

\* The call returns, or throws with the program's error or without one.
Receive(k) ==
    /\ pc[k] = "await"
    /\ tx[k] \in Outcomes
    /\ tx' = [tx EXCEPT ![k] = "none"]
    /\ Goto(k, AfterOutcome(tx[k]))
    /\ UNCHANGED <<series, matured, row, lost, crashes, faults>>

\* Not confirmed in time: the call throws and the transaction lives on.
TimeOut(k) ==
    /\ pc[k] = "await"
    /\ tx[k] = "sent"
    /\ faults < MaxFaults
    /\ faults' = faults + 1
    /\ tx' = [tx EXCEPT ![k] = "none"]
    /\ lost' = lost + 1
    /\ Goto(k, "fail")
    /\ UNCHANGED <<series, matured, row, crashes>>

Record(k) ==
    /\ \/ pc[k] \in {"confirm", "noteSettled"} /\ row' = ConfirmRow(row)
       \/ pc[k] = "release" /\ row' = ReleaseRow(row)
       \/ pc[k] = "fail" /\ row' = FailRow(row)
    /\ Goto(k, "idle")
    /\ UNCHANGED <<series, matured, tx, lost, crashes, faults>>

\* The confirmation of a landed settle throws inside the try, written or not.
ConfirmFails(k) ==
    /\ pc[k] = "confirm"
    /\ faults < MaxFaults
    /\ faults' = faults + 1
    /\ row' \in {row, ConfirmRow(row)}
    /\ Goto(k, "fail")
    /\ UNCHANGED <<series, matured, tx, lost, crashes>>

\* The process dies, or a statement outside the try throws and ends the scan;
\* a submission under way may still land.
Crash(k) ==
    /\ pc[k] # "idle"
    /\ crashes < MaxCrashes
    /\ crashes' = crashes + 1
    /\ Goto(k, "idle")
    /\ tx' = [tx EXCEPT ![k] = "none"]
    /\ lost' = IF tx[k] = "sent" THEN lost + 1 ELSE lost
    /\ UNCHANGED <<series, matured, row, faults>>

-----------------------------------------------------------------------------
(* The chain, other callers and time. *)

Land(k) ==
    /\ tx[k] = "sent"
    /\ tx' = [tx EXCEPT ![k] = Answer]
    /\ Execute
    /\ UNCHANGED <<matured, row, pc, lost, crashes, faults>>

Drop(k) ==
    /\ tx[k] = "sent"
    /\ faults < MaxFaults
    /\ faults' = faults + 1
    /\ tx' = [tx EXCEPT ![k] = "dropped"]
    /\ UNCHANGED <<series, matured, row, pc, lost, crashes>>

\* A submission nobody waits for lands, or never does.
LostLands ==
    /\ lost > 0
    /\ lost' = lost - 1
    /\ Execute \/ UNCHANGED series
    /\ UNCHANGED <<matured, row, pc, tx, crashes, faults>>

\* settle is permissionless.
OtherSettles ==
    /\ Answer = "ok"
    /\ Execute
    /\ UNCHANGED <<matured, row, pc, tx, lost, crashes, faults>>

Mature ==
    /\ ~matured
    /\ matured' = TRUE
    /\ UNCHANGED <<series, row, pc, tx, lost, crashes, faults>>

\* The row has not been updated for 90 seconds.  No await of a keeper is
\* bounded by that, so it may happen with the attempt still under way.
RowAges ==
    /\ row' = AgeRow(row)
    /\ row' # row
    /\ UNCHANGED <<series, matured, pc, tx, lost, crashes, faults>>

-----------------------------------------------------------------------------

Step(k) == Scan(k) \/ Claim(k) \/ Submit(k) \/ Receive(k) \/ Record(k)

Next ==
    \/ \E k \in Keepers : Step(k) \/ TimeOut(k) \/ ConfirmFails(k) \/ Crash(k) \/ Land(k) \/ Drop(k)
    \/ LostLands \/ OtherSettles \/ Mature \/ RowAges

Spec == Init /\ [][Next]_vars

\* The scheduler runs every keeper again and again, a submission that is not
\* dropped lands, and time passes.  Nobody else has to settle.
Fairness ==
    /\ \A k \in Keepers : WF_vars(Step(k)) /\ WF_vars(Land(k))
    /\ WF_vars(Mature)
    /\ WF_vars(RowAges)

FairSpec == Spec /\ Fairness

-----------------------------------------------------------------------------
(* Properties. *)

(* A confirmed key means the series is settled: neither a submission of    *)
(* unknown fate, nor one too early by the chain's clock, nor any crash or  *)
(* race between keepers marks as done what is not; a confirmed row is      *)
(* never claimed again, so a wrong one would leave the series unsettled.   *)
ConfirmedMeansSettled == row = "confirmed" => series = "settled"

(* Keepers that find the key taken may rely on the attempt it stands for:  *)
(* an unsettled series whose row is pending and fresh has a keeper on it   *)
(* or lost one in a crash.                                                 *)
PendingHasOwner ==
    row = "pending" /\ crashes = 0 =>
        \E k \in Keepers : pc[k] \in {"submit", "await", "confirm", "noteSettled", "release", "fail"}

(* A matured series is settled although nobody but the keepers calls       *)
(* settle, after any bounded number of crashes, dropped submissions, early *)
(* attempts and races: no row left behind blocks the key for ever.         *)
EventuallySettled == matured ~> series = "settled"

=============================================================================
