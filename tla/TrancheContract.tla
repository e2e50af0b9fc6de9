-------------------------- MODULE TrancheContract --------------------------
(***************************************************************************)
(* What a series promises its depositors, without accounts, clock, pool or *)
(* arithmetic: principal is collected while the series is open and never   *)
(* changes afterwards; what each tranche is due is fixed once, either the  *)
(* principal itself (a voided series) or a payout in which junior comes    *)
(* after the senior principal; and what is paid never passes what is due.  *)
(***************************************************************************)
EXTENDS Naturals

CONSTANT Tranches

VARIABLES phase, principal, due, paid

vars == <<phase, principal, due, paid>>

Zero == [t \in Tranches |-> 0]

Init ==
    /\ phase = "None"
    /\ principal = Zero /\ due = Zero /\ paid = Zero

Offer ==
    /\ phase = "None" /\ phase' = "Open"
    /\ UNCHANGED <<principal, due, paid>>

\* One tranche grows.
Invest ==
    /\ phase = "Open"
    /\ principal' \in [Tranches -> Nat]
    /\ \E t \in Tranches :
         /\ principal'[t] > principal[t]
         /\ \A other \in Tranches \ {t} : principal'[other] = principal[other]
    /\ UNCHANGED <<phase, due, paid>>

Start ==
    /\ phase = "Open" /\ phase' = "Active"
    /\ \E t \in Tranches : principal[t] > 0
    /\ UNCHANGED <<principal, due, paid>>

Void ==
    /\ phase = "Open" /\ phase' = "Cancelled"
    /\ due' = principal
    /\ UNCHANGED <<principal, paid>>

Mature ==
    /\ phase = "Active" /\ phase' = "Settled"
    /\ due' \in [Tranches -> Nat]
    /\ due'["junior"] > 0 => due'["senior"] >= principal["senior"]
    /\ UNCHANGED <<principal, paid>>

Pay ==
    /\ phase \in {"Settled", "Cancelled"}
    /\ paid' \in [Tranches -> Nat]
    /\ \A t \in Tranches : paid[t] <= paid'[t] /\ paid'[t] <= due[t]
    /\ UNCHANGED <<phase, principal, due>>

Next == Offer \/ Invest \/ Start \/ Void \/ Mature \/ Pay

Spec == Init /\ [][Next]_vars

=============================================================================
