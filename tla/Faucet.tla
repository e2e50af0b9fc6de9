------------------------------- MODULE Faucet -------------------------------
(***************************************************************************)
(* The devnet faucet for one address (services/keeper/src/faucet.ts, drip).*)
(* A request takes the address' cooldown in one statement, sends a mint    *)
(* transaction and, if anything throws, deletes the cooldown row again.    *)
(* Requests run concurrently in one HTTP server.                           *)
(*                                                                         *)
(* The row is "fresh" until its last_at is a cooldown old, then "old".  A  *)
(* request lasts for a minute or so and a transaction that nobody waits    *)
(* for any more expires as quickly, the cooldown (an hour by default) is   *)
(* far longer: it runs out between requests, never during one.             *)
(*                                                                         *)
(* MaxFaults bounds the failed calls, unanswered transactions and crashes. *)
(***************************************************************************)
EXTENDS Naturals

CONSTANTS Requests, MaxFaults

ASSUME FaucetAssumption == MaxFaults \in Nat

VARIABLES
    row,     \* faucet_log: "none", "fresh" or "old"
    pc, tx,  \* each request's step and what became of its transaction
    lost,    \* unanswered transactions that may still land
    minted,  \* drips the address received in the current window
    unknown, \* unanswered transactions of the window
    faults

vars == <<row, pc, tx, lost, minted, unknown, faults>>

TypeOK ==
    /\ row \in {"none", "fresh", "old"}
    /\ pc \in [Requests -> {"idle", "send", "await", "delete"}]
    /\ tx \in [Requests -> {"none", "sent", "landed", "dropped"}]
    /\ lost \in Nat /\ minted \in Nat
    /\ unknown \in 0 .. MaxFaults /\ faults \in 0 .. MaxFaults

Init ==
    /\ row = "none"
    /\ pc = [r \in Requests |-> "idle"] /\ tx = [r \in Requests |-> "none"]
    /\ lost = 0 /\ minted = 0 /\ unknown = 0 /\ faults = 0

Goto(r, step) == pc' = [pc EXCEPT ![r] = step]
Outcome(r, what) == tx' = [tx EXCEPT ![r] = what]
Fault == faults < MaxFaults /\ faults' = faults + 1

-----------------------------------------------------------------------------
(* drip. *)

\* Slips the properties must catch: no WHERE, and DO NOTHING.
NoCooldown == TRUE
OnceOnly == row = "none"

CooldownOver == row # "fresh"

\* INSERT ... ON CONFLICT DO UPDATE WHERE last_at is old enough.  Otherwise
\* the request is answered 429 and nothing changes.
TakeCooldown(r) ==
    /\ pc[r] = "idle"
    /\ CooldownOver
    /\ row' = "fresh"
    /\ Goto(r, "send")
    /\ UNCHANGED <<tx, lost, minted, unknown, faults>>

\* getBalance, then sendAndConfirmTransaction.
Send(r) ==
    /\ pc[r] = "send"
    /\ \/ Goto(r, "await") /\ Outcome(r, "sent") /\ UNCHANGED faults
       \/ Goto(r, "delete") /\ Fault /\ UNCHANGED tx
    /\ UNCHANGED <<row, lost, minted, unknown>>

Receive(r) ==
    /\ pc[r] = "await"
    /\ tx[r] \in {"landed", "dropped"}
    /\ Outcome(r, "none")
    /\ Goto(r, IF tx[r] = "landed" THEN "idle" ELSE "delete")
    /\ UNCHANGED <<row, lost, minted, unknown, faults>>

\* Not confirmed in time: it throws, and the transaction may still land.
TimeOut(r) ==
    /\ pc[r] = "await"
    /\ tx[r] = "sent"
    /\ Fault
    /\ unknown' = unknown + 1
    /\ lost' = lost + 1
    /\ Outcome(r, "none")
    /\ Goto(r, "delete")
    /\ UNCHANGED <<row, minted>>

\* A slip the properties must catch: the row is blanked instead of deleted.
BlankRow(r) ==
    /\ pc[r] = "delete"
    /\ row' = "blank"
    /\ Goto(r, "idle")
    /\ UNCHANGED <<tx, lost, minted, unknown, faults>>

\* The row goes, unless the DELETE fails too: that error is swallowed.
GiveBack(r) ==
    /\ pc[r] = "delete"
    /\ \/ row' = "none" /\ UNCHANGED faults
       \/ Fault /\ UNCHANGED row
    /\ Goto(r, "idle")
    /\ UNCHANGED <<tx, lost, minted, unknown>>

Die(r) ==
    /\ pc[r] # "idle"
    /\ Fault
    /\ Goto(r, "idle")
    /\ Outcome(r, "none")
    /\ lost' = IF tx[r] = "sent" THEN lost + 1 ELSE lost
    /\ UNCHANGED <<row, minted, unknown>>

-----------------------------------------------------------------------------
(* The chain and time. *)

Land(r) ==
    /\ tx[r] = "sent"
    /\ Outcome(r, "landed")
    /\ minted' = minted + 1
    /\ UNCHANGED <<row, pc, lost, unknown, faults>>

Drop(r) ==
    /\ tx[r] = "sent"
    /\ Fault
    /\ Outcome(r, "dropped")
    /\ UNCHANGED <<row, pc, lost, minted, unknown>>

LostLands ==
    /\ lost > 0
    /\ lost' = lost - 1
    /\ minted' \in {minted, minted + 1}
    /\ UNCHANGED <<row, pc, tx, unknown, faults>>

\* A cooldown goes by and a new window begins.
CooldownPasses ==
    /\ lost = 0
    /\ \A r \in Requests : pc[r] = "idle"
    /\ row' = IF row = "none" THEN "none" ELSE "old"
    /\ minted' = 0 /\ unknown' = 0
    /\ UNCHANGED <<pc, tx, lost, faults>>

-----------------------------------------------------------------------------

Step(r) == Send(r) \/ Receive(r) \/ GiveBack(r)

Next ==
    \/ \E r \in Requests : TakeCooldown(r) \/ Step(r) \/ TimeOut(r) \/ Die(r) \/ Land(r) \/ Drop(r)
    \/ LostLands \/ CooldownPasses

Spec == Init /\ [][Next]_vars

\* Someone keeps asking; calls return, transactions land or expire, time passes.
Fairness ==
    /\ \A r \in Requests : SF_vars(TakeCooldown(r)) /\ WF_vars(Step(r)) /\ WF_vars(Land(r))
    /\ WF_vars(LostLands)
    /\ SF_vars(CooldownPasses)

FairSpec == Spec /\ Fairness

-----------------------------------------------------------------------------
(* Properties. *)

(* Concurrent requests, failed calls, failed deletions and crashes never   *)
(* pay an address twice in a window: each drip beyond the first one takes  *)
(* a transaction whose outcome the faucet never learnt.                    *)
ExtraDripsAreUnknown == minted + lost <= 1 + unknown

(* No failure burns the address for good: it is paid again and again.      *)
KeepsServing == []<>(minted > 0)

=============================================================================
