---------------------------- MODULE FaucetProofs ----------------------------
(***************************************************************************)
(* For any number of requests and of faults, the faucet pays an address    *)
(* more than once in a window only through transactions whose outcome it   *)
(* never learnt.                                                           *)
(***************************************************************************)
EXTENDS Faucet, TLAPS

-----------------------------------------------------------------------------
(* The inductive invariant.  The bound alone is not inductive: a request   *)
(* that still may mint needs a unit of it to be free, and so does a row    *)
(* that lets another request in.                                           *)

\* The row is a lock: one request at a time is past it.
Exclusive ==
    /\ \A r \in Requests : pc[r] # "idle" => row = "fresh"
    /\ \A r, s \in Requests : pc[r] # "idle" /\ pc[s] # "idle" => r = s
    /\ \A r \in Requests : tx[r] # "none" => pc[r] = "await"

Budget ==
    /\ unknown <= faults
    /\ row # "fresh" => minted + lost <= unknown
    /\ \A r \in Requests : pc[r] # "idle" /\ tx[r] # "landed" => minted + lost <= unknown

IInv == TypeOK /\ Exclusive /\ Budget /\ ExtraDripsAreUnknown

LEMMA OneFewerLost ==
    ASSUME NEW m \in Nat, NEW l \in Nat, l > 0, NEW n \in {m, m + 1}, NEW u \in Nat
    PROVE  /\ l - 1 \in Nat /\ n \in Nat
           /\ m + l <= u => n + (l - 1) <= u
           /\ m + l <= 1 + u => n + (l - 1) <= 1 + u
  OBVIOUS

LEMMA InitIInv == Init => IInv
  BY FaucetAssumption DEF Init, IInv, TypeOK, Exclusive, Budget, ExtraDripsAreUnknown

LEMMA NextIInv == IInv /\ [Next]_vars => IInv'
<1> SUFFICES ASSUME IInv, [Next]_vars PROVE IInv'
  OBVIOUS
<1> USE FaucetAssumption DEF IInv, TypeOK, Exclusive, Budget, ExtraDripsAreUnknown, Goto, Outcome, Fault
<1>1. ASSUME NEW r \in Requests, TakeCooldown(r) PROVE IInv'
  BY <1>1 DEF TakeCooldown, CooldownOver
<1>2. ASSUME NEW r \in Requests, Send(r) PROVE IInv'
  BY <1>2 DEF Send
<1>3. ASSUME NEW r \in Requests, Receive(r) PROVE IInv'
  BY <1>3 DEF Receive
<1>4. ASSUME NEW r \in Requests, GiveBack(r) PROVE IInv'
  BY <1>4 DEF GiveBack
<1>5. ASSUME NEW r \in Requests, TimeOut(r) PROVE IInv'
  BY <1>5 DEF TimeOut
<1>6. ASSUME NEW r \in Requests, Die(r) PROVE IInv'
  BY <1>6 DEF Die
<1>7. ASSUME NEW r \in Requests, Land(r) PROVE IInv'
  BY <1>7 DEF Land
<1>8. ASSUME NEW r \in Requests, Drop(r) PROVE IInv'
  BY <1>8 DEF Drop
<1>9. CASE LostLands
  <2>0. /\ lost > 0 /\ lost' = lost - 1 /\ minted' \in {minted, minted + 1}
        /\ lost \in Nat /\ minted \in Nat /\ unknown \in Nat
        /\ minted + lost <= 1 + unknown
    BY <1>9 DEF LostLands
  <2>1. /\ lost' \in Nat /\ minted' \in Nat
        /\ minted + lost <= unknown => minted' + lost' <= unknown
        /\ minted' + lost' <= 1 + unknown
    BY ONLY <2>0, OneFewerLost
  <2>2. TypeOK' /\ Exclusive'
    BY <1>9, <2>1 DEF LostLands
  <2> QED
    BY <1>9, <2>1, <2>2 DEF LostLands
<1>10. CASE CooldownPasses
  BY <1>10 DEF CooldownPasses
<1>11. CASE UNCHANGED vars
  BY <1>11 DEF vars
<1> QED
  BY <1>1, <1>2, <1>3, <1>4, <1>5, <1>6, <1>7, <1>8, <1>9, <1>10, <1>11 DEF Next, Step

-----------------------------------------------------------------------------

(* The faucet's bookkeeping: the cooldown row admits one request at a time *)
(* and what was minted stays within what it may still have to answer for.  *)
THEOREM CooldownIsALock == Spec => []IInv
  BY InitIInv, NextIInv, PTL DEF Spec

(* Every state is well typed: in particular the counts of lost             *)
(* transactions never go below zero.                                       *)
THEOREM TypeCorrect == Spec => []TypeOK
  BY CooldownIsALock, PTL DEF IInv

(* However many requests race, fail, time out or die, each drip beyond the *)
(* first of a window takes a transaction whose outcome was never learnt.   *)
THEOREM DripsAreBounded == Spec => []ExtraDripsAreUnknown
  BY CooldownIsALock, PTL DEF IInv

=============================================================================
