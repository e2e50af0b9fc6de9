------------------------- MODULE KeeperSettleProofs -------------------------
(***************************************************************************)
(* For any number of keeper processes, crashes and faults, a settlement    *)
(* recorded as confirmed is a settlement that happened, and a pending row  *)
(* has a process behind it unless one has crashed.                         *)
(***************************************************************************)
EXTENDS KeeperSettle, TLAPS

-----------------------------------------------------------------------------
(* The inductive invariant.  What a keeper is about to write depends on    *)
(* the answer it received, and that on what the chain did: the truth of    *)
(* the row is carried along the whole way.                                 *)

AnswersAreTrue == \A k \in Keepers : tx[k] \in {"ok", "WrongStatus"} => series = "settled"

StepsAreTrue == \A k \in Keepers : pc[k] \in {"confirm", "noteSettled"} => series = "settled"

\* Each lost submission was cut off by a crash or timed out.
LostHasCause == lost <= crashes + faults

IInv == TypeOK /\ AnswersAreTrue /\ StepsAreTrue /\ ConfirmedMeansSettled /\ LostHasCause

LEMMA InitIInv == Init => IInv
<1> SUFFICES ASSUME Init PROVE IInv
  OBVIOUS
<1> USE BoundsAssumption DEF Init
<1>1. /\ 0 \in 0 .. (MaxCrashes + MaxFaults) /\ 0 \in 0 .. MaxCrashes /\ 0 \in 0 .. MaxFaults
  BY ONLY BoundsAssumption
<1>2. TypeOK
  BY <1>1 DEF TypeOK, RowStatuses
<1> QED
  BY <1>2 DEF IInv, AnswersAreTrue, StepsAreTrue, ConfirmedMeansSettled, LostHasCause

\* A settled series stays settled: no transaction undoes it.
LEMMA ExecuteSettles ==
    ASSUME series \in {"active", "settled"}, Execute \/ UNCHANGED series
    PROVE  /\ series' \in {"active", "settled"}
           /\ series = "settled" => series' = "settled"
  BY DEF Execute, Answer

LEMMA NextIInv == IInv /\ [Next]_vars => IInv'
<1> SUFFICES ASSUME IInv, [Next]_vars PROVE IInv'
  OBVIOUS
<1> USE BoundsAssumption
    DEF IInv, TypeOK, AnswersAreTrue, StepsAreTrue, ConfirmedMeansSettled, LostHasCause,
        RowStatuses, Outcomes, Goto
<1>1. ASSUME NEW k \in Keepers, Scan(k) PROVE IInv'
  BY <1>1 DEF Scan
<1>2. ASSUME NEW k \in Keepers, Claim(k) PROVE IInv'
  BY <1>2 DEF Claim, ClaimRow, Claimable
<1>3. ASSUME NEW k \in Keepers, Submit(k) PROVE IInv'
  BY <1>3 DEF Submit
<1>4. ASSUME NEW k \in Keepers, Receive(k) PROVE IInv'
  BY <1>4 DEF Receive, AfterOutcome
<1>5. ASSUME NEW k \in Keepers, Record(k) PROVE IInv'
  BY <1>5 DEF Record, ConfirmRow, ReleaseRow, FailRow
<1>6. ASSUME NEW k \in Keepers, TimeOut(k) PROVE IInv'
  BY <1>6 DEF TimeOut
<1>7. ASSUME NEW k \in Keepers, ConfirmFails(k) PROVE IInv'
  BY <1>7 DEF ConfirmFails, ConfirmRow
<1>8. ASSUME NEW k \in Keepers, Crash(k) PROVE IInv'
  BY <1>8 DEF Crash
<1>9. ASSUME NEW k \in Keepers, Land(k) PROVE IInv'
  BY <1>9 DEF Land, Execute, Answer
<1>10. ASSUME NEW k \in Keepers, Drop(k) PROVE IInv'
  BY <1>10 DEF Drop
<1>11. CASE LostLands
  BY <1>11, ExecuteSettles DEF LostLands
<1>12. CASE OtherSettles
  BY <1>12, ExecuteSettles DEF OtherSettles
<1>13. CASE Mature
  BY <1>13 DEF Mature
<1>14. CASE RowAges
  BY <1>14 DEF RowAges, AgeRow
<1>15. CASE UNCHANGED vars
  BY <1>15 DEF vars
<1> QED
  BY <1>1, <1>2, <1>3, <1>4, <1>5, <1>6, <1>7, <1>8, <1>9, <1>10, <1>11, <1>12, <1>13, <1>14,
     <1>15 DEF Next, Step

-----------------------------------------------------------------------------
(* A pending row and the keeper behind it. *)

Owns(k) == pc[k] \in {"submit", "await", "confirm", "noteSettled", "release", "fail"}

LEMMA NextPending == TypeOK /\ PendingHasOwner /\ [Next]_vars => PendingHasOwner'
<1> SUFFICES ASSUME TypeOK, PendingHasOwner, [Next]_vars, row' = "pending", crashes' = 0
             PROVE  \E k \in Keepers : Owns(k)'
  BY DEF PendingHasOwner, Owns
<1> USE DEF TypeOK, Goto, Owns
<1>1. ASSUME NEW k \in Keepers, Claim(k), Claimable(row) PROVE Owns(k)'
  BY <1>1 DEF Claim
<1>2. ASSUME NEW k \in Keepers, Submit(k) \/ Receive(k) \/ TimeOut(k) \/ ConfirmFails(k)
      PROVE  Owns(k)'
  BY <1>2 DEF Submit, Receive, AfterOutcome, TimeOut, ConfirmFails
<1>3. ASSUME NEW k \in Keepers, Record(k) PROVE FALSE
  BY <1>3 DEF Record, ConfirmRow, ReleaseRow, FailRow
<1>4. ASSUME NEW k \in Keepers, Crash(k) PROVE FALSE
  BY <1>4 DEF Crash
<1>5. CASE RowAges
  BY <1>5 DEF RowAges, AgeRow
<1>6. ASSUME row = "pending", crashes = 0,
             \A k \in Keepers : Owns(k) => Owns(k)'
      PROVE  \E k \in Keepers : Owns(k)'
  BY <1>6 DEF PendingHasOwner
<1>7. ASSUME NEW k \in Keepers, Scan(k) PROVE \E j \in Keepers : Owns(j)'
  BY <1>7, <1>6 DEF Scan
<1>8. ASSUME NEW k \in Keepers, Claim(k), ~Claimable(row) PROVE \E j \in Keepers : Owns(j)'
  BY <1>8, <1>6 DEF Claim, ClaimRow
<1>9. ASSUME NEW k \in Keepers, Land(k) \/ Drop(k) PROVE \E j \in Keepers : Owns(j)'
  BY <1>9, <1>6 DEF Land, Drop
<1>10. CASE LostLands \/ OtherSettles \/ Mature \/ UNCHANGED vars
  BY <1>10, <1>6 DEF LostLands, OtherSettles, Mature, vars
<1> QED
  BY <1>1, <1>2, <1>3, <1>4, <1>5, <1>7, <1>8, <1>9, <1>10 DEF Next, Step

-----------------------------------------------------------------------------

(* Rows, answers and steps tell the truth about the chain, whatever the    *)
(* order in which keepers, callers, crashes and late transactions come.    *)
THEOREM Settlement == Spec => []IInv
  BY InitIInv, NextIInv, PTL DEF Spec

(* Every state is well typed: in particular there are never more lost      *)
(* submissions than crashes and faults.                                    *)
THEOREM TypeCorrect == Spec => []TypeOK
  BY Settlement, PTL DEF IInv

(* No series is marked confirmed, and so left alone for ever, before it is *)
(* settled on the chain: settleMatured, for any number of keepers.         *)
THEOREM ConfirmedIsSettled == Spec => []ConfirmedMeansSettled
  BY Settlement, PTL DEF IInv

(* While no keeper has crashed, a pending row stands for an attempt under  *)
(* way: whoever finds the key taken may leave it to its owner.             *)
THEOREM PendingIsOwned == Spec => []PendingHasOwner
<1>1. Init => PendingHasOwner
  BY DEF Init, PendingHasOwner
<1> QED
  BY <1>1, TypeCorrect, NextPending, PTL DEF Spec

=============================================================================
