--------------------------- MODULE YcVaultProofs ---------------------------
(***************************************************************************)
(* Proofs about one series of the vault, for any users, amounts, series    *)
(* parameters and widths: its books balance, so the buffer holds, everyone *)
(* can leave and exactly one resolution is open; only its terms can make a *)
(* settlement overflow; nobody but holders is paid; and it implements the  *)
(* contract with its depositors.                                           *)
(***************************************************************************)
EXTENDS YcVault, WaterfallProofs, FiniteSetTheorems, FunctionTheorems

(* senior_owed is an amount or overflows.                                  *)
LEMMA OwedType ==
    ASSUME TypeOK
    PROVE  Owed = NONE \/ Owed \in Nat
  BY WidthAssumption DEF Owed, SeniorOwed, ToU64, U64, NONE, TypeOK

(* Every state of the series is well typed; in particular no balance,      *)
(* supply or payout is ever negative.                                      *)
LEMMA TypeStep == TypeOK /\ [Next]_vars => TypeOK'
<1>. SUFFICES ASSUME TypeOK, [Next]_vars PROVE TypeOK'
  OBVIOUS
<1>. USE AmountsAssumption, InputsAssumption, ParamsAssumption
<1>1. ASSUME NEW p \in BOOLEAN, SetPaused(p) PROVE TypeOK'
  BY <1>1 DEF SetPaused, TypeOK, seriesVars, tokenVars, poolVars
<1>2. ASSUME NEW score \in Scores, NEW ttl \in RiskTtls, SetRiskEntry(score, now + ttl)
      PROVE  TypeOK'
  BY <1>2 DEF SetRiskEntry, TypeOK, seriesVars, tokenVars, poolVars
<1>3. ASSUME NEW p \in SeriesParams, InitSeries(p) PROVE TypeOK'
  BY <1>3 DEF InitSeries, TypeOK, Params, Statuses, Zero, adminVars, tokenVars, poolVars
<1>4. ASSUME NEW u \in Users, NEW t \in Tranches, NEW amount \in Amounts, Deposit(u, t, amount)
      PROVE  TypeOK'
  BY <1>4 DEF Deposit, TypeOK, adminVars, poolVars
<1>5. ASSUME Activate PROVE TypeOK'
  BY <1>5 DEF Activate, PoolDeposit, TypeOK, Statuses, Params, adminVars
<1>6. ASSUME CancelSeries PROVE TypeOK'
  BY <1>6 DEF CancelSeries, TypeOK, Statuses, adminVars, tokenVars, poolVars
<1>7. ASSUME Settle PROVE TypeOK'
  <2>1. /\ SeniorPayout(vault + pool_vault, Owed) \in Nat
        /\ JuniorPayout(vault + pool_vault, Owed) \in Nat
    <3>1. Owed \in Nat
      BY <1>7, OwedType DEF Settle, PoolWithdrawAll
    <3>2. vault + pool_vault \in Nat
      BY DEF TypeOK
    <3>. QED
      BY <3>1, <3>2 DEF SeniorPayout, JuniorPayout
  <2>. QED
    BY <1>7, <2>1 DEF Settle, PoolWithdrawAll, TypeOK, Statuses, adminVars
<1>8. ASSUME NEW u \in Users, Refund(u) PROVE TypeOK'
  BY <1>8 DEF Refund, RefundEnabled, TypeOK, Tranches, Zero, adminVars, seriesVars, poolVars
<1>9. ASSUME NEW u \in Users, NEW t \in Tranches, Claim(u, t) PROVE TypeOK'
  <2>1. ClaimOf(u, t) \in Nat
    BY <1>9, ClaimBound DEF Claim, ClaimEnabled, ClaimOf, TypeOK
  <2>. QED
    BY <1>9, <2>1 DEF Claim, ClaimEnabled, TypeOK, adminVars, seriesVars, poolVars
<1>10. ASSUME NEW bps \in Moves, SimulateYield(bps) PROVE TypeOK'
  BY <1>10, BpsOfBound DEF SimulateYield, TypeOK, adminVars, seriesVars, tokenVars
<1>11. ASSUME NEW bps \in Moves, SimulateLoss(bps) PROVE TypeOK'
  BY <1>11, BpsOfBound DEF SimulateLoss, TypeOK, adminVars, seriesVars, tokenVars
<1>12. ASSUME NEW u \in Users, NEW amount \in Amounts, Donate(u, amount) PROVE TypeOK'
  BY <1>12 DEF Donate, TypeOK, adminVars, seriesVars
<1>13. ASSUME NEW u \in Users, NEW v \in Users, NEW t \in Tranches, NEW amount \in Amounts,
              TransferShares(u, v, t, amount)
       PROVE  TypeOK'
  <2>1. shares' \in [Users -> [Tranches -> Nat]]
    <3>1. amount \in Nat /\ shares[u][t] - amount \in Nat /\ shares[v][t] + amount \in Nat
      BY <1>13 DEF TransferShares, TypeOK
    <3>. DEFINE taken == [shares EXCEPT ![u][t] = @ - amount]
    <3>2. taken \in [Users -> [Tranches -> Nat]] /\ taken[v] = shares[v]
      BY <1>13, <3>1 DEF TransferShares, TypeOK
    <3>3. shares' = [taken EXCEPT ![v][t] = @ + amount]
      BY <1>13 DEF TransferShares
    <3>. QED
      BY <3>1, <3>2, <3>3
  <2>. QED
    BY <1>13, <2>1 DEF TransferShares, TypeOK, adminVars, seriesVars, poolVars
<1>14. ASSUME NEW u \in Users, NEW t \in Tranches, NEW amount \in Amounts,
              BurnShares(u, t, amount)
       PROVE  TypeOK'
  BY <1>14 DEF BurnShares, TypeOK, adminVars, seriesVars, poolVars
<1>15. CASE Tick
  BY <1>15 DEF Tick, TypeOK, adminVars, seriesVars, tokenVars, poolVars
<1>16. CASE UNCHANGED vars
  BY <1>16 DEF vars, TypeOK, adminVars, seriesVars, tokenVars, poolVars
<1>. QED
  BY <1>1, <1>2, <1>3, <1>4, <1>5, <1>6, <1>7, <1>8, <1>9, <1>10, <1>11, <1>12, <1>13,
     <1>14, <1>15, <1>16 DEF Next

(* The deployed program is in a well-typed state.                          *)
LEMMA InitType == Init => TypeOK
<1>. SUFFICES ASSUME Init PROVE TypeOK
  OBVIOUS
<1>1. Zero \in [Tranches -> Nat] /\ [u \in Users |-> Zero] \in [Users -> [Tranches -> Nat]]
  BY DEF Zero
<1>2. risk \in [score : Nat, expires_at : Int] /\ params \in Params
  BY DEF Init, NoRisk, NoParams, Params
<1>3. wallet \in [Users -> Nat] /\ shares \in [Users -> [Tranches -> Nat]]
  BY <1>1, AmountsAssumption DEF Init
<1>4. /\ principal \in [Tranches -> Nat] /\ payout \in [Tranches -> Nat]
      /\ supply \in [Tranches -> Nat] /\ paid \in [Tranches -> Nat]
  BY <1>1 DEF Init
<1>5. /\ now \in Nat /\ maturity_ts \in Int
      /\ vault \in Nat /\ pool_vault \in Nat /\ reserve \in Nat /\ sink \in Nat
  BY AmountsAssumption DEF Init
<1>6. paused \in BOOLEAN /\ status \in Statuses
  BY Zenon DEF Init, Statuses
<1>. QED
  BY <1>2, <1>3, <1>4, <1>5, <1>6 DEF TypeOK

(* Token balances, supplies and payouts are natural numbers in every       *)
(* reachable state: no checked subtraction of the code is ever negative.   *)
THEOREM TypeCorrect == Spec => []TypeOK
<1>. QED
  BY InitType, TypeStep, PTL DEF Spec

-----------------------------------------------------------------------------
(* The inductive invariant. *)

\* The conjuncts of IInv that are not about types.
Books == JuniorBuffer /\ Solvent /\ Bookkeeping

seriesBooks == <<params, status, principal, payout, supply, paid>>

(* A step that leaves the series, the supplies and the payments alone and  *)
(* takes nothing out of the vault keeps the books.                         *)
LEMMA BooksUnchanged ==
    ASSUME TypeOK, TypeOK', Books, UNCHANGED seriesBooks, vault' >= vault
    PROVE  Books'
<1>1. JuniorBuffer'
  BY DEF Books, JuniorBuffer, seriesBooks
<1>2. Solvent'
  BY DEF Books, Solvent, seriesBooks, TypeOK, Tranches
<1>3. Bookkeeping'
  BY DEF Books, Bookkeeping, seriesBooks
<1>. QED
  BY <1>1, <1>2, <1>3 DEF Books

(* init_series opens empty books.                                          *)
LEMMA BooksInitSeries ==
    ASSUME TypeOK, TypeOK', Books, NEW p \in SeriesParams, InitSeries(p)
    PROVE  Books'
<1>. USE DEF InitSeries
<1>1. principal = Zero /\ paid = Zero /\ \A t \in Tranches : supply[t] <= 0
  BY DEF Books, Bookkeeping, Zero, TypeOK
<1>2. JuniorBuffer'
  BY DEF JuniorBuffer, JuniorRatioOk, Zero, Tranches
<1>3. Solvent'
  BY DEF Solvent, Zero, Tranches, TypeOK
<1>4. Bookkeeping'
  BY <1>1 DEF Bookkeeping, ParamsValid, tokenVars, Zero
<1>. QED
  BY <1>2, <1>3, <1>4 DEF Books

(* A deposit keeps the buffer (by the check, or because it is junior) and  *)
(* puts as much into the vault as it mints.                                *)
LEMMA BooksDeposit ==
    ASSUME TypeOK, TypeOK', Books, NEW u \in Users, NEW t \in Tranches, NEW amount \in Amounts,
           Deposit(u, t, amount)
    PROVE  Books'
<1>. USE AmountsAssumption
<1>1. /\ amount \in Nat /\ status = "Open" /\ status' = "Open" /\ params' = params
      /\ payout' = payout /\ paid' = paid /\ vault' = vault + amount
      /\ principal' = [principal EXCEPT ![t] = @ + amount]
      /\ supply' = [supply EXCEPT ![t] = @ + amount]
      /\ CapacityOk(t, principal')
  BY DEF Deposit
<1>2. JuniorBuffer'
  <2>1. CASE t = "senior"
    BY <1>1, <2>1 DEF CapacityOk, JuniorBuffer
  <2>2. CASE t = "junior"
    <3>1. params.min_junior_bps \in Nat /\ params.min_junior_bps <= BPS
      BY <1>1, BpsAssumption DEF Books, Bookkeeping, MinJuniorAllowed, TypeOK, Params
    <3>2. /\ principal'["senior"] = principal["senior"]
          /\ principal'["junior"] = principal["junior"] + amount
          /\ principal["senior"] \in Nat /\ principal["junior"] \in Nat
      BY <1>1, <2>2 DEF TypeOK, Tranches
    <3>3. JuniorRatioOk(principal["senior"], principal["junior"], params.min_junior_bps)
      BY <1>1 DEF Books, JuniorBuffer
    <3>. QED
      BY <1>1, <3>1, <3>2, <3>3, JuniorDepositKeepsRatio DEF JuniorBuffer
  <2>. QED
    BY <2>1, <2>2 DEF Tranches
<1>3. Solvent'
  BY <1>1 DEF Books, Solvent, TypeOK, Tranches
<1>4. Bookkeeping'
  BY <1>1 DEF Books, Bookkeeping, TypeOK, Zero
<1>. QED
  BY <1>2, <1>3, <1>4 DEF Books

(* Activation and cancellation change no principal and no supply.          *)
LEMMA BooksLifecycle ==
    ASSUME TypeOK, TypeOK', Books, Activate \/ CancelSeries
    PROVE  Books'
<1>1. /\ status = "Open" /\ status' \in {"Active", "Cancelled"}
      /\ params' = params /\ principal' = principal /\ payout' = payout
      /\ supply' = supply /\ paid' = paid
      /\ status' = "Cancelled" => vault' = vault
  BY DEF Activate, PoolDeposit, ActivateEnabled, CancelSeries, CancelEnabled, tokenVars
<1>2. JuniorBuffer'
  BY <1>1 DEF Books, JuniorBuffer
<1>3. Solvent'
  BY <1>1 DEF Books, Solvent, Bookkeeping, TypeOK, Tranches
<1>4. Bookkeeping'
  <2>1. \A t \in Tranches : paid[t] = 0
    BY <1>1 DEF Books, Bookkeeping, Zero
  <2>. QED
    BY <1>1, <2>1 DEF Books, Bookkeeping, TypeOK
<1>. QED
  BY <1>2, <1>3, <1>4 DEF Books

(* Settlement fixes payouts that add up to what the vault then holds.      *)
LEMMA BooksSettle ==
    ASSUME TypeOK, TypeOK', Books, Settle
    PROVE  Books'
<1>1. /\ status = "Active" /\ status' = "Settled" /\ params' = params
      /\ principal' = principal /\ supply' = supply /\ paid' = paid
      /\ vault' = vault + pool_vault
      /\ payout'["senior"] = SeniorPayout(vault + pool_vault, Owed)
      /\ payout'["junior"] = JuniorPayout(vault + pool_vault, Owed)
  BY DEF Settle, PoolWithdrawAll, Tranches
<1>2. \A t \in Tranches : /\ paid[t] = 0 /\ supply[t] <= principal[t]
                          /\ payout'[t] \in Nat /\ principal[t] \in Nat /\ supply[t] \in Nat
  BY <1>1 DEF Books, Bookkeeping, Zero, TypeOK
<1>3. payout'["senior"] + payout'["junior"] = vault'
  <2>1. Owed \in Nat /\ vault + pool_vault \in Nat
    BY OwedType DEF Settle, PoolWithdrawAll, TypeOK
  <2>. QED
    BY <1>1, <2>1 DEF SeniorPayout, JuniorPayout
<1>4. JuniorBuffer'
  BY <1>1 DEF Books, JuniorBuffer
<1>5. Solvent'
  <2>1. \A t \in Tranches : paid'[t] * principal'[t] <= payout'[t] * (principal'[t] - supply'[t])
    BY <1>1, <1>2
  <2>2. vault' + paid'["senior"] + paid'["junior"] >= payout'["senior"] + payout'["junior"]
    BY <1>1, <1>2, <1>3 DEF Tranches, TypeOK
  <2>. QED
    BY <1>1, <2>1, <2>2 DEF Solvent
<1>6. Bookkeeping'
  BY <1>1, <1>2 DEF Books, Bookkeeping, Zero
<1>. QED
  BY <1>4, <1>5, <1>6 DEF Books

(* A refund takes out of the vault exactly the shares it burns.            *)
LEMMA BooksRefund ==
    ASSUME TypeOK, TypeOK', Books, NEW u \in Users, Refund(u)
    PROVE  Books'
<1>1. /\ status = "Cancelled" /\ status' = "Cancelled" /\ params' = params
      /\ principal' = principal /\ payout' = payout
      /\ supply' = [t \in Tranches |-> supply[t] - shares[u][t]]
      /\ paid' = [t \in Tranches |-> paid[t] + shares[u][t]]
      /\ vault' = vault - (shares[u]["senior"] + shares[u]["junior"])
      /\ \A t \in Tranches : shares[u][t] \in Nat
  BY DEF Refund, RefundEnabled, seriesVars, TypeOK
<1>2. JuniorBuffer'
  BY <1>1 DEF Books, JuniorBuffer
<1>3. Solvent'
  BY <1>1 DEF Books, Solvent, TypeOK, Tranches
<1>4. Bookkeeping'
  BY <1>1 DEF Books, Bookkeeping, TypeOK
<1>. QED
  BY <1>2, <1>3, <1>4 DEF Books

(* A claim, rounded down, leaves enough for the shares that remain.        *)
LEMMA BooksClaim ==
    ASSUME TypeOK, TypeOK', Books, NEW u \in Users, NEW t \in Tranches, Claim(u, t)
    PROVE  Books'
<1>. DEFINE h == shares[u][t]
            c == ClaimOf(u, t)
<1>1. /\ status = "Settled" /\ status' = "Settled" /\ params' = params
      /\ principal' = principal /\ payout' = payout
      /\ supply' = [supply EXCEPT ![t] = @ - h]
      /\ paid' = [paid EXCEPT ![t] = @ + c]
      /\ vault' = vault - c
      /\ h \in Nat /\ h <= supply[t] /\ c # NONE
  BY DEF Claim, ClaimEnabled, seriesVars, TypeOK
<1>2. /\ principal[t] \in Nat /\ supply[t] \in Nat /\ payout[t] \in Nat /\ paid[t] \in Nat
      /\ supply[t] <= principal[t]
      /\ paid[t] * principal[t] <= payout[t] * (principal[t] - supply[t])
  BY <1>1 DEF TypeOK, Books, Solvent, Bookkeeping
<1>3. c \in Nat /\ principal[t] > 0 /\ c * principal[t] <= payout[t] * h
  BY <1>1, <1>2, ClaimBound DEF ClaimOf
<1>. HIDE DEF h, c
<1>4. /\ (paid[t] + c) * principal[t] <= payout[t] * (principal[t] - (supply[t] - h))
      /\ paid[t] + c <= payout[t]
  BY <1>1, <1>2, <1>3, ClaimKeepsShareOfPayout
<1>5. paid'[t] = paid[t] + c /\ supply'[t] = supply[t] - h
  BY <1>1 DEF TypeOK
<1>6. \A k \in Tranches \ {t} : paid'[k] = paid[k] /\ supply'[k] = supply[k]
  BY <1>1 DEF TypeOK
<1>7. JuniorBuffer'
  BY <1>1 DEF Books, JuniorBuffer
<1>8. Solvent'
  <2>1. \A k \in Tranches : paid'[k] * principal'[k] <= payout'[k] * (principal'[k] - supply'[k])
    BY <1>1, <1>4, <1>5, <1>6 DEF Books, Solvent
  <2>2. paid'["senior"] + paid'["junior"] = paid["senior"] + paid["junior"] + c
    BY <1>3, <1>5, <1>6 DEF Tranches, TypeOK
  <2>3. vault' + paid'["senior"] + paid'["junior"] >= payout'["senior"] + payout'["junior"]
    BY <1>1, <1>3, <2>2 DEF Books, Solvent, TypeOK, Tranches
  <2>. QED
    BY <1>1, <2>1, <2>3 DEF Solvent
<1>9. Bookkeeping'
  BY <1>1, <1>2, <1>3, <1>4, <1>5, <1>6 DEF Books, Bookkeeping, TypeOK
<1>. QED
  BY <1>7, <1>8, <1>9 DEF Books

(* Shares burnt for nothing only leave more for the others.                *)
LEMMA BooksBurn ==
    ASSUME TypeOK, TypeOK', Books, NEW u \in Users, NEW t \in Tranches, NEW amount \in Amounts,
           BurnShares(u, t, amount)
    PROVE  Books'
<1>1. /\ amount \in Nat /\ amount <= supply[t]
      /\ params' = params /\ status' = status /\ principal' = principal /\ payout' = payout
      /\ paid' = paid /\ vault' = vault
      /\ supply' = [supply EXCEPT ![t] = @ - amount]
  BY AmountsAssumption DEF BurnShares, seriesVars
<1>2. \A k \in Tranches : supply'[k] <= supply[k] /\ supply'[k] \in Nat /\ supply[k] \in Nat
  BY <1>1 DEF TypeOK
<1>3. JuniorBuffer'
  BY <1>1 DEF Books, JuniorBuffer
<1>4. Solvent'
  <2>1. ASSUME status = "Settled", NEW k \in Tranches
        PROVE  paid'[k] * principal'[k] <= payout'[k] * (principal'[k] - supply'[k])
    <3>1. /\ principal[k] \in Nat /\ payout[k] \in Nat /\ paid[k] \in Nat
          /\ supply[k] <= principal[k]
          /\ paid[k] * principal[k] <= payout[k] * (principal[k] - supply[k])
      BY <2>1 DEF TypeOK, Books, Solvent, Bookkeeping
    <3>2. payout[k] * (principal[k] - supply[k]) <= payout[k] * (principal[k] - supply'[k])
      BY <1>2, <3>1, ProductMonotone
    <3>. DEFINE x == paid[k] * principal[k]
                y == payout[k] * (principal[k] - supply[k])
                z == payout[k] * (principal[k] - supply'[k])
    <3>3. x \in Nat /\ y \in Int /\ z \in Int
      BY <1>2, <3>1
    <3>. QED
      BY <1>1, <3>1, <3>2, <3>3
  <2>2. status = "Cancelled" => vault' >= supply'["senior"] + supply'["junior"]
    BY <1>1, <1>2 DEF Books, Solvent, TypeOK, Tranches
  <2>. QED
    BY <1>1, <2>1, <2>2 DEF Books, Solvent
<1>5. Bookkeeping'
  <2>1. \A k \in Tranches : /\ supply[k] <= principal[k]
                            /\ principal[k] \in Nat /\ paid[k] \in Nat
    BY DEF Books, Bookkeeping, TypeOK
  <2>. QED
    BY <1>1, <1>2, <2>1 DEF Books, Bookkeeping
<1>. QED
  BY <1>3, <1>4, <1>5 DEF Books

(* Every instruction, and every external transfer, keeps the books.        *)
LEMMA BooksStep == TypeOK /\ Books /\ TypeOK' /\ [Next]_vars => Books'
<1>. SUFFICES ASSUME TypeOK, Books, TypeOK', [Next]_vars PROVE Books'
  OBVIOUS
<1>. USE DEF adminVars, seriesVars, tokenVars, poolVars, seriesBooks
<1>1. ASSUME NEW p \in BOOLEAN, SetPaused(p) PROVE Books'
  BY <1>1, BooksUnchanged DEF SetPaused, TypeOK
<1>2. ASSUME NEW score \in Scores, NEW ttl \in RiskTtls, SetRiskEntry(score, now + ttl)
      PROVE  Books'
  BY <1>2, BooksUnchanged DEF SetRiskEntry, TypeOK
<1>3. ASSUME NEW p \in SeriesParams, InitSeries(p) PROVE Books'
  BY <1>3, BooksInitSeries
<1>4. ASSUME NEW u \in Users, NEW t \in Tranches, NEW amount \in Amounts, Deposit(u, t, amount)
      PROVE  Books'
  BY <1>4, BooksDeposit
<1>5. ASSUME Activate \/ CancelSeries PROVE Books'
  BY <1>5, BooksLifecycle
<1>6. ASSUME Settle PROVE Books'
  BY <1>6, BooksSettle
<1>7. ASSUME NEW u \in Users, Refund(u) PROVE Books'
  BY <1>7, BooksRefund
<1>8. ASSUME NEW u \in Users, NEW t \in Tranches, Claim(u, t) PROVE Books'
  BY <1>8, BooksClaim
<1>9. ASSUME NEW bps \in Moves, SimulateYield(bps) \/ SimulateLoss(bps) PROVE Books'
  BY <1>9, BooksUnchanged DEF SimulateYield, SimulateLoss, TypeOK
<1>10. ASSUME NEW u \in Users, NEW amount \in Amounts, Donate(u, amount) PROVE Books'
  BY <1>10, BooksUnchanged, AmountsAssumption DEF Donate, TypeOK
<1>11. ASSUME NEW u \in Users, NEW v \in Users, NEW t \in Tranches, NEW amount \in Amounts,
              TransferShares(u, v, t, amount)
       PROVE  Books'
  <2>1. UNCHANGED seriesBooks /\ vault' = vault
    BY <1>11 DEF TransferShares
  <2>. QED
    BY <2>1, BooksUnchanged DEF TypeOK
<1>12. ASSUME NEW u \in Users, NEW t \in Tranches, NEW amount \in Amounts,
              BurnShares(u, t, amount)
       PROVE  Books'
  BY <1>12, BooksBurn
<1>13. ASSUME Tick \/ UNCHANGED vars PROVE Books'
  BY <1>13, BooksUnchanged DEF Tick, vars, TypeOK
<1>. QED
  BY <1>1, <1>2, <1>3, <1>4, <1>5, <1>6, <1>7, <1>8, <1>9, <1>10, <1>11, <1>12, <1>13 DEF Next

(* The books of a series always balance: its principals respect the junior *)
(* buffer, and its vault covers what is outstanding in every phase.        *)
THEOREM BooksBalance == Spec => []IInv
<1>1. Init => TypeOK
  BY InitType
<1>2. Init => Books
  <2>. SUFFICES ASSUME Init PROVE Books
    OBVIOUS
  <2>1. TypeOK
    BY InitType
  <2>. QED
    BY <2>1 DEF Init, Books, JuniorBuffer, Solvent, Bookkeeping, Zero
<1>3. TypeOK /\ Books /\ [Next]_vars => TypeOK' /\ Books'
  BY TypeStep, BooksStep
<1>4. TypeOK /\ Books <=> IInv
  BY DEF Books, IInv
<1>. QED
  BY <1>1, <1>2, <1>3, <1>4, PTL DEF Spec

(* deposit_junior skips the capacity check and cannot break the rule.      *)
THEOREM BufferAlwaysHolds == Spec => []JuniorBuffer
<1>1. IInv => JuniorBuffer
  BY DEF IInv
<1>. QED
  BY <1>1, BooksBalance, PTL

(* The vault covers every outstanding claim and refund.                    *)
THEOREM AlwaysSolvent == Spec => []Solvent
<1>1. IInv => Solvent
  BY DEF IInv
<1>. QED
  BY <1>1, BooksBalance, PTL

-----------------------------------------------------------------------------
(* What the token program guarantees of a mint, from what its instructions *)
(* do: balances are sizes of disjoint sets of tokens, which a transfer     *)
(* moves, a mint enlarges and a burn shrinks.  No sum is needed.           *)

Apart(m, issued, held, bal, n) ==
    /\ issued \subseteq 1 .. m /\ Cardinality(issued) = n
    /\ \A u \in Users : held[u] \subseteq issued /\ Cardinality(held[u]) = bal[u]
    /\ \A u, v \in Users : u # v => held[u] \cap held[v] = {}

\* The balances are those of users who hold some of n tokens.
Backed(bal, n) ==
    \E m \in Nat, issued \in SUBSET Nat, held \in [Users -> SUBSET Nat] : Apart(m, issued, held, bal, n)

(* A finite set has subsets of every size.                                 *)
LEMMA PartOfSize ==
    ASSUME NEW S, IsFiniteSet(S), NEW k \in Nat, k <= Cardinality(S)
    PROVE  \E P \in SUBSET S : Cardinality(P) = k
<1>. DEFINE n == Cardinality(S)
<1>1. n \in Nat /\ ExistsBijection(1 .. n, S)
  BY FS_CardinalityType
<1>2. k <= n
  OBVIOUS
<1>. HIDE DEF n
<1>3. PICK f \in Bijection(1 .. n, S) : TRUE
  BY <1>1 DEF ExistsBijection
<1>. DEFINE P == {f[i] : i \in 1 .. k}
            g == [i \in 1 .. k |-> f[i]]
<1>4. P \in SUBSET S
  BY <1>1, <1>2, <1>3 DEF Bijection, Injection, Surjection
<1>5. g \in Bijection(1 .. k, P)
  <2>1. g \in [1 .. k -> P]
    OBVIOUS
  <2>2. \A i, j \in 1 .. k : g[i] = g[j] => i = j
    BY <1>1, <1>2, <1>3 DEF Bijection, Injection, IsInjective
  <2>3. \A y \in P : \E i \in 1 .. k : g[i] = y
    OBVIOUS
  <2>. HIDE DEF g, P
  <2>. QED
    BY <2>1, <2>2, <2>3 DEF Bijection, Injection, Surjection, IsInjective
<1>6. Cardinality(P) = k
  <2>1. ExistsBijection(1 .. k, P)
    BY <1>5 DEF ExistsBijection
  <2>. HIDE DEF P
  <2>. QED
    BY <2>1, FS_CountingElements
<1>. QED
  BY <1>4, <1>6

LEMMA PartsAreFinite ==
    ASSUME NEW m \in Nat, NEW S \in SUBSET (1 .. m)
    PROVE  IsFiniteSet(S) /\ Cardinality(S) \in Nat
<1>1. IsFiniteSet(1 .. m)
  BY FS_Interval
<1>2. IsFiniteSet(S)
  BY <1>1, FS_Subset
<1>. QED
  BY <1>2, FS_CardinalityType

(* No balance passes the number of tokens.                                 *)
LEMMA BackedBound ==
    ASSUME NEW bal, NEW n, Backed(bal, n), NEW u \in Users
    PROVE  bal[u] \in Nat /\ n \in Nat /\ bal[u] <= n
<1>1. PICK m \in Nat, issued \in SUBSET Nat, held \in [Users -> SUBSET Nat] : Apart(m, issued, held, bal, n)
  BY DEF Backed
<1>2. issued \in SUBSET (1 .. m) /\ held[u] \in SUBSET issued /\ Cardinality(issued) = n /\ Cardinality(held[u]) = bal[u]
  BY <1>1 DEF Apart
<1>3. IsFiniteSet(issued) /\ Cardinality(issued) \in Nat
  BY <1>2, PartsAreFinite
<1>4. Cardinality(held[u]) <= Cardinality(issued) /\ IsFiniteSet(held[u])
  BY <1>2, <1>3, FS_Subset
<1>5. Cardinality(held[u]) \in Nat
  BY <1>4, FS_CardinalityType
<1>. QED
  BY <1>2, <1>3, <1>4, <1>5

(* Minting.                                                                *)
LEMMA BackedMint ==
    ASSUME NEW bal \in [Users -> Nat], NEW n, Backed(bal, n), NEW u \in Users, NEW k \in Nat
    PROVE  Backed([bal EXCEPT ![u] = @ + k], n + k)
<1>1. PICK m \in Nat, issued \in SUBSET Nat, held \in [Users -> SUBSET Nat] : Apart(m, issued, held, bal, n)
  BY DEF Backed
<1>2. /\ issued \in SUBSET (1 .. m) /\ Cardinality(issued) = n
      /\ \A v \in Users : held[v] \in SUBSET issued /\ Cardinality(held[v]) = bal[v]
      /\ \A v, w \in Users : v # w => held[v] \cap held[w] = {}
  BY <1>1 DEF Apart
<1>. DEFINE fresh == m + 1 .. m + k
            hold == [held EXCEPT ![u] = @ \cup fresh]
<1>3. IsFiniteSet(fresh) /\ Cardinality(fresh) = k
  <2>1. /\ m + 1 \in Int /\ m + k \in Int
        /\ ~(m + 1 > m + k) => (m + k) - (m + 1) + 1 = k
        /\ m + 1 > m + k => k = 0
    OBVIOUS
  <2>2. /\ IsFiniteSet(m + 1 .. m + k)
        /\ Cardinality(m + 1 .. m + k) = IF m + 1 > m + k THEN 0 ELSE (m + k) - (m + 1) + 1
    BY <2>1, FS_Interval, Zenon
  <2>. QED
    BY <2>1, <2>2
<1>4. \A S \in SUBSET issued : Cardinality(S \cup fresh) = Cardinality(S) + k
  <2>. SUFFICES ASSUME NEW S \in SUBSET issued
                PROVE  Cardinality(S \cup fresh) = Cardinality(S) + k
    OBVIOUS
  <2>1. S \in SUBSET (1 .. m)
    BY <1>2
  <2>2. IsFiniteSet(S) /\ Cardinality(S) \in Nat
    BY <2>1, PartsAreFinite
  <2>3. S \cap fresh = {}
    BY <2>1
  <2>. HIDE DEF fresh
  <2>4. Cardinality(S \cup fresh) = Cardinality(S) + Cardinality(fresh) - Cardinality(S \cap fresh)
    BY <1>3, <2>2, FS_Union
  <2>5. Cardinality(S \cap fresh) = 0
    BY <2>3, FS_EmptySet
  <2>. QED
    BY <1>3, <2>2, <2>4, <2>5
<1>5. /\ issued \cup fresh \in SUBSET Nat /\ issued \cup fresh \subseteq 1 .. m + k
      /\ Cardinality(issued \cup fresh) = n + k
  BY <1>2, <1>4
<1>6. hold \in [Users -> SUBSET Nat]
  OBVIOUS
<1>7. \A v \in Users : hold[v] \subseteq issued \cup fresh /\ Cardinality(hold[v]) = [bal EXCEPT ![u] = @ + k][v]
  BY <1>2, <1>4
<1>8. \A v, w \in Users : v # w => hold[v] \cap hold[w] = {}
  <2>1. \A v \in Users : held[v] \cap fresh = {}
    BY <1>2
  <2>. HIDE DEF fresh
  <2>. QED
    BY <1>2, <2>1
<1>9. m + k \in Nat
  OBVIOUS
<1>. HIDE DEF hold, fresh
<1>10. Apart(m + k, issued \cup fresh, hold, [bal EXCEPT ![u] = @ + k], n + k)
  BY <1>5, <1>7, <1>8 DEF Apart
<1>. QED
  BY <1>5, <1>6, <1>9, <1>10 DEF Backed

(* Burning.                                                                *)
LEMMA BackedBurn ==
    ASSUME NEW bal \in [Users -> Nat], NEW n, Backed(bal, n), NEW u \in Users, NEW k \in Nat, k <= bal[u]
    PROVE  Backed([bal EXCEPT ![u] = @ - k], n - k)
<1>1. PICK m \in Nat, issued \in SUBSET Nat, held \in [Users -> SUBSET Nat] : Apart(m, issued, held, bal, n)
  BY DEF Backed
<1>2. /\ issued \in SUBSET (1 .. m) /\ Cardinality(issued) = n
      /\ \A v \in Users : held[v] \in SUBSET issued /\ Cardinality(held[v]) = bal[v]
      /\ \A v, w \in Users : v # w => held[v] \cap held[w] = {}
  BY <1>1 DEF Apart
<1>3. \A S \in SUBSET issued : IsFiniteSet(S) /\ Cardinality(S) \in Nat
  BY <1>2, PartsAreFinite
<1>4. PICK gone \in SUBSET held[u] : Cardinality(gone) = k
  BY <1>2, <1>3, PartOfSize
<1>. DEFINE hold == [held EXCEPT ![u] = @ \ gone]
<1>5. \A S \in SUBSET issued : gone \in SUBSET S => Cardinality(S \ gone) = Cardinality(S) - k
  <2>. SUFFICES ASSUME NEW S \in SUBSET issued, gone \in SUBSET S
                PROVE  Cardinality(S \ gone) = Cardinality(S) - k
    OBVIOUS
  <2>1. S \cap gone = gone
    OBVIOUS
  <2>. QED
    BY <1>3, <1>4, <2>1, FS_Difference
<1>6. /\ issued \ gone \in SUBSET Nat /\ issued \ gone \subseteq 1 .. m
      /\ Cardinality(issued \ gone) = n - k
  BY <1>2, <1>4, <1>5
<1>7. hold \in [Users -> SUBSET Nat]
  OBVIOUS
<1>8. \A v \in Users : hold[v] \subseteq issued \ gone /\ Cardinality(hold[v]) = [bal EXCEPT ![u] = @ - k][v]
  BY <1>2, <1>4, <1>5
<1>9. \A v, w \in Users : v # w => hold[v] \cap hold[w] = {}
  BY <1>2
<1>. HIDE DEF hold
<1>10. Apart(m, issued \ gone, hold, [bal EXCEPT ![u] = @ - k], n - k)
  BY <1>6, <1>8, <1>9 DEF Apart
<1>. QED
  BY <1>6, <1>7, <1>10 DEF Backed

(* Everyone starts with as much as everyone else.                          *)
LEMMA BackedAtFirst ==
    ASSUME IsFiniteSet(Users), NEW w \in Nat
    PROVE  Cardinality(Users) * w \in Nat /\ Backed([u \in Users |-> w], Cardinality(Users) * w)
<1>. DEFINE n == Cardinality(Users)
<1>1. n \in Nat /\ ExistsBijection(Users, 1 .. n)
  BY FS_CardinalityType, Fun_ExistsBijSymmetric
<1>. HIDE DEF n
<1>2. PICK place \in Bijection(Users, 1 .. n) : TRUE
  BY <1>1 DEF ExistsBijection
<1>3. place \in [Users -> 1 .. n] /\ \A u, v \in Users : place[u] = place[v] => u = v
  BY <1>2 DEF Bijection, Injection, IsInjective
<1>. DEFINE held == [u \in Users |-> (place[u] - 1) * w + 1 .. place[u] * w]
<1>4. n * w \in Nat
  BY <1>1
<1>5. \A i \in 1 .. n : /\ (i - 1) * w \in Nat /\ i * w \in Nat
                        /\ i * w = (i - 1) * w + w /\ i * w <= n * w
                        /\ \A j \in 1 .. n : i < j => i * w <= (j - 1) * w
  <2>. SUFFICES ASSUME NEW i \in 1 .. n
                PROVE  /\ (i - 1) * w \in Nat /\ i * w \in Nat
                       /\ i * w = (i - 1) * w + w /\ i * w <= n * w
                       /\ \A j \in 1 .. n : i < j => i * w <= (j - 1) * w
    OBVIOUS
  <2>1. (i - 1) * w \in Nat /\ i * w \in Nat /\ i * w = (i - 1) * w + w
    BY <1>1
  <2>2. w * i <= w * n
    BY <1>1, ProductMonotone
  <2>3. \A j \in 1 .. n : i < j => w * i <= w * (j - 1)
    BY <1>1, ProductMonotone
  <2>. QED
    BY <1>1, <2>1, <2>2, <2>3
<1>6. 1 .. n * w \in SUBSET Nat /\ Cardinality(1 .. n * w) = n * w
  <2>1. \A k \in Nat : 1 .. k \in SUBSET Nat /\ Cardinality(1 .. k) = k
    BY FS_Interval
  <2>. QED
    BY <1>4, <2>1
<1>7. held \in [Users -> SUBSET Nat]
  <2>1. \A u \in Users : (place[u] - 1) * w \in Nat /\ place[u] * w \in Nat
    BY <1>3, <1>5
  <2>. QED
    BY <2>1
<1>8. \A u \in Users : held[u] \subseteq 1 .. n * w /\ Cardinality(held[u]) = w
  <2>. SUFFICES ASSUME NEW u \in Users
                PROVE  held[u] \subseteq 1 .. n * w /\ Cardinality(held[u]) = w
    OBVIOUS
  <2>. DEFINE a == (place[u] - 1) * w
              b == place[u] * w
  <2>1. a \in Nat /\ b \in Nat /\ b = a + w /\ b <= n * w
    BY <1>3, <1>5
  <2>2. held[u] = a + 1 .. b
    OBVIOUS
  <2>. HIDE DEF a, b, held
  <2>3. held[u] \subseteq 1 .. n * w
    BY <1>4, <2>1, <2>2
  <2>4. Cardinality(a + 1 .. b) = w
    BY <2>1, FS_Interval
  <2>. QED
    BY <2>2, <2>3, <2>4
<1>9. \A u, v \in Users : u # v => held[u] \cap held[v] = {}
  <2>1. \A u, v \in Users : place[u] < place[v] => held[u] \cap held[v] = {}
    <3>. SUFFICES ASSUME NEW u \in Users, NEW v \in Users, place[u] < place[v]
                  PROVE  held[u] \cap held[v] = {}
      OBVIOUS
    <3>. DEFINE b == place[u] * w
                c == (place[v] - 1) * w
    <3>1. b \in Nat /\ c \in Nat /\ b <= c /\ (place[u] - 1) * w \in Nat /\ place[v] * w \in Nat
      BY <1>3, <1>5
    <3>2. held[u] = (place[u] - 1) * w + 1 .. b /\ held[v] = c + 1 .. place[v] * w
      OBVIOUS
    <3>. HIDE DEF b, c, held
    <3>. QED
      BY <3>1, <3>2
  <2>. HIDE DEF held
  <2>2. \A u, v \in Users : u # v => place[u] < place[v] \/ place[v] < place[u]
    BY <1>1, <1>3
  <2>. QED
    BY <2>1, <2>2
<1>. HIDE DEF held
<1>10. Apart(n * w, 1 .. n * w, held, [u \in Users |-> w], n * w)
  BY <1>6, <1>8, <1>9 DEF Apart
<1>. QED
  BY <1>4, <1>6, <1>7, <1>10 DEF Backed, n

\* The supply of a share mint is in its holders' accounts.
Column(t) == [u \in Users |-> shares[u][t]]
SharesBacked == \A t \in Tranches : Backed(Column(t), supply[t])

\* The underlying tokens are in the wallets or in one of the four accounts.
InAccounts == vault + pool_vault + reserve + sink
TokensBacked ==
    \E free \in Nat : Backed(wallet, free) /\ free + InAccounts = Issued

\* The supply of the underlying mint is a u64, as any mint's.
MintFits == IsFiniteSet(Users) /\ Issued <= U64_MAX

LEMMA InitBacked == MintFits /\ Init => SharesBacked /\ TokensBacked
<1>. SUFFICES ASSUME MintFits, Init PROVE SharesBacked /\ TokensBacked
  OBVIOUS
<1>1. ASSUME NEW w \in Nat
      PROVE  Cardinality(Users) * w \in Nat /\ Backed([u \in Users |-> w], Cardinality(Users) * w)
  BY BackedAtFirst DEF MintFits
<1>2. SharesBacked
  <2>1. \A t \in Tranches : Column(t) = [u \in Users |-> 0] /\ supply[t] = 0
    BY DEF Init, Column, Zero
  <2>2. Cardinality(Users) * 0 = 0
    BY FS_CardinalityType DEF MintFits
  <2>. QED
    BY <1>1, <2>1, <2>2 DEF SharesBacked
<1>3. TokensBacked
  <2>. DEFINE free == Cardinality(Users) * InitialWallet
  <2>1. free \in Nat /\ Backed(wallet, free)
    BY <1>1, AmountsAssumption DEF Init
  <2>2. free + InAccounts = Issued
    BY <2>1, AmountsAssumption DEF Init, Issued, InAccounts
  <2>. QED
    BY <2>1, <2>2 DEF TokensBacked
<1>. QED
  BY <1>2, <1>3

(* Steps on the share mints.                                               *)
LEMMA SharesStep ==
    ASSUME TypeOK, SharesBacked, [Next]_vars
    PROVE  SharesBacked'
<1>. USE AmountsAssumption
<1>1. /\ \A t \in Tranches : Column(t) \in [Users -> Nat] /\ Backed(Column(t), supply[t])
      /\ shares \in [Users -> [Tranches -> Nat]] /\ supply \in [Tranches -> Nat]
  BY DEF TypeOK, SharesBacked, Column
<1>2. CASE UNCHANGED <<shares, supply>>
  BY <1>2 DEF SharesBacked, Column
<1>3. ASSUME NEW u \in Users, NEW t \in Tranches, NEW amount \in Amounts, Deposit(u, t, amount)
      PROVE  SharesBacked'
  <2>1. /\ shares' = [shares EXCEPT ![u][t] = @ + amount]
        /\ supply' = [supply EXCEPT ![t] = @ + amount]
    BY <1>3 DEF Deposit
  <2>2. Backed([Column(t) EXCEPT ![u] = @ + amount], supply[t] + amount)
    BY <1>1, BackedMint
  <2>3. Column(t)' = [Column(t) EXCEPT ![u] = @ + amount] /\ supply'[t] = supply[t] + amount
    BY <1>1, <2>1 DEF Column
  <2>4. \A o \in Tranches : o # t => Column(o)' = Column(o) /\ supply'[o] = supply[o]
    BY <1>1, <2>1 DEF Column
  <2>. QED
    BY <1>1, <2>2, <2>3, <2>4 DEF SharesBacked
<1>4. ASSUME NEW u \in Users, Refund(u)
      PROVE  SharesBacked'
  <2>. SUFFICES ASSUME NEW t \in Tranches PROVE Backed(Column(t)', supply'[t])
    BY DEF SharesBacked
  <2>1. shares' = [shares EXCEPT ![u] = Zero] /\ supply'[t] = supply[t] - shares[u][t]
    BY <1>4 DEF Refund
  <2>2. Column(t)[u] = shares[u][t] /\ shares[u][t] \in Nat /\ Zero[t] = 0
    BY <1>1 DEF Column, Zero
  <2>3. Backed([Column(t) EXCEPT ![u] = @ - shares[u][t]], supply[t] - shares[u][t])
    <3>1. shares[u][t] <= Column(t)[u]
      BY <2>2
    <3>. QED
      BY <1>1, <2>2, <3>1, BackedBurn
  <2>4. Column(t)' = [Column(t) EXCEPT ![u] = @ - shares[u][t]]
    <3>1. \A v \in Users : shares'[v][t] = IF v = u THEN shares[u][t] - shares[u][t] ELSE shares[v][t]
      BY <1>1, <2>1, <2>2
    <3>. QED
      BY <3>1 DEF Column
  <2>. QED
    BY <2>1, <2>3, <2>4
<1>5. ASSUME NEW u \in Users, NEW t \in Tranches, NEW k \in Nat, k <= shares[u][t],
             shares' = [shares EXCEPT ![u][t] = @ - k], supply' = [supply EXCEPT ![t] = @ - k]
      PROVE  SharesBacked'
  <2>1. Column(t)[u] = shares[u][t]
    BY DEF Column
  <2>2. Backed([Column(t) EXCEPT ![u] = @ - k], supply[t] - k)
    BY <1>1, <1>5, <2>1, BackedBurn
  <2>3. Column(t)' = [Column(t) EXCEPT ![u] = @ - k] /\ supply'[t] = supply[t] - k
    BY <1>1, <1>5 DEF Column
  <2>4. \A o \in Tranches : o # t => Column(o)' = Column(o) /\ supply'[o] = supply[o]
    BY <1>1, <1>5 DEF Column
  <2>. QED
    BY <1>1, <2>2, <2>3, <2>4 DEF SharesBacked
<1>6. ASSUME NEW u \in Users, NEW t \in Tranches, Claim(u, t)
      PROVE  SharesBacked'
  <2>1. shares[u][t] \in Nat /\ shares[u][t] - shares[u][t] = 0
    BY <1>1
  <2>2. shares' = [shares EXCEPT ![u][t] = @ - shares[u][t]] /\ supply' = [supply EXCEPT ![t] = @ - shares[u][t]]
    BY <1>1, <1>6, <2>1 DEF Claim
  <2>3. shares[u][t] <= shares[u][t]
    BY <2>1
  <2>. QED
    BY <1>5, <2>1, <2>2, <2>3
<1>7. ASSUME NEW u \in Users, NEW t \in Tranches, NEW amount \in Amounts, BurnShares(u, t, amount)
      PROVE  SharesBacked'
  BY <1>5, <1>7 DEF BurnShares
<1>8. ASSUME NEW u \in Users, NEW v \in Users, NEW t \in Tranches, NEW amount \in Amounts,
             TransferShares(u, v, t, amount)
      PROVE  SharesBacked'
  <2>1. /\ u # v /\ amount \in Nat /\ amount <= shares[u][t] /\ supply' = supply
        /\ shares' = [shares EXCEPT ![u][t] = @ - amount, ![v][t] = @ + amount]
    BY <1>1, <1>8 DEF TransferShares
  <2>. DEFINE less == [Column(t) EXCEPT ![u] = @ - amount]
  <2>2. Column(t)[u] = shares[u][t] /\ less \in [Users -> Nat]
    BY <1>1, <2>1 DEF Column
  <2>3. Backed(less, supply[t] - amount)
    BY <1>1, <2>1, <2>2, BackedBurn
  <2>4. Column(t)' = [less EXCEPT ![v] = @ + amount]
    BY <1>1, <2>1 DEF Column
  <2>. HIDE DEF less
  <2>5. Backed([less EXCEPT ![v] = @ + amount], supply[t] - amount + amount)
    BY <2>1, <2>2, <2>3, BackedMint
  <2>6. supply[t] - amount + amount = supply[t]
    BY <1>1, <2>1
  <2>7. \A o \in Tranches : o # t => Column(o)' = Column(o)
    BY <1>1, <2>1 DEF Column
  <2>. QED
    BY <1>1, <2>1, <2>4, <2>5, <2>6, <2>7 DEF SharesBacked
<1>. QED
  BY <1>2, <1>3, <1>4, <1>6, <1>7, <1>8
     DEF Next, SetPaused, SetRiskEntry, InitSeries, Activate, CancelSeries, Settle, SimulateYield, SimulateLoss,
         Donate, Tick, vars, tokenVars

LEMMA SumOfNats ==
    ASSUME NEW a \in Nat, NEW b \in Nat, NEW c \in Nat, NEW d \in Nat
    PROVE  a + b + c + d \in Nat /\ a <= a + b + c + d
  OBVIOUS

(* Steps on the underlying mint: what a wallet loses an account gains.     *)
LEMMA TokensStep ==
    ASSUME TypeOK, TypeOK', TokensBacked, [Next]_vars
    PROVE  TokensBacked'
<1>. USE AmountsAssumption
<1>1. PICK free \in Nat : Backed(wallet, free) /\ free + InAccounts = Issued
  BY DEF TokensBacked
<1>2. /\ wallet \in [Users -> Nat]
      /\ vault \in Nat /\ pool_vault \in Nat /\ reserve \in Nat /\ sink \in Nat
      /\ vault' \in Nat /\ pool_vault' \in Nat /\ reserve' \in Nat /\ sink' \in Nat
  BY DEF TypeOK
<1>2a. InAccounts \in Nat /\ InAccounts' \in Nat
  <2>1. InAccounts \in Nat
    BY <1>2, SumOfNats DEF InAccounts
  <2>2. InAccounts' \in Nat
    BY <1>2, SumOfNats DEF InAccounts
  <2>. QED
    BY <2>1, <2>2
<1>2b. ASSUME NEW n \in Nat, Backed(wallet', n), n + InAccounts' = Issued
      PROVE  TokensBacked'
  BY <1>2b DEF TokensBacked, Issued
<1>3. ASSUME NEW u \in Users, NEW k \in Nat, k <= wallet[u], wallet' = [wallet EXCEPT ![u] = @ - k],
             InAccounts' = InAccounts + k
      PROVE  TokensBacked'
  <2>1. Backed(wallet', free - k)
    BY <1>1, <1>2, <1>3, BackedBurn
  <2>2. free - k \in Nat
    BY <1>1, <1>3, BackedBound
  <2>3. free - k + InAccounts' = Issued
    BY <1>1, <1>2a, <1>3, <2>2
  <2>. QED
    BY <1>2b, <2>1, <2>2, <2>3
<1>4. ASSUME NEW u \in Users, NEW k \in Nat, wallet' = [wallet EXCEPT ![u] = @ + k],
             InAccounts' = InAccounts - k
      PROVE  TokensBacked'
  <2>1. Backed(wallet', free + k)
    BY <1>1, <1>2, <1>4, BackedMint
  <2>2. free + k + InAccounts' = Issued
    BY <1>1, <1>2a, <1>4
  <2>. QED
    BY <1>2b, <2>1, <2>2
<1>5. ASSUME wallet' = wallet,
             InAccounts' = InAccounts
      PROVE  TokensBacked'
  <2>1. free + InAccounts' = Issued
    BY <1>1, <1>2a, <1>5
  <2>. QED
    BY <1>1, <1>5, <1>2b, <2>1
<1>6. ASSUME NEW u \in Users, NEW t \in Tranches, NEW amount \in Amounts, Deposit(u, t, amount)
      PROVE  TokensBacked'
  <2>1. wallet' = [wallet EXCEPT ![u] = @ - amount] /\ amount \in Nat /\ amount <= wallet[u]
    BY <1>2, <1>6 DEF Deposit
  <2>2. InAccounts' = InAccounts + amount
    BY <1>2, <1>6 DEF Deposit, poolVars, InAccounts
  <2>. QED
    BY <1>3, <2>1, <2>2
<1>7. ASSUME NEW u \in Users, NEW amount \in Amounts, Donate(u, amount)
      PROVE  TokensBacked'
  <2>1. wallet' = [wallet EXCEPT ![u] = @ - amount] /\ amount \in Nat /\ amount <= wallet[u]
    BY <1>2, <1>7 DEF Donate
  <2>2. InAccounts' = InAccounts + amount
    <3>1. /\ UNCHANGED <<reserve, sink>>
          /\ \/ vault' = vault + amount /\ pool_vault' = pool_vault
             \/ pool_vault' = pool_vault + amount /\ vault' = vault
      BY <1>7 DEF Donate
    <3>2. CASE vault' = vault + amount /\ pool_vault' = pool_vault
      BY <1>2, <2>1, <3>1, <3>2 DEF InAccounts
    <3>3. CASE pool_vault' = pool_vault + amount /\ vault' = vault
      BY <1>2, <2>1, <3>1, <3>3 DEF InAccounts
    <3>. QED
      BY <3>1, <3>2, <3>3
  <2>. QED
    BY <1>3, <2>1, <2>2
<1>8. ASSUME NEW u \in Users, Refund(u)
      PROVE  TokensBacked'
  <2>. DEFINE k == shares[u]["senior"] + shares[u]["junior"]
  <2>1. k \in Nat
    BY DEF TypeOK, Tranches
  <2>2. wallet' = [wallet EXCEPT ![u] = @ + k] /\ vault' = vault - k /\ UNCHANGED poolVars
    BY <1>8 DEF Refund
  <2>. HIDE DEF k
  <2>3. InAccounts' = InAccounts - k
    BY <1>2, <2>1, <2>2 DEF poolVars, InAccounts
  <2>. QED
    BY <1>4, <2>1, <2>2, <2>3
<1>9. ASSUME NEW u \in Users, NEW t \in Tranches, Claim(u, t)
      PROVE  TokensBacked'
  <2>1. ClaimOf(u, t) \in Nat
    BY <1>9, ClaimBound DEF Claim, ClaimEnabled, ClaimOf, TypeOK
  <2>2. wallet' = [wallet EXCEPT ![u] = @ + ClaimOf(u, t)] /\ vault' = vault - ClaimOf(u, t) /\ UNCHANGED poolVars
    BY <1>9 DEF Claim
  <2>3. InAccounts' = InAccounts - ClaimOf(u, t)
    BY <1>2, <2>1, <2>2 DEF poolVars, InAccounts
  <2>. QED
    BY <1>4, <2>1, <2>2, <2>3
<1>10. CASE Activate \/ Settle
  <2>1. wallet' = wallet /\ UNCHANGED <<reserve, sink>>
    BY <1>10 DEF Activate, Settle, PoolDeposit, PoolWithdrawAll
  <2>2. \/ vault' = vault - vault /\ pool_vault' = pool_vault + vault
        \/ vault' = vault + pool_vault /\ pool_vault' = 0
    BY <1>10 DEF Activate, Settle, PoolDeposit, PoolWithdrawAll
  <2>3. CASE vault' = vault - vault /\ pool_vault' = pool_vault + vault
    BY <1>2, <1>5, <2>1, <2>3 DEF InAccounts
  <2>4. CASE vault' = vault + pool_vault /\ pool_vault' = 0
    BY <1>2, <1>5, <2>1, <2>4 DEF InAccounts
  <2>. QED
    BY <2>2, <2>3, <2>4
<1>11. ASSUME NEW bps \in Moves, SimulateYield(bps) \/ SimulateLoss(bps)
       PROVE  TokensBacked'
  <2>1. BpsOf(pool_vault, bps) # NONE /\ wallet' = wallet /\ vault' = vault
    BY <1>11 DEF SimulateYield, SimulateLoss, tokenVars
  <2>2. BpsOf(pool_vault, bps) \in Nat
    BY <1>2, <2>1, InputsAssumption, BpsOfBound
  <2>3. CASE SimulateYield(bps)
    <3>1. /\ reserve' = reserve - BpsOf(pool_vault, bps) /\ pool_vault' = pool_vault + BpsOf(pool_vault, bps)
          /\ UNCHANGED <<vault, sink>>
      BY <2>3 DEF SimulateYield, tokenVars
    <3>2. InAccounts' = InAccounts
      BY <1>2, <2>2, <3>1 DEF InAccounts
    <3>. QED
      BY <1>5, <2>1, <3>2
  <2>4. CASE SimulateLoss(bps)
    <3>1. /\ pool_vault' = pool_vault - BpsOf(pool_vault, bps) /\ sink' = sink + BpsOf(pool_vault, bps)
          /\ UNCHANGED <<vault, reserve>>
      BY <2>4 DEF SimulateLoss, tokenVars
    <3>2. InAccounts' = InAccounts
      BY <1>2, <2>2, <3>1 DEF InAccounts
    <3>. QED
      BY <1>5, <2>1, <3>2
  <2>. QED
    BY <1>11, <2>3, <2>4
<1>12. CASE UNCHANGED <<wallet, vault, poolVars>>
  BY <1>5, <1>12 DEF poolVars, InAccounts
<1>. QED
  BY <1>6, <1>7, <1>8, <1>9, <1>10, <1>11, <1>12
     DEF Next, SetPaused, SetRiskEntry, InitSeries, CancelSeries, TransferShares, BurnShares, Tick, vars, tokenVars

(* What the token program guarantees holds of every reachable state: no    *)
(* account has more shares than the supply, and every balance is a u64.    *)
THEOREM BalancesAddUp == ASSUME MintFits PROVE Spec => []SplAccounting
<1>1. TypeOK /\ SharesBacked /\ TokensBacked => SplAccounting
  <2>. SUFFICES ASSUME TypeOK, SharesBacked, TokensBacked PROVE SplAccounting
    OBVIOUS
  <2>1. \A u \in Users, t \in Tranches : shares[u][t] <= supply[t]
    <3>. SUFFICES ASSUME NEW u \in Users, NEW t \in Tranches PROVE shares[u][t] <= supply[t]
      OBVIOUS
    <3>1. Backed(Column(t), supply[t]) /\ Column(t)[u] = shares[u][t]
      BY DEF SharesBacked, Column
    <3>. QED
      BY <3>1, BackedBound
  <2>2. vault \in U64
    <3>1. PICK free \in Nat : free + InAccounts = Issued
      BY DEF TokensBacked
    <3>2. vault \in Nat /\ InAccounts \in Nat /\ vault <= InAccounts
      BY DEF TypeOK, InAccounts
    <3>3. vault <= Issued /\ Issued \in Nat
      BY <3>1, <3>2
    <3>. QED
      BY <3>2, <3>3, WidthAssumption DEF MintFits, U64
  <2>. QED
    BY <2>1, <2>2 DEF SplAccounting
<1>. QED
  BY <1>1, InitType, TypeStep, InitBacked, SharesStep, TokensStep, PTL DEF Spec

-----------------------------------------------------------------------------
(* What the books imply. *)

(* After the deposit window exactly one of activate and cancel_series can  *)
(* succeed, except while the maturity would not be a timestamp and the     *)
(* program is not paused.  It takes solvency: the pool rejects a deposit   *)
(* of an empty vault.                                                      *)
THEOREM ResolutionIsUnique == Spec => []ExactlyOneResolution
<1>1. IInv => ExactlyOneResolution
  <2>. SUFFICES ASSUME IInv, status = "Open", now >= params.deposit_deadline
                PROVE  /\ ~(ActivateEnabled /\ CancelEnabled)
                       /\ ActivateEnabled \/ CancelEnabled \/ (~paused /\ ~Representable)
    BY DEF ExactlyOneResolution
  <2>1. CheckActivation => vault > 0
    BY DEF CheckActivation, IInv, TypeOK, Solvent, Tranches
  <2>. QED
    BY <2>1 DEF ActivateEnabled, CancelEnabled, Representable
<1>. QED
  BY <1>1, BooksBalance, PTL

(* With the books in order, claim_* cannot fail for a holder of a settled  *)
(* series.                                                                 *)
LEMMA ClaimCovered ==
    ASSUME IInv, SplAccounting, status = "Settled", NEW u \in Users, NEW t \in Tranches,
           shares[u][t] > 0
    PROVE  ClaimEnabled(u, t)
<1>. DEFINE h == shares[u][t]
            v == (payout[t] * h) \div principal[t]
<1>1. /\ h \in Nat /\ h > 0 /\ h <= supply[t]
      /\ principal[t] \in Nat /\ supply[t] \in Nat /\ payout[t] \in Nat /\ paid[t] \in Nat
      /\ supply[t] <= principal[t] /\ paid[t] <= payout[t]
      /\ paid[t] * principal[t] <= payout[t] * (principal[t] - supply[t])
  BY DEF IInv, TypeOK, SplAccounting, Solvent, Bookkeeping
<1>2. principal[t] > 0
  BY <1>1
<1>3. v \in Nat /\ v * principal[t] <= payout[t] * h
  <2>1. payout[t] * h \in Nat
    BY <1>1
  <2>. QED
    BY <1>1, <1>2, <2>1, DivBounds
<1>. HIDE DEF v
<1>4. paid[t] + v <= payout[t]
  BY <1>1, <1>2, <1>3, ClaimKeepsShareOfPayout
<1>5. vault >= payout[t] - paid[t]
  <2>1. /\ vault + paid["senior"] + paid["junior"] >= payout["senior"] + payout["junior"]
        /\ paid["senior"] <= payout["senior"] /\ paid["junior"] <= payout["junior"]
    BY DEF IInv, Solvent, Bookkeeping, Tranches
  <2>. QED
    BY <2>1 DEF IInv, TypeOK, Tranches
<1>6. v <= vault /\ v \in U64
  BY <1>1, <1>3, <1>4, <1>5, WidthAssumption DEF SplAccounting, U64, IInv, TypeOK
<1>7. ClaimOf(u, t) = v /\ v # NONE
  BY <1>2, <1>3, <1>6 DEF ClaimOf, ClaimAmount, ToU64, NONE, v
<1>. QED
  BY <1>1, <1>6, <1>7 DEF ClaimEnabled

(* With the books in order, refund cannot fail for a holder of a cancelled *)
(* series.                                                                 *)
LEMMA RefundCovered ==
    ASSUME IInv, SplAccounting, status = "Cancelled", NEW u \in Users, shares[u] # Zero
    PROVE  RefundEnabled(u)
<1>1. /\ shares[u]["senior"] \in Nat /\ shares[u]["junior"] \in Nat
      /\ \A t \in Tranches : shares[u][t] <= supply[t]
      /\ supply["senior"] \in Nat /\ supply["junior"] \in Nat
      /\ vault >= supply["senior"] + supply["junior"]
      /\ vault \in Nat /\ vault <= U64_MAX
  BY WidthAssumption DEF IInv, TypeOK, SplAccounting, Solvent, Tranches, U64
<1>2. shares[u]["senior"] > 0 \/ shares[u]["junior"] > 0
  <2>1. shares[u] = [t \in Tranches |-> shares[u][t]]
    BY DEF IInv, TypeOK
  <2>. QED
    BY <1>1, <2>1 DEF Zero, Tranches
<1>3. /\ shares[u]["senior"] + shares[u]["junior"] <= vault
      /\ shares[u]["senior"] + shares[u]["junior"] > 0
  BY <1>1, <1>2 DEF Tranches
<1>4. CheckedAdd(shares[u]["senior"], shares[u]["junior"]) # NONE
  BY <1>1, <1>3, WidthAssumption DEF CheckedAdd, ToU64, U64, NONE
<1>. QED
  BY <1>1, <1>3, <1>4 DEF RefundEnabled

(* Every holder of a settled or cancelled series can get out at once, for  *)
(* any number of holders and any history of claims: claim_* and refund     *)
(* have no check that could fail, whatever was rounded or moved before.    *)
THEOREM ExitAlwaysPossible == ASSUME MintFits PROVE Spec => []HoldersCanExit
<1>1. IInv /\ SplAccounting => HoldersCanExit
  BY ClaimCovered, RefundCovered DEF HoldersCanExit
<1>. QED
  BY <1>1, BooksBalance, BalancesAddUp, PTL

-----------------------------------------------------------------------------
(* Settlement. *)

\* All principal was tokens.
WithinTheMint ==
    status # "None" =>
        /\ params.term_secs > 0
        /\ principal["senior"] + principal["junior"] <= Issued

LEMMA WithinTheMintStep ==
    ASSUME IInv, IInv', TokensBacked', WithinTheMint, [Next]_vars
    PROVE  WithinTheMint'
<1>1. CASE UNCHANGED <<status, params, principal>>
  BY <1>1 DEF WithinTheMint, Issued
<1>2. ASSUME status' = "Open", params'.term_secs > 0 PROVE WithinTheMint'
  <2>1. PICK free \in Nat : free + InAccounts' = Issued
    BY DEF TokensBacked, Issued
  <2>2. /\ vault' \in Nat /\ pool_vault' \in Nat /\ reserve' \in Nat /\ sink' \in Nat
        /\ principal'["senior"] \in Nat /\ principal'["junior"] \in Nat
        /\ vault' >= principal'["senior"] + principal'["junior"]
    BY <1>2 DEF IInv, TypeOK, Solvent, Tranches
  <2>3. InAccounts' \in Nat /\ vault' <= InAccounts'
    BY <2>2, SumOfNats DEF InAccounts
  <2>4. vault' <= Issued
    BY <2>1, <2>2, <2>3
  <2>5. principal'["senior"] + principal'["junior"] <= Issued
    BY <2>1, <2>2, <2>3, <2>4
  <2>. QED
    BY <1>2, <2>5 DEF WithinTheMint, Issued
<1>3. ASSUME NEW p \in SeriesParams, InitSeries(p) PROVE WithinTheMint'
  BY <1>2, <1>3 DEF InitSeries, ParamsValid
<1>4. ASSUME NEW u \in Users, NEW t \in Tranches, NEW amount \in Amounts, Deposit(u, t, amount)
      PROVE  WithinTheMint'
  BY <1>2, <1>4 DEF Deposit, WithinTheMint
<1>5. CASE Activate \/ CancelSeries \/ Settle
  BY <1>5 DEF Activate, ActivateEnabled, CancelSeries, CancelEnabled, Settle, WithinTheMint, Issued
<1>. QED
  BY <1>1, <1>3, <1>4, <1>5
     DEF Next, SetPaused, SetRiskEntry, Refund, Claim, SimulateYield, SimulateLoss, Donate,
         TransferShares, BurnShares, Tick, vars, seriesVars

(* Whatever was deposited, sent, gained and lost, and for every series     *)
(* init_series accepts: settle of an active series fails for what senior   *)
(* is owed only if it would fail with all tokens there are as principal.   *)
(* init_series bounds no term, so such a series can exist; one whose terms *)
(* fit the mint cannot be stuck with its funds in the pool.                *)
THEOREM OnlyTermsOverflow == ASSUME MintFits PROVE Spec => []StuckOnlyByTerms
<1>1. IInv /\ WithinTheMint => StuckOnlyByTerms
  <2>. SUFFICES ASSUME IInv, WithinTheMint, status = "Active", TermsFit
                PROVE  Owed # NONE
    BY DEF StuckOnlyByTerms
  <2>1. params.term_secs > 0 /\ principal["senior"] + principal["junior"] <= Issued
    BY DEF WithinTheMint
  <2>2. /\ params.rate_bps \in Nat /\ params.term_secs \in Nat
        /\ principal["senior"] \in Nat /\ principal["junior"] \in Nat
    BY <2>1 DEF IInv, TypeOK, Params, Tranches
  <2>3. Issued \in Nat /\ principal["senior"] <= Issued
    <3>1. Cardinality(Users) \in Nat
      BY FS_CardinalityType DEF MintFits
    <3>2. Issued \in Nat
      BY <3>1, AmountsAssumption DEF Issued
    <3>. QED
      BY <2>1, <2>2, <3>2
  <2>. QED
    BY <2>2, <2>3, OwedMonotone DEF Owed, TermsFit
<1>2. Init => WithinTheMint
  BY DEF Init, WithinTheMint
<1>. QED
  BY <1>1, <1>2, BooksBalance, InitType, TypeStep, InitBacked, TokensStep, WithinTheMintStep, PTL DEF Spec

-----------------------------------------------------------------------------
(* Where vault funds go. *)

(* What a refund takes out of the vault goes to the holder whose shares it *)
(* burns.                                                                  *)
LEMMA RefundPaysHolder ==
    ASSUME TypeOK, NEW u \in Users, Refund(u)
    PROVE  VaultFallsOnlyToHolders
<1>1. /\ status = "Cancelled"
      /\ \A t \in Tranches : supply[t] - supply'[t] = shares[u][t]
      /\ vault - vault' = shares[u]["senior"] + shares[u]["junior"]
      /\ wallet'[u] = wallet[u] + (vault - vault')
  BY DEF Refund, RefundEnabled, TypeOK, Tranches
<1>. QED
  BY <1>1 DEF VaultFallsOnlyToHolders, Tranches

(* What a claim takes out of the vault goes to its holder and is within    *)
(* their part of the payout.                                               *)
LEMMA ClaimPaysHolder ==
    ASSUME TypeOK, NEW u \in Users, NEW t \in Tranches, Claim(u, t)
    PROVE  VaultFallsOnlyToHolders
<1>. DEFINE c == ClaimOf(u, t)
            h == shares[u][t]
<1>1. c \in Nat /\ c * principal[t] <= payout[t] * h
  BY ClaimBound DEF Claim, ClaimEnabled, ClaimOf, TypeOK
<1>2. /\ status = "Settled"
      /\ supply[t] - supply'[t] = h
      /\ shares'[u][t] = h - (supply[t] - supply'[t])
      /\ vault - vault' = c
      /\ wallet'[u] = wallet[u] + c
  BY <1>1 DEF Claim, ClaimEnabled, TypeOK
<1>. HIDE DEF c, h
<1>3. (vault - vault') * principal[t] <= payout[t] * (supply[t] - supply'[t])
  BY <1>1, <1>2
<1>. QED
  BY <1>2, <1>3 DEF VaultFallsOnlyToHolders, h

(* No instruction of anyone takes tokens out of the vault but activation,  *)
(* into the series' own pool, and the exit of a share holder.              *)
THEOREM OnlyHoldersArePaid == Spec => NoAdminPath
<1>1. TypeOK /\ [Next]_vars => [VaultFallsOnlyToHolders]_vars
  <2>. SUFFICES ASSUME TypeOK, [Next]_vars PROVE [VaultFallsOnlyToHolders]_vars
    OBVIOUS
  <2>. USE DEF adminVars, seriesVars, tokenVars, poolVars
  <2>1. ASSUME vault' >= vault, vault' \in Int PROVE VaultFallsOnlyToHolders
    BY <2>1 DEF VaultFallsOnlyToHolders, TypeOK
  <2>2. ASSUME NEW u \in Users, NEW t \in Tranches, NEW amount \in Amounts,
               Deposit(u, t, amount)
        PROVE  VaultFallsOnlyToHolders
    BY <2>1, <2>2, AmountsAssumption DEF Deposit, TypeOK
  <2>3. ASSUME NEW u \in Users, NEW amount \in Amounts, Donate(u, amount)
        PROVE  VaultFallsOnlyToHolders
    BY <2>1, <2>3, AmountsAssumption DEF Donate, TypeOK
  <2>4. ASSUME Settle PROVE VaultFallsOnlyToHolders
    BY <2>1, <2>4 DEF Settle, PoolWithdrawAll, TypeOK
  <2>5. ASSUME Activate PROVE VaultFallsOnlyToHolders
    BY <2>5 DEF Activate, PoolDeposit, ActivateEnabled, VaultFallsOnlyToHolders, TypeOK
  <2>6. ASSUME vault' = vault PROVE VaultFallsOnlyToHolders
    BY <2>1, <2>6 DEF TypeOK
  <2>7. ASSUME NEW p \in BOOLEAN, SetPaused(p) PROVE vault' = vault
    BY <2>7 DEF SetPaused
  <2>8. ASSUME NEW score \in Scores, NEW ttl \in RiskTtls, SetRiskEntry(score, now + ttl)
        PROVE  vault' = vault
    BY <2>8 DEF SetRiskEntry
  <2>9. ASSUME NEW p \in SeriesParams, InitSeries(p) PROVE vault' = vault
    BY <2>9 DEF InitSeries
  <2>10. ASSUME NEW bps \in Moves, SimulateYield(bps) \/ SimulateLoss(bps) PROVE vault' = vault
    BY <2>10 DEF SimulateYield, SimulateLoss
  <2>11. ASSUME NEW u \in Users, NEW v \in Users, NEW t \in Tranches, NEW amount \in Amounts,
                TransferShares(u, v, t, amount) \/ BurnShares(u, t, amount)
         PROVE  vault' = vault
    BY <2>11 DEF TransferShares, BurnShares
  <2>12. ASSUME CancelSeries \/ Tick PROVE vault' = vault
    BY <2>12 DEF CancelSeries, Tick
  <2>. QED
    BY <2>2, <2>3, <2>4, <2>5, <2>6, <2>7, <2>8, <2>9, <2>10, <2>11, <2>12,
       RefundPaysHolder, ClaimPaysHolder DEF Next
<1>. QED
  BY <1>1, TypeCorrect, PTL DEF Spec, NoAdminPath

-----------------------------------------------------------------------------
(* The contract with depositors. *)

(* Senior is owed at least its principal: interest is never negative.      *)
LEMMA OwedCoversPrincipal ==
    ASSUME TypeOK, Owed # NONE
    PROVE  Owed >= principal["senior"]
<1>. DEFINE p == principal["senior"]
            d == BPS * SECS_PER_YEAR
            x == p * params.rate_bps * params.term_secs
<1>1. /\ p \in Nat /\ params.rate_bps \in Nat /\ params.term_secs \in Nat
      /\ Owed = p + x \div d
  BY WidthAssumption DEF TypeOK, Params, Tranches, Owed, SeniorOwed, ToU64, U64, NONE
<1>2. x \in Nat
  <2>1. p * params.rate_bps \in Nat
    BY <1>1
  <2>. QED
    BY <1>1, <2>1
<1>3. d \in Nat /\ d > 0
  BY BpsAssumption, YearAssumption
<1>. HIDE DEF x, d
<1>4. x \div d \in Nat
  BY <1>2, <1>3, DivBounds
<1>. QED
  BY <1>1, <1>4

(* Every instruction is a step of the contract or invisible to it.         *)
LEMMA ContractStep ==
    ASSUME IInv, IInv', [Next]_vars
    PROVE  [Contract!Next]_(Contract!vars)
<1>. USE DEF IInv, adminVars, seriesVars, tokenVars, poolVars
<1>1. ASSUME NEW p \in SeriesParams, InitSeries(p) PROVE Contract!Offer
  BY <1>1 DEF InitSeries, Contract!Offer, Bookkeeping
<1>2. ASSUME NEW u \in Users, NEW t \in Tranches, NEW amount \in Amounts, Deposit(u, t, amount)
      PROVE  Contract!Invest
  <2>1. /\ amount \in Nat /\ amount > 0 /\ status = "Open" /\ status' = "Open"
        /\ principal' = [principal EXCEPT ![t] = @ + amount]
        /\ payout' = payout /\ paid' = paid
    BY <1>2, AmountsAssumption DEF Deposit
  <2>2. principal'[t] > principal[t] /\ \A k \in Tranches \ {t} : principal'[k] = principal[k]
    BY <2>1 DEF TypeOK
  <2>. QED
    BY <2>1, <2>2 DEF Contract!Invest, TypeOK
<1>3. ASSUME Activate PROVE Contract!Start
  BY <1>3 DEF Activate, PoolDeposit, ActivateEnabled, CheckActivation, Contract!Start, TypeOK, Tranches
<1>4. ASSUME CancelSeries PROVE Contract!Void
  BY <1>4 DEF CancelSeries, CancelEnabled, Contract!Void
<1>5. ASSUME Settle PROVE Contract!Mature
  <2>1. /\ status = "Active" /\ status' = "Settled" /\ principal' = principal /\ paid' = paid
        /\ Owed \in Nat /\ vault + pool_vault \in Nat
        /\ payout'["senior"] = SeniorPayout(vault + pool_vault, Owed)
        /\ payout'["junior"] = JuniorPayout(vault + pool_vault, Owed)
    BY <1>5, OwedType DEF Settle, PoolWithdrawAll, TypeOK, Tranches
  <2>2. payout'["junior"] > 0 => payout'["senior"] >= principal["senior"]
    BY <2>1, <1>5, OwedCoversPrincipal DEF Settle, PoolWithdrawAll, SeniorPayout, JuniorPayout, TypeOK, Tranches
  <2>. QED
    BY <2>1, <2>2 DEF Contract!Mature, TypeOK
<1>6. ASSUME NEW u \in Users, Refund(u) PROVE Contract!Pay
  <2>1. /\ status = "Cancelled" /\ status' = "Cancelled" /\ principal' = principal
        /\ \A t \in Tranches : paid'[t] = paid[t] + shares[u][t] /\ shares[u][t] \in Nat
    BY <1>6 DEF Refund, RefundEnabled, TypeOK
  <2>2. \A t \in Tranches : /\ paid[t] <= paid'[t] /\ paid'[t] <= principal[t]
                            /\ paid[t] \in Nat
    BY <2>1 DEF Bookkeeping, TypeOK
  <2>. QED
    BY <2>1, <2>2 DEF Contract!Pay, TypeOK
<1>7. ASSUME NEW u \in Users, NEW t \in Tranches, Claim(u, t) PROVE Contract!Pay
  <2>1. /\ status = "Settled" /\ status' = "Settled" /\ principal' = principal
        /\ payout' = payout /\ paid' = [paid EXCEPT ![t] = @ + ClaimOf(u, t)]
        /\ ClaimOf(u, t) \in Nat
    BY <1>7, ClaimBound DEF Claim, ClaimEnabled, ClaimOf, TypeOK
  <2>2. \A k \in Tranches : paid[k] <= paid'[k] /\ paid'[k] <= payout[k]
    BY <2>1 DEF Bookkeeping, TypeOK
  <2>. QED
    BY <2>1, <2>2 DEF Contract!Pay, TypeOK
<1>8. ASSUME UNCHANGED seriesVars, paid' = paid PROVE UNCHANGED Contract!vars
  BY <1>8 DEF Contract!vars
<1>9. ASSUME NEW p \in BOOLEAN, SetPaused(p) PROVE UNCHANGED Contract!vars
  BY <1>8, <1>9 DEF SetPaused
<1>10. ASSUME NEW score \in Scores, NEW ttl \in RiskTtls, SetRiskEntry(score, now + ttl)
       PROVE  UNCHANGED Contract!vars
  BY <1>8, <1>10 DEF SetRiskEntry
<1>11. ASSUME NEW bps \in Moves, SimulateYield(bps) \/ SimulateLoss(bps)
       PROVE  UNCHANGED Contract!vars
  BY <1>8, <1>11 DEF SimulateYield, SimulateLoss
<1>12. ASSUME NEW u \in Users, NEW amount \in Amounts, Donate(u, amount)
       PROVE  UNCHANGED Contract!vars
  BY <1>8, <1>12 DEF Donate
<1>13. ASSUME NEW u \in Users, NEW v \in Users, NEW t \in Tranches, NEW amount \in Amounts,
              TransferShares(u, v, t, amount) \/ BurnShares(u, t, amount)
       PROVE  UNCHANGED Contract!vars
  BY <1>8, <1>13 DEF TransferShares, BurnShares
<1>14. ASSUME Tick \/ UNCHANGED vars PROVE UNCHANGED Contract!vars
  BY <1>8, <1>14 DEF Tick, vars
<1>. QED
  BY <1>1, <1>2, <1>3, <1>4, <1>5, <1>6, <1>7, <1>9, <1>10, <1>11, <1>12, <1>13, <1>14
     DEF Next, Contract!Next

(* The vault implements what TrancheContract promises depositors.          *)
THEOREM ContractImplemented == Spec => ImplementsContract
<1>1. Init => Contract!Init
  BY DEF Init, Contract!Init, Zero, Contract!Zero
<1>2. IInv /\ IInv' /\ [Next]_vars => [Contract!Next]_(Contract!vars)
  BY ContractStep
<1>. QED
  BY <1>1, <1>2, BooksBalance, PTL DEF Spec, Contract!Spec, ImplementsContract

=============================================================================
