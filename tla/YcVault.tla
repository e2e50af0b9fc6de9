------------------------------ MODULE YcVault ------------------------------
(***************************************************************************)
(* One series of the yc_vault program (programs/yc_vault) with the         *)
(* accounts its instructions touch: the program's Config and RiskEntry,    *)
(* the mock_yield pool bound to the series (programs/mock_yield), the      *)
(* series vault, the two share mints and the users' token accounts.        *)
(*                                                                         *)
(* A Solana transaction is atomic and its instruction either commits or    *)
(* leaves no trace, so each instruction is one action whose guard is the   *)
(* conjunction of the handler's require!s, of the CPIs' own checks and of  *)
(* the checked arithmetic.  Interleaving is that of whole transactions, of *)
(* any signer, with the clock and with the token program, which lets any   *)
(* holder move or burn shares and lets anyone send tokens to a vault.      *)
(*                                                                         *)
(* MAX_TIME bounds the clock, the only counter that has no bound of its    *)
(* own: tokens are only moved.                                             *)
(***************************************************************************)
EXTENDS Waterfall, FiniteSets

CONSTANTS
    Users,          \* owners of token accounts
    InitialWallet,  \* underlying tokens each user starts with
    InitialReserve, \* tokens in the pool's reserve account
    Amounts,        \* amounts users deposit or send
    SeriesParams,   \* the arguments an administrator may pass to init_series
    Scores,         \* scores the risk authority may publish
    RiskTtls,       \* seconds an entry is published to be valid for
    Moves,          \* bps arguments of simulate_yield and simulate_loss
    I64_MAX,        \* largest timestamp
    MAX_TIME        \* bound on the clock

ASSUME AmountsAssumption ==
    Amounts \subseteq Nat /\ InitialWallet \in Nat /\ InitialReserve \in Nat
ASSUME InputsAssumption ==
    Scores \subseteq Nat /\ RiskTtls \subseteq Int /\ Moves \subseteq Nat
ASSUME ParamsAssumption ==
    SeriesParams \subseteq [rate_bps : Nat, term_secs : Int, deposit_deadline : Int,
                            min_junior_bps : Nat, min_risk_score : Nat]
ASSUME TimeAssumption == MAX_TIME \in Nat /\ I64_MAX \in Nat

VARIABLES
    now,            \* Clock::get()?.unix_timestamp
    paused,         \* Config.paused
    risk,           \* RiskEntry: score and expires_at
    params,         \* the fields of Series that init_series fixes
    status,         \* Series.status, "None" until the account exists
    principal,      \* Series.senior_principal and junior_principal
    payout,         \* Series.senior_payout and junior_payout
    maturity_ts,    \* Series.maturity_ts
    vault,          \* balance of the series vault
    supply,         \* supply of the two share mints
    shares,         \* share balances of the users
    wallet,         \* underlying balances of the users
    pool_vault,     \* balance of the mock pool
    reserve,        \* balance of its reserve
    sink,           \* balance of its sink
    paid            \* tokens the Claimed and Refunded events report, by tranche

adminVars  == <<paused, risk>>
seriesVars == <<params, status, principal, payout, maturity_ts>>
tokenVars  == <<vault, supply, shares, wallet, paid>>
poolVars   == <<pool_vault, reserve, sink>>
vars == <<now, adminVars, seriesVars, tokenVars, poolVars>>

Tranches == {"senior", "junior"}
Statuses == {"None", "Open", "Active", "Settled", "Cancelled"}
Params == [rate_bps : Nat, term_secs : Int, deposit_deadline : Int,
           min_junior_bps : Nat, min_risk_score : Nat]
NoParams == [rate_bps |-> 0, term_secs |-> 0, deposit_deadline |-> 0,
             min_junior_bps |-> 0, min_risk_score |-> 0]
NoRisk == [score |-> 0, expires_at |-> 0]
Zero == [t \in Tranches |-> 0]

TypeOK ==
    /\ now \in Nat
    /\ paused \in BOOLEAN
    /\ risk \in [score : Nat, expires_at : Int]
    /\ params \in Params
    /\ status \in Statuses
    /\ principal \in [Tranches -> Nat]
    /\ payout \in [Tranches -> Nat]
    /\ maturity_ts \in Int
    /\ vault \in Nat
    /\ supply \in [Tranches -> Nat]
    /\ shares \in [Users -> [Tranches -> Nat]]
    /\ wallet \in [Users -> Nat]
    /\ pool_vault \in Nat /\ reserve \in Nat /\ sink \in Nat
    /\ paid \in [Tranches -> Nat]

\* The programs are deployed, init_config has run, the pool and the token
\* accounts exist and are empty; no risk entry and no series yet.
Init ==
    /\ now = 0
    /\ paused = FALSE
    /\ risk = NoRisk
    /\ params = NoParams
    /\ status = "None"
    /\ principal = Zero /\ payout = Zero /\ paid = Zero /\ supply = Zero
    /\ maturity_ts = 0
    /\ vault = 0
    /\ shares = [u \in Users |-> Zero]
    /\ wallet = [u \in Users |-> InitialWallet]
    /\ pool_vault = 0 /\ reserve = InitialReserve /\ sink = 0

-----------------------------------------------------------------------------
(* The administrator and the risk authority. *)

SetPaused(p) ==
    /\ paused' = p
    /\ UNCHANGED <<now, risk, seriesVars, tokenVars, poolVars>>

SetRiskEntry(score, expires_at) ==
    /\ score <= 100
    /\ expires_at > now /\ expires_at <= I64_MAX    \* it is an i64
    /\ risk' = [score |-> score, expires_at |-> expires_at]
    /\ UNCHANGED <<now, paused, seriesVars, tokenVars, poolVars>>

\* 500..=5000 of 10_000 basis points.
MinJuniorAllowed(bps) == 20 * bps >= BPS /\ 2 * bps <= BPS

ParamsValid(p) ==
    /\ 2 * p.rate_bps <= BPS
    /\ p.term_secs > 0
    /\ MinJuniorAllowed(p.min_junior_bps)
    /\ p.min_risk_score <= 100
    /\ p.deposit_deadline > now

InitSeries(p) ==
    /\ status = "None"
    /\ risk # NoRisk
    /\ ParamsValid(p)
    /\ params' = p
    /\ status' = "Open"
    /\ principal' = Zero /\ payout' = Zero
    /\ maturity_ts' = 0
    /\ UNCHANGED <<now, adminVars, tokenVars, poolVars>>

-----------------------------------------------------------------------------
(* Depositors.  CapacityOnJunior, ClaimOfSupply and, below, CancelUnpaused *)
(* are slips the properties must catch.                                    *)

CapacityOnJunior(t, new) ==
    t = "junior" => JuniorRatioOk(new["senior"], new["junior"], params.min_junior_bps)

ClaimOfSupply(u, t) == ClaimAmount(payout[t], shares[u][t], supply[t])

\* The capacity rule is checked on senior deposits only.
CapacityOk(t, new) ==
    t = "senior" => JuniorRatioOk(new["senior"], new["junior"], params.min_junior_bps)

Deposit(u, t, amount) ==
    LET new == [principal EXCEPT ![t] = @ + amount] IN
    /\ amount > 0
    /\ ~paused
    /\ status = "Open"
    /\ now < params.deposit_deadline
    /\ CheckedAdd(principal[t], amount) # NONE
    /\ CapacityOk(t, new)
    /\ wallet[u] >= amount
    /\ wallet' = [wallet EXCEPT ![u] = @ - amount]
    /\ vault' = vault + amount
    /\ shares' = [shares EXCEPT ![u][t] = @ + amount]
    /\ supply' = [supply EXCEPT ![t] = @ + amount]
    /\ principal' = new
    /\ UNCHANGED <<now, adminVars, params, status, payout, maturity_ts, poolVars, paid>>

\* All shares of both tranches, 1:1; Config is not an account of this one.
RefundEnabled(u) ==
    /\ status = "Cancelled"
    /\ CheckedAdd(shares[u]["senior"], shares[u]["junior"]) # NONE
    /\ shares[u]["senior"] + shares[u]["junior"] > 0
    /\ \A t \in Tranches : shares[u][t] <= supply[t]
    /\ vault >= shares[u]["senior"] + shares[u]["junior"]

Refund(u) ==
    LET amount == shares[u]["senior"] + shares[u]["junior"] IN
    /\ RefundEnabled(u)
    /\ supply' = [t \in Tranches |-> supply[t] - shares[u][t]]
    /\ paid' = [t \in Tranches |-> paid[t] + shares[u][t]]
    /\ shares' = [shares EXCEPT ![u] = Zero]
    /\ vault' = vault - amount
    /\ wallet' = [wallet EXCEPT ![u] = @ + amount]
    /\ UNCHANGED <<now, adminVars, seriesVars, poolVars>>

\* The denominator is the original principal, not the shrinking supply.
ClaimOf(u, t) == ClaimAmount(payout[t], shares[u][t], principal[t])

ClaimEnabled(u, t) ==
    /\ status = "Settled"
    /\ shares[u][t] > 0
    /\ ClaimOf(u, t) # NONE
    /\ shares[u][t] <= supply[t]
    /\ vault >= ClaimOf(u, t)

Claim(u, t) ==
    /\ ClaimEnabled(u, t)
    /\ supply' = [supply EXCEPT ![t] = @ - shares[u][t]]
    /\ shares' = [shares EXCEPT ![u][t] = 0]
    /\ vault' = vault - ClaimOf(u, t)
    /\ wallet' = [wallet EXCEPT ![u] = @ + ClaimOf(u, t)]
    /\ paid' = [paid EXCEPT ![t] = @ + ClaimOf(u, t)]
    /\ UNCHANGED <<now, adminVars, seriesVars, poolVars>>

-----------------------------------------------------------------------------
(* The lifecycle, open to any caller. *)

\* Series::check_activation, shared by activate and cancel_series.
CheckActivation ==
    /\ CheckedAdd(principal["senior"], principal["junior"]) # NONE
    /\ principal["senior"] + principal["junior"] > 0
    /\ JuniorRatioOk(principal["senior"], principal["junior"], params.min_junior_bps)
    /\ now < risk.expires_at
    /\ risk.score >= params.min_risk_score

\* The instructions of the pool that only the vault may call: everything the vault
\* holds goes in, everything the pool holds comes back.
PoolDeposit(amount) ==
    /\ amount > 0
    /\ vault' = vault - amount
    /\ pool_vault' = pool_vault + amount
    /\ UNCHANGED <<reserve, sink>>

PoolWithdrawAll ==
    /\ vault' = vault + pool_vault
    /\ pool_vault' = 0
    /\ UNCHANGED <<reserve, sink>>

\* vault > 0 is the guard of PoolDeposit, the last conjunct the
\* checked_add of the maturity.
ActivateEnabled ==
    /\ ~paused
    /\ status = "Open"
    /\ now >= params.deposit_deadline
    /\ CheckActivation
    /\ vault > 0
    /\ now + params.term_secs <= I64_MAX

Activate ==
    /\ ActivateEnabled
    /\ PoolDeposit(vault)
    /\ maturity_ts' = now + params.term_secs
    /\ status' = "Active"
    /\ UNCHANGED <<now, adminVars, params, principal, payout, supply, shares, wallet, paid>>

CancelUnpaused ==
    /\ status = "Open"
    /\ now >= params.deposit_deadline
    /\ ~CheckActivation

CancelEnabled ==
    /\ status = "Open"
    /\ now >= params.deposit_deadline
    /\ paused \/ ~CheckActivation

CancelSeries ==
    /\ CancelEnabled
    /\ status' = "Cancelled"
    /\ UNCHANGED <<now, adminVars, params, principal, payout, maturity_ts, tokenVars, poolVars>>

Owed == SeniorOwed(principal["senior"], params.rate_bps, params.term_secs)

\* Everything the pool holds comes back; payouts are fixed once.
Settle ==
    LET assets == vault + pool_vault IN
    /\ status = "Active"
    /\ now >= maturity_ts
    /\ PoolWithdrawAll
    /\ Owed # NONE
    /\ payout' = [t \in Tranches |-> IF t = "senior" THEN SeniorPayout(assets, Owed)
                                                     ELSE JuniorPayout(assets, Owed)]
    /\ status' = "Settled"
    /\ UNCHANGED <<now, adminVars, params, principal, maturity_ts, supply, shares, wallet, paid>>

-----------------------------------------------------------------------------
(* The mock pool's administrator, the token program and the clock. *)

SimulateYield(bps) ==
    LET amount == BpsOf(pool_vault, bps) IN
    /\ amount # NONE
    /\ reserve >= amount
    /\ reserve' = reserve - amount
    /\ pool_vault' = pool_vault + amount
    /\ UNCHANGED <<now, adminVars, seriesVars, tokenVars, sink>>

SimulateLoss(bps) ==
    LET amount == BpsOf(pool_vault, bps) IN
    /\ amount # NONE
    /\ pool_vault' = pool_vault - amount
    /\ sink' = sink + amount
    /\ UNCHANGED <<now, adminVars, seriesVars, tokenVars, reserve>>

\* A plain SPL transfer of underlying into the series vault or the pool.
Donate(u, amount) ==
    /\ amount > 0
    /\ wallet[u] >= amount
    /\ wallet' = [wallet EXCEPT ![u] = @ - amount]
    /\ \/ status # "None" /\ vault' = vault + amount /\ pool_vault' = pool_vault
       \/ pool_vault' = pool_vault + amount /\ vault' = vault
    /\ UNCHANGED <<now, adminVars, seriesVars, supply, shares, paid, reserve, sink>>

\* A plain SPL transfer of shares between two users.
TransferShares(u, v, t, amount) ==
    /\ u # v
    /\ amount > 0
    /\ shares[u][t] >= amount
    /\ shares' = [shares EXCEPT ![u][t] = @ - amount, ![v][t] = @ + amount]
    /\ UNCHANGED <<now, adminVars, seriesVars, vault, supply, wallet, paid, poolVars>>

\* A plain SPL burn by the holder: shares are gone and nothing is paid.
BurnShares(u, t, amount) ==
    /\ amount > 0
    /\ shares[u][t] >= amount
    /\ supply[t] >= amount
    /\ shares' = [shares EXCEPT ![u][t] = @ - amount]
    /\ supply' = [supply EXCEPT ![t] = @ - amount]
    /\ UNCHANGED <<now, adminVars, seriesVars, vault, wallet, paid, poolVars>>

Tick ==
    /\ now < MAX_TIME
    /\ now' = now + 1
    /\ UNCHANGED <<adminVars, seriesVars, tokenVars, poolVars>>

-----------------------------------------------------------------------------

Next ==
    \/ \E p \in BOOLEAN : SetPaused(p)
    \/ \E score \in Scores, ttl \in RiskTtls : SetRiskEntry(score, now + ttl)
    \/ \E p \in SeriesParams : InitSeries(p)
    \/ \E u \in Users, t \in Tranches, amount \in Amounts : Deposit(u, t, amount)
    \/ Activate
    \/ CancelSeries
    \/ Settle
    \/ \E u \in Users : Refund(u)
    \/ \E u \in Users, t \in Tranches : Claim(u, t)
    \/ \E bps \in Moves : SimulateYield(bps)
    \/ \E bps \in Moves : SimulateLoss(bps)
    \/ \E u \in Users, amount \in Amounts : Donate(u, amount)
    \/ \E u, v \in Users, t \in Tranches, amount \in Amounts : TransferShares(u, v, t, amount)
    \/ \E u \in Users, t \in Tranches, amount \in Amounts : BurnShares(u, t, amount)
    \/ Tick

Spec == Init /\ [][Next]_vars

\* Time passes and the keeper calls settle every 30 seconds until it lands.  No
\* service calls activate or cancel_series: nothing is assumed of them.
Fairness ==
    /\ WF_vars(Tick)
    /\ WF_vars(Settle)

FairSpec == Spec /\ Fairness

-----------------------------------------------------------------------------
(* Properties. *)

(* The capacity rule holds at all times, although deposit_junior does not  *)
(* check it: the principals of an existing series always satisfy           *)
(* junior_ratio_ok, so senior money never goes in without its buffer.      *)
JuniorBuffer ==
    status # "None" =>
        JuniorRatioOk(principal["senior"], principal["junior"], params.min_junior_bps)

(* The vault can always pay what is outstanding.  Open: it holds all       *)
(* principal.  Cancelled: one token per outstanding share.  Settled: both  *)
(* payouts less what was paid, and no tranche was paid more than the part  *)
(* of its payout that the burned shares stand for.                         *)
Solvent ==
    /\ status = "Open" => vault >= principal["senior"] + principal["junior"]
    /\ status = "Cancelled" => vault >= supply["senior"] + supply["junior"]
    /\ status = "Settled" =>
        /\ vault + paid["senior"] + paid["junior"] >= payout["senior"] + payout["junior"]
        /\ \A t \in Tranches :
             paid[t] * principal[t] <= payout[t] * (principal[t] - supply[t])

(* What the books say of each phase; with the properties above and the     *)
(* type invariant it is inductive.                                         *)
Bookkeeping ==
    /\ status = "None" => principal = Zero
    /\ status # "None" => MinJuniorAllowed(params.min_junior_bps)
    /\ status # "Settled" => payout = Zero
    /\ status \notin {"Settled", "Cancelled"} => paid = Zero
    /\ \A t \in Tranches : supply[t] <= principal[t]
    /\ status = "Cancelled" => \A t \in Tranches : paid[t] + supply[t] <= principal[t]
    /\ status = "Settled" => \A t \in Tranches : paid[t] <= payout[t]

IInv == TypeOK /\ JuniorBuffer /\ Solvent /\ Bookkeeping

(* What the token program guarantees of any mint: balances are u64 and no  *)
(* account holds more than the supply; YcVaultProofs derives it from what  *)
(* the instructions do.                                                    *)
SplAccounting ==
    /\ vault \in U64
    /\ \A u \in Users, t \in Tranches : shares[u][t] <= supply[t]

(* Whoever holds shares of a settled or cancelled series can get out in    *)
(* one transaction, in any order of claims, after any transfers and burns, *)
(* paused or not: no earlier claim, rounding or donation makes claim_* or  *)
(* refund fail.                                                            *)
HoldersCanExit ==
    \A u \in Users :
        /\ status = "Settled" => \A t \in Tranches : shares[u][t] > 0 => ClaimEnabled(u, t)
        /\ status = "Cancelled" /\ shares[u] # Zero => RefundEnabled(u)

(* No path for anyone, the administrator included, to move vault funds:    *)
(* the vault's balance falls only when all of it goes to the pool on       *)
(* activation, or by what one user receives while burning shares, at most  *)
(* their part of the tranche payouts (of the principal, if cancelled).     *)
VaultFallsOnlyToHolders ==
    LET burned(t) == supply[t] - supply'[t]
        out == vault - vault'
        deployed == status = "Open" /\ status' = "Active" /\ vault' = 0
                        /\ pool_vault' = pool_vault + vault
        refunded(u) == status = "Cancelled" /\ out = burned("senior") + burned("junior")
                        /\ wallet'[u] = wallet[u] + out
        claimed(u, t) == status = "Settled" /\ out * principal[t] <= payout[t] * burned(t)
                        /\ shares'[u][t] = shares[u][t] - burned(t)
                        /\ wallet'[u] = wallet[u] + out
    IN  vault' < vault =>
            \/ deployed
            \/ \E u \in Users : refunded(u)
            \/ \E u \in Users, t \in Tranches : claimed(u, t)

NoAdminPath == [][VaultFallsOnlyToHolders]_vars

Representable == now + params.term_secs <= I64_MAX

(* Once the deposit window is over exactly one of activate and             *)
(* cancel_series can succeed: a series is neither stuck nor decided by     *)
(* whichever caller comes first.  The exception: while its maturity would  *)
(* not be a timestamp and nobody pauses the program, it may be neither.    *)
ExactlyOneResolution ==
    status = "Open" /\ now >= params.deposit_deadline =>
        /\ ~(ActivateEnabled /\ CancelEnabled)
        /\ ActivateEnabled \/ CancelEnabled \/ (~paused /\ ~Representable)

\* All the tokens there are.
Issued == Cardinality(Users) * InitialWallet + InitialReserve

\* Interest on all of them, on these terms, still makes a u64.
TermsFit == SeniorOwed(Issued, params.rate_bps, params.term_secs) # NONE

(* settle of a matured series fails for ever when what senior is owed is   *)
(* not a u64.  Its terms alone decide whether that can be: unless interest *)
(* on every token there is would overflow too, no deposits, donations,     *)
(* losses or empty tranches strand the funds in the pool.                  *)
StuckOnlyByTerms == status = "Active" /\ Owed = NONE => ~TermsFit

(* The series implements the contract with its depositors.                 *)
Contract == INSTANCE TrancheContract
    WITH phase <- status,
         due <- IF status = "Cancelled" THEN principal ELSE payout

ImplementsContract == Contract!Spec

(* An active series whose maturity the clock reaches is settled in the     *)
(* end, whatever the pool lost and whether or not anybody deposited        *)
(* senior, except where the terms do not fit and what senior is owed is    *)
(* not a u64 (StuckOnlyByTerms).                                           *)
EventuallySettled ==
    status = "Active" /\ maturity_ts <= MAX_TIME /\ (Owed # NONE \/ TermsFit) ~> status = "Settled"

=============================================================================
