----------------------------- MODULE Waterfall -----------------------------
(***************************************************************************)
(* The pure arithmetic of the vault (programs/yc_vault/src/math.rs), of    *)
(* the mock pool's moves (programs/mock_yield) and of their TypeScript     *)
(* mirror (packages/waterfall).  Amounts are u64 base units; the code      *)
(* multiplies in u128 and narrows at the end, so the only width that can   *)
(* show is the final one: a result above U64_MAX is the Option's None.     *)
(* (u64 * u16 * i64 may pass u128 in senior_owed, but only for a quotient  *)
(* above U64_MAX, so that early None is the same None.)                    *)
(*                                                                         *)
(* BPS and SECS_PER_YEAR are 10_000 and 31_536_000 in the code.  They are  *)
(* parameters here because TLC's integers are 32 bits wide; every theorem  *)
(* holds for the code's values.                                            *)
(***************************************************************************)
EXTENDS Integers

CONSTANTS
    BPS,            \* basis points in one
    SECS_PER_YEAR,  \* seconds in the year of the simple-interest formula
    U64_MAX         \* largest token amount

ASSUME BpsAssumption == BPS \in Nat /\ BPS >= 2
ASSUME YearAssumption == SECS_PER_YEAR \in Nat \ {0}
ASSUME WidthAssumption == U64_MAX \in Nat

U64 == 0 .. U64_MAX

NONE == -1          \* Option::None, outside every amount

\* u64::try_from(v).ok()
ToU64(v) == IF v \in U64 THEN v ELSE NONE

\* checked_add on u64
CheckedAdd(a, b) == ToU64(a + b)

-----------------------------------------------------------------------------
(* Slips the properties must catch, each the next definition gone wrong.   *)

InterestOnly(principal, rate, term) ==
    IF term < 0 THEN NONE ELSE ToU64((principal * rate * term) \div (BPS * SECS_PER_YEAR))

RejectsEmpty(principal, rate, term) ==
    IF term < 0 \/ principal = 0 THEN NONE
    ELSE ToU64(principal + (principal * rate * term) \div (BPS * SECS_PER_YEAR))

Uncapped(assets, owed) == owed

RoundedUp(payout, shares, total) ==
    IF total = 0 THEN NONE ELSE ToU64((payout * shares + total - 1) \div total)

-----------------------------------------------------------------------------

\* Principal plus simple interest for the term.
SeniorOwed(principal, rate, term) ==
    IF term < 0 THEN NONE
    ELSE ToU64(principal + (principal * rate * term) \div (BPS * SECS_PER_YEAR))

SeniorPayout(assets, owed) == IF assets <= owed THEN assets ELSE owed

JuniorPayout(assets, owed) == assets - SeniorPayout(assets, owed)

\* Pro-rata part of a tranche's payout, rounded down.
ClaimAmount(payout, shares, total) ==
    IF total = 0 THEN NONE ELSE ToU64((payout * shares) \div total)

JuniorRatioOk(senior, junior, minJunior) ==
    senior + junior = 0 \/ junior * BPS >= (senior + junior) * minJunior

\* bps of a pool balance, what simulate_yield and simulate_loss move.
BpsOf(amount, bps) == IF bps > BPS THEN NONE ELSE ToU64((amount * bps) \div BPS)

=============================================================================
