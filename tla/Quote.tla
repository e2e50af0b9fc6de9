------------------------------- MODULE Quote -------------------------------
(***************************************************************************)
(* What the API computes from a series' facts with the shared waterfall    *)
(* arithmetic: the figures of GET /v1/series, a quote and a simulation     *)
(* (apps/api/src/series/series.controller.ts, lib/quote.ts), and the       *)
(* outcome of a simulated return (packages/waterfall).  Amounts are        *)
(* bigints there: no width, no overflow, truncating division of            *)
(* non-negative numbers.  A series is a record of its two principals, its  *)
(* rate, term and smallest junior share; dates, formatting and the         *)
(* realized return in doubles are left out.                                *)
(***************************************************************************)
EXTENDS Waterfall

-----------------------------------------------------------------------------
(* Slips the properties must catch. *)

SignLost(deployed, yieldBps) ==
    deployed + (deployed * (IF yieldBps >= 0 THEN yieldBps ELSE -yieldBps)) \div BPS

CapacityRoundedUp(junior, minJunior) ==
    (junior * (BPS - minJunior) + minJunior - 1) \div minJunior

OfSeniorOnly(senior, minJunior) == (senior * minJunior) \div BPS

PerYear(s, amount) == amount + (amount * s.rate * s.term) \div BPS

-----------------------------------------------------------------------------
(* packages/waterfall. *)

\* What the deployed principal is worth after a simulated return (may be
\* negative, and is not capped at BPS as simulate_yield is).
ApplyYield(deployed, yieldBps) ==
    IF yieldBps >= 0 THEN deployed + (deployed * yieldBps) \div BPS
                     ELSE deployed - (deployed * (-yieldBps)) \div BPS

\* The outcome of a series at a simulated return.
Simulate(s, yieldBps) ==
    LET owed   == SeniorOwed(s.senior, s.rate, s.term)
        assets == ApplyYield(s.senior + s.junior, yieldBps)
    IN  [owed |-> owed, assets |-> assets,
         senior |-> SeniorPayout(assets, owed), junior |-> JuniorPayout(assets, owed)]

-----------------------------------------------------------------------------
(* The API. *)

\* Largest senior tranche the junior principal supports.
SeniorCapacity(junior, minJunior) == (junior * (BPS - minJunior)) \div minJunior

\* "junior needed to back the current senior tranche"
JuniorNeeded(senior, minJunior) == (senior * minJunior) \div (BPS - minJunior)

PresentSeries(s) ==
    [senior_target   |-> SeniorOwed(s.senior, s.rate, s.term),
     senior_capacity |-> SeniorCapacity(s.junior, s.min),
     junior_needed   |-> JuniorNeeded(s.senior, s.min)]

\* The target a quote shows a senior depositor of that amount.
QuoteTarget(s, amount) == SeniorOwed(amount, s.rate, s.term)

\* The quote for a deposit: its target, its payout in each scenario, and
\* whether the buffer allows it and how large one it would.
BuildQuote(s, tranche, amount, yields) ==
    LET after    == [s EXCEPT ![tranche] = @ + amount]
        capacity == SeniorCapacity(s.junior, s.min)
    IN  [target    |-> IF tranche = "senior" THEN QuoteTarget(s, amount) ELSE NONE,
         scenarios |-> [y \in yields |->
                           ClaimAmount(Simulate(after, y)[tranche], amount, after[tranche])],
         ok        |-> tranche = "junior" \/ JuniorRatioOk(after.senior, after.junior, s.min),
         headroom  |-> IF capacity > s.senior THEN capacity - s.senior ELSE 0]

\* The outcome of the series as it is, with the two flags of the slider.
BuildSimulation(s, yieldBps) ==
    LET out == Simulate(s, yieldBps)
    IN  [outcome |-> out,
         senior_shortfall |-> out.senior < out.owed,
         junior_wiped_out |-> out.junior = 0 /\ s.junior > 0]

=============================================================================
