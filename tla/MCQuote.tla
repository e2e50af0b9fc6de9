------------------------------ MODULE MCQuote ------------------------------
(***************************************************************************)
(* Bounded enumeration of the API's pure functions: every state after the  *)
(* first is one choice of a series and a deposit, of the pools, or of a    *)
(* pool's history, and every property a fact about the results.            *)
(***************************************************************************)
EXTENDS Quote, Pools, FiniteSets

CONSTANTS MaxAmount, MaxTerm, Days, LastTime

\* 5% of BPS is the smallest min_junior_bps there is: it must not be 0.
ASSUME GridAssumption ==
    /\ BPS >= 20 /\ MaxAmount \in Nat \ {0} /\ MaxTerm \in Nat \ {0}
    /\ Days \in Nat /\ LastTime \in Nat

VARIABLES
    in,     \* a series, a deposit of that amount and a return
    rows,   \* pools
    points  \* the snapshots of one pool

Amounts == 0 .. MaxAmount
Rates == 0 .. BPS \div 2
Terms == 1 .. MaxTerm
\* min_junior_bps: 500..=5000 of 10_000
Minimums == (BPS \div 20) .. (BPS \div 2)
Yields == {-BPS, -(BPS \div 2), -1, 0, 1, BPS \div 2, BPS, 2 * BPS}

Inputs == [senior : Amounts, junior : Amounts, amount : 1 .. MaxAmount,
           rate : Rates, term : Terms, min : Minimums, yield : Yields]

Start == [senior |-> 0, junior |-> 0, amount |-> 1,
          rate |-> 0, term |-> 1, min |-> 1 + BPS \div 20, yield |-> 0]

\* Three pools, in every combination of scores, shares and yields around the
\* profiles' limits; headline and realized may be null as well.
Row(id, score, share, yield) ==
    [id |-> id, score |-> score, emissions_share |-> share, sustainable |-> yield,
     headline |-> yield, realized |-> score, tvl |-> id % 2]

RowsOf(id, shares) ==
    {Row(id, score, share, yield) :
        score \in {NULL, 60, 80}, share \in shares, yield \in {NULL, -1, 1, 2}}

\* Any times, and all points or all but one have a share rate.
History(times, unrated) == {[ts |-> t, rated |-> t # unrated] : t \in times}

Histories == {History(times, unrated) : times \in SUBSET (0 .. LastTime), unrated \in 0 .. LastTime + 1}

Init == in = Start /\ rows = {} /\ points = {}

AtStart == in = Start /\ rows = {} /\ points = {}

ChooseSeries == AtStart /\ in' \in Inputs /\ UNCHANGED <<rows, points>>

ChoosePools ==
    /\ AtStart
    /\ \E a \in RowsOf(1, {NULL, 50, 51}), b \in RowsOf(2, {50, 51}), c \in RowsOf(3, {50}) :
          rows' = {a, b, c}
    /\ UNCHANGED <<in, points>>

ChooseHistory == AtStart /\ points' \in Histories \ {{}} /\ UNCHANGED <<in, rows>>

Return == ~AtStart /\ in' = Start /\ rows' = {} /\ points' = {}

Next == ChooseSeries \/ ChoosePools \/ ChooseHistory \/ Return

Spec == Init /\ [][Next]_<<in, rows, points>>

-----------------------------------------------------------------------------
(* Series and quotes. *)

Quoted == BuildQuote(in, "senior", in.amount, {in.yield})

(* buildQuote's max_additional_senior is the exact boundary of the vault's *)
(* capacity rule: for a series within its buffer, a deposit is accepted by *)
(* junior_ratio_ok if and only if it is no larger than the headroom shown, *)
(* and the series' own page shows the same limit.                          *)
HeadroomExact ==
    JuniorRatioOk(in.senior, in.junior, in.min) =>
        /\ Quoted.ok <=> in.amount <= Quoted.headroom
        /\ PresentSeries(in).senior_capacity = in.senior + Quoted.headroom

(* What presentSeries shows as junior_needed is never short by more than   *)
(* the one unit its rounding loses, and never more than is there.          *)
JuniorNeededWithinOne ==
    LET needed == PresentSeries(in).junior_needed
    IN  /\ JuniorRatioOk(in.senior, needed + 1, in.min)
        /\ JuniorRatioOk(in.senior, in.junior, in.min) => needed <= in.junior

(* The target a quote shows for a deposit is what the claim pays once the  *)
(* tranche is made whole, up to one base unit: the two round at different  *)
(* points (interest of the deposit against a share of the tranche's        *)
(* interest), and the quote never understates: no scenario pays more.      *)
QuoteTargetWithinOne ==
    LET total == in.senior + in.amount
        paid  == ClaimAmount(SeniorOwed(total, in.rate, in.term), in.amount, total)
    IN  /\ paid <= Quoted.target /\ Quoted.target <= paid + 1
        /\ Quoted.scenarios[in.yield] <= Quoted.target

(* Splitting a holding between two accounts never claims more than the     *)
(* whole holding does, and loses at most one unit: transferring shares     *)
(* cannot extract value from the tranche.                                  *)
SplitClaimsNeverGain ==
    LET total  == in.senior + in.amount
        payout == Simulate([in EXCEPT !.senior = total], in.yield).senior
        whole  == ClaimAmount(payout, total, total)
        parts  == ClaimAmount(payout, in.senior, total) + ClaimAmount(payout, in.amount, total)
    IN  parts <= whole /\ whole <= parts + 1

(* Junior is the first loss and the last gain: its payout is positive only *)
(* if senior got everything it is owed, nothing is created or lost, a      *)
(* better return never pays either tranche less, and the simulation never  *)
(* shows a senior shortfall beside a junior tranche that is not wiped out. *)
FirstLoss ==
    LET shown == BuildSimulation(in, in.yield)
        out   == shown.outcome
        next  == Simulate(in, in.yield + 1)
    IN  /\ out.junior > 0 => out.senior = out.owed
        /\ out.senior + out.junior = out.assets
        /\ out.senior >= 0 /\ out.junior >= 0
        /\ out.senior <= next.senior /\ out.junior <= next.junior
        /\ shown.senior_shortfall /\ in.junior > 0 => shown.junior_wiped_out

-----------------------------------------------------------------------------
(* Pools. *)

(* "Ties broken by id so the order is deterministic": for every profile and*)
(* sort key the comparison is a strict total order of the pools, nulls     *)
(* included, so the list does not depend on the order of the rows.         *)
RankingIsDeterministic ==
    \A profile \in Profiles, sort \in SortKeys :
        \A a, b \in rows :
            /\ a # b => (Above(a, b, sort, profile) <=> ~Above(b, a, sort, profile))
            /\ \A c \in rows :
                  Above(a, b, sort, profile) /\ Above(b, c, sort, profile)
                      => Above(a, c, sort, profile)

(* The list agrees with the figures it shows: in the default ranking the   *)
(* risk-adjusted yields are in descending order; the conservative profile  *)
(* leaves out a pool of a sufficient score exactly when it is flagged as   *)
(* mostly bonus tokens; and each profile lists what a stricter one does.   *)
RankingMatchesDisplay ==
    /\ \A a, b \in Included(rows, "balanced") :
          Above(a, b, "risk_adjusted", "balanced")
              => LET x == Summary(a).risk_adjusted_yield
                     y == Summary(b).risk_adjusted_yield
                 IN  y # NULL => x # NULL /\ x >= y
    /\ \A row \in rows :
          row.score # NULL /\ row.score >= MinScore["conservative"]
              => (row \notin Included(rows, "conservative") <=> Summary(row).mostly_bonus_tokens)
    /\ Included(rows, "conservative") \subseteq Included(rows, "balanced")
    /\ Included(rows, "balanced") \subseteq Included(rows, "aggressive")

(* "A week of lead-in so the rolling 7d realized APY exists for the first  *)
(* charted day": a chart computed from the rows that are fetched is the    *)
(* one the whole history would give, wherever the days are cut and         *)
(* whatever points are missing.                                            *)
LeadInSuffices ==
    points # {} => Chart(points, Days) = Since(WithRealized(DailyLast(points)), Days)

=============================================================================
