----------------------------- MODULE ApiProofs -----------------------------
(***************************************************************************)
(* What the API shows. The rearrangements of the vault's capacity rule     *)
(* are exact, or off by one unit, for every amount and every minimum;      *)
(* targets, split claims and simulated outcomes are the vault's            *)
(* arithmetic up to one unit; the ranking is one order that agrees with    *)
(* the figures beside it; a chart needs one window of rows more than it    *)
(* shows.                                                                  *)
(*                                                                         *)
(* And what its cache answers with: nothing that was replaced before the   *)
(* load that read it began, for any number of requests and writes, loads   *)
(* of any length and any TTL.                                              *)
(***************************************************************************)
EXTENDS MCQuote, ApiCache, WaterfallProofs, WellFoundedInduction

(* The rule without fractions: junior money times what is left of BPS      *)
(* covers senior money times the minimum.                                  *)
LEMMA RatioRearranged ==
    ASSUME NEW s \in Nat, NEW j \in Nat, NEW m \in Nat, 0 < m, m < BPS
    PROVE  JuniorRatioOk(s, j, m) <=> s * m <= j * (BPS - m)
<1> USE BpsAssumption
<1>1. j * (BPS - m) = j * BPS - j * m
  OBVIOUS
<1>2. (s + j) * m = s * m + j * m
  OBVIOUS
<1>3. j * BPS \in Nat /\ j * m \in Nat /\ s * m \in Nat
  OBVIOUS
<1>4. j * BPS >= (s + j) * m <=> s * m <= j * (BPS - m)
  BY <1>1, <1>2, <1>3
<1>5. s + j = 0 => s = 0 /\ j = 0
  OBVIOUS
<1>6. s = 0 /\ j = 0 => s * m <= j * (BPS - m)
  OBVIOUS
<1> QED
  BY <1>4, <1>5, <1>6 DEF JuniorRatioOk

(* seniorCapacity is the largest senior principal the rule allows.         *)
LEMMA CapacityIsLargest ==
    ASSUME NEW s \in Nat, NEW j \in Nat, NEW m \in Nat, 0 < m, m < BPS
    PROVE  /\ SeniorCapacity(j, m) \in Nat
           /\ JuniorRatioOk(s, j, m) <=> s <= SeniorCapacity(j, m)
<1>1. j * (BPS - m) \in Nat
  BY BpsAssumption
<1>2. SeniorCapacity(j, m) \in Nat
  BY <1>1, DivBounds DEF SeniorCapacity
<1>3. s <= SeniorCapacity(j, m) <=> s * m <= j * (BPS - m)
  BY <1>1, WithinQuotient DEF SeniorCapacity
<1> QED
  BY <1>2, <1>3, RatioRearranged

(* Two quantities that differ by less than a divisor have quotients that   *)
(* differ by at most one.                                                  *)
LEMMA DivWithinOne ==
    ASSUME NEW a \in Nat, NEW b \in Nat, NEW m \in Nat, m > 0, b <= a + m
    PROVE  b \div m <= a \div m + 1
<1> DEFINE q == a \div m
           r == b \div m
<1>1. q \in Nat /\ a < q * m + m /\ r \in Nat /\ r * m <= b
  BY DivBounds
<1> HIDE DEF q, r
<1>2. SUFFICES ASSUME r >= q + 2 PROVE FALSE
  BY <1>1 DEF q, r
<1>3. m * (q + 2) <= m * r
  BY <1>1, <1>2, ProductMonotone
<1>4. m * (q + 2) = q * m + m + m /\ m * r = r * m
  BY <1>1
<1>5. q * m \in Nat /\ r * m \in Nat
  BY <1>1
<1> QED
  BY <1>1, <1>3, <1>4, <1>5

(* A holding's part of a payout is an amount: it needs no more room than   *)
(* the payout.                                                             *)
LEMMA ClaimIsQuotient ==
    ASSUME NEW pay \in Nat, NEW sh \in Nat, NEW total \in Nat,
           total > 0, sh <= total, pay <= U64_MAX
    PROVE  /\ ClaimAmount(pay, sh, total) = (pay * sh) \div total
           /\ ClaimAmount(pay, sh, total) \in Nat
           /\ ClaimAmount(pay, sh, total) <= pay
<1> DEFINE q == (pay * sh) \div total
<1>1. pay * sh \in Nat /\ pay * sh <= pay * total
  BY ProductMonotone
<1>2. q \in Nat /\ q * total <= pay * sh
  BY <1>1, DivBounds
<1>3. q <= pay
  <2>1. pay * total \in Nat /\ (pay * total) \div total = pay
    BY DivBounds
  <2> QED
    BY <1>1, <2>1, DivMonotone
<1> HIDE DEF q
<1>4. q \in U64
  BY <1>2, <1>3, WidthAssumption DEF U64
<1> QED
  BY <1>2, <1>3, <1>4 DEF q, ClaimAmount, ToU64

-----------------------------------------------------------------------------
(* The grid of the run, for any size of it. *)

Facts == [senior : Nat, junior : Nat, amount : Nat \ {0},
          rate : Nat, term : Nat, min : Nat, yield : Int]

InRange(f) ==
    /\ 0 < f.min /\ f.min < BPS
    /\ f.senior <= MaxAmount /\ f.amount <= MaxAmount /\ f.rate <= BPS \div 2 /\ f.term <= MaxTerm
    /\ f.yield >= -BPS

InGrid == in \in Facts /\ InRange(in)

LEMMA GridInvariant == Spec => []InGrid
<1> USE GridAssumption, BpsAssumption
<1>1. BPS \div 20 \in Nat /\ (BPS \div 20) * 20 <= BPS /\ BPS < (BPS \div 20) * 20 + 20
  BY DivBounds
<1>2. BPS \div 2 \in Nat /\ (BPS \div 2) * 2 <= BPS
  BY DivBounds
<1>3. Start \in Facts /\ InRange(Start)
  BY <1>1 DEF Start, Facts, InRange
<1>4. ASSUME NEW i \in Inputs PROVE i \in Facts /\ InRange(i)
  <2>1. /\ i.senior \in Amounts /\ i.junior \in Amounts /\ i.amount \in 1 .. MaxAmount
        /\ i.rate \in Rates /\ i.term \in Terms /\ i.min \in Minimums /\ i.yield \in Yields
        /\ i = [senior |-> i.senior, junior |-> i.junior, amount |-> i.amount, rate |-> i.rate,
                term |-> i.term, min |-> i.min, yield |-> i.yield]
    BY <1>4 DEF Inputs
  <2>2. i.senior \in Nat /\ i.junior \in Nat /\ i.amount \in Nat \ {0} /\ i.rate \in Nat /\ i.term \in Nat
    BY <2>1, <1>2 DEF Amounts, Rates, Terms
  <2>3. i.min \in Nat /\ 0 < i.min /\ i.min < BPS
    BY <2>1, <1>1, <1>2 DEF Minimums
  <2>4. i.yield \in Int /\ i.yield >= -BPS
    BY <2>1, <1>2 DEF Yields
  <2>5. i.senior <= MaxAmount /\ i.amount <= MaxAmount /\ i.rate <= BPS \div 2 /\ i.term <= MaxTerm
    BY <2>1, <1>2 DEF Amounts, Rates, Terms
  <2> QED
    BY <2>1, <2>2, <2>3, <2>4, <2>5 DEF Facts, InRange
<1>5. Init => InGrid
  BY <1>3 DEF Init, InGrid
<1>6. InGrid /\ [Next]_<<in, rows, points>> => InGrid'
  <2> SUFFICES ASSUME InGrid, [Next]_<<in, rows, points>> PROVE InGrid'
    OBVIOUS
  <2>1. in' = Start \/ in' \in Inputs \/ in' = in
    BY DEF Next, ChooseSeries, ChoosePools, ChooseHistory, Return
  <2> QED
    BY <1>3, <1>4, <2>1 DEF InGrid
<1> QED
  BY <1>5, <1>6, PTL DEF Spec

(* The headroom a quote shows is the vault's capacity rule: a deposit is   *)
(* accepted if and only if it is no larger, whatever the principals, the   *)
(* minimum and the amount (buildQuote, presentSeries).                     *)
THEOREM HeadroomIsTheRule == Spec => []HeadroomExact
<1>1. InGrid => HeadroomExact
  <2> SUFFICES ASSUME InGrid, JuniorRatioOk(in.senior, in.junior, in.min)
               PROVE  /\ Quoted.ok <=> in.amount <= Quoted.headroom
                      /\ PresentSeries(in).senior_capacity = in.senior + Quoted.headroom
    BY DEF HeadroomExact
  <2> DEFINE s == in.senior
             j == in.junior
             a == in.amount
             c == SeniorCapacity(in.junior, in.min)
  <2>1. s \in Nat /\ j \in Nat /\ a \in Nat /\ a > 0 /\ s + a \in Nat
    BY DEF InGrid, InRange, Facts
  <2>2. c \in Nat /\ s <= c
    BY CapacityIsLargest DEF InGrid, InRange, Facts
  <2>3. JuniorRatioOk(s + a, j, in.min) <=> s + a <= c
    BY <2>1, CapacityIsLargest DEF InGrid, InRange, Facts
  <2>4. Quoted.headroom = IF c > s THEN c - s ELSE 0
    BY DEF Quoted, BuildQuote
  <2>5. Quoted.ok <=> JuniorRatioOk(s + a, j, in.min)
    <3>1. LET after == [in EXCEPT !["senior"] = @ + in.amount]
          IN  after.senior = s + a /\ after.junior = j
      BY DEF InGrid, InRange, Facts
    <3> QED
      BY <3>1 DEF Quoted, BuildQuote
  <2>6. PresentSeries(in).senior_capacity = c
    BY DEF PresentSeries
  <2> HIDE DEF c
  <2>7. (s + a <= c <=> a <= c - s) /\ c = s + (c - s)
    BY <2>1, <2>2
  <2>8. CASE c > s
    BY <2>3, <2>4, <2>5, <2>6, <2>7, <2>8
  <2>9. CASE c = s
    BY <2>1, <2>2, <2>3, <2>4, <2>5, <2>6, <2>7, <2>9
  <2> QED
    BY <2>1, <2>2, <2>8, <2>9
<1> QED
  BY <1>1, GridInvariant, PTL

(* The junior principal that presentSeries calls needed is at most the one *)
(* unit short that its rounding loses, and never more than a series within *)
(* its buffer holds.                                                       *)
THEOREM NeededIsWithinOne == Spec => []JuniorNeededWithinOne
<1>1. InGrid => JuniorNeededWithinOne
  <2> SUFFICES ASSUME InGrid PROVE JuniorNeededWithinOne
    OBVIOUS
  <2> DEFINE s == in.senior
             j == in.junior
             d == BPS - in.min
             n == JuniorNeeded(in.senior, in.min)
  <2>1. s \in Nat /\ j \in Nat /\ d \in Nat /\ d > 0 /\ s * in.min \in Nat
    BY BpsAssumption DEF InGrid, InRange, Facts
  <2>2. n = (s * in.min) \div d
    BY DEF JuniorNeeded
  <2>3. n \in Nat /\ n * d <= s * in.min /\ s * in.min < n * d + d
    BY <2>1, <2>2, DivBounds
  <2>4. JuniorRatioOk(s, n + 1, in.min)
    <3>1. s * in.min <= (n + 1) * d
      BY <2>1, <2>3
    <3>2. n + 1 \in Nat /\ in.min \in Nat /\ 0 < in.min /\ in.min < BPS
      BY <2>3 DEF InGrid, InRange, Facts
    <3> HIDE DEF n, s
    <3> QED
      BY <2>1, <3>1, <3>2, RatioRearranged
  <2>5. ASSUME JuniorRatioOk(s, j, in.min) PROVE n <= j
    <3>1. s * in.min <= j * d
      BY <2>1, <2>5, RatioRearranged DEF InGrid, InRange, Facts
    <3>2. SUFFICES ASSUME n >= j + 1 PROVE FALSE
      BY <2>1, <2>3
    <3>3. d * (j + 1) <= d * n
      BY <2>1, <2>3, <3>2, ProductMonotone
    <3> QED
      BY <2>1, <2>3, <3>1, <3>3
  <2>6. PresentSeries(in).junior_needed = n
    BY DEF PresentSeries
  <2> QED
    BY <2>4, <2>5, <2>6 DEF JuniorNeededWithinOne
<1> QED
  BY <1>1, GridInvariant, PTL

-----------------------------------------------------------------------------
(* What depends on the width.  The API's bigints have none, so the grid    *)
(* must be one on which U64_MAX does not show: the largest that is owed to *)
(* two principals is within it.                                            *)

GridFits == SeniorOwed(2 * MaxAmount, BPS \div 2, MaxTerm) # NONE

Year == BPS * SECS_PER_YEAR

\* Principal and interest of an amount of the grid.
Owed(amount) == amount + (amount * in.rate * in.term) \div Year

LEMMA YearPositive == Year \in Nat /\ Year > 0
  BY BpsAssumption, YearAssumption DEF Year

LEMMA OwedFits ==
    ASSUME GridFits, InGrid, NEW amount \in Nat, amount <= 2 * MaxAmount
    PROVE  /\ amount * in.rate * in.term \in Nat
           /\ Owed(amount) \in Nat /\ amount <= Owed(amount) /\ Owed(amount) <= U64_MAX
           /\ SeniorOwed(amount, in.rate, in.term) = Owed(amount)
<1>1. /\ in.rate \in Nat /\ in.term \in Nat /\ in.rate <= BPS \div 2 /\ in.term <= MaxTerm
      /\ 2 * MaxAmount \in Nat /\ MaxTerm \in Nat /\ BPS \div 2 \in Nat
  BY GridAssumption, BpsAssumption, DivBounds DEF InGrid, InRange, Facts
<1>2. amount * in.rate * in.term \in Nat
  BY <1>1
<1>3. (amount * in.rate * in.term) \div Year \in Nat
  BY <1>2, YearPositive, DivBounds
<1>4. SeniorOwed(amount, in.rate, in.term) # NONE
  BY <1>1, OwedMonotone DEF GridFits
<1>5. SeniorOwed(amount, in.rate, in.term) = ToU64(Owed(amount))
  BY <1>1 DEF SeniorOwed, Owed, Year
<1>6. Owed(amount) \in Nat /\ amount <= Owed(amount)
  BY <1>3 DEF Owed
<1> QED
  BY <1>2, <1>4, <1>5, <1>6, WidthAssumption DEF ToU64, U64

LEMMA ProductCancels ==
    ASSUME NEW a \in Nat, NEW b \in Nat, NEW c \in Nat, c > 0, c * a <= c * b
    PROVE  a <= b
<1>1. SUFFICES ASSUME b + 1 <= a PROVE FALSE
  OBVIOUS
<1>2. c * (b + 1) <= c * a
  BY <1>1, ProductMonotone
<1>3. c * (b + 1) = c * b + c
  OBVIOUS
<1> QED
  BY <1>2, <1>3

(* Interest of a part against the part of the interest: k per m on a and   *)
(* on the whole t.                                                         *)
LEMMA PartOfInterest ==
    ASSUME NEW t \in Nat, NEW a \in Nat, NEW k \in Nat, NEW m \in Nat, t > 0, m > 0, a <= t,
           NEW i \in Nat, i * m <= t * k, t * k < i * m + m,
           NEW f \in Nat, f * m <= a * k, a * k < f * m + m
    PROVE  /\ ((t + i) * a) \div t <= a + f
           /\ a + f <= ((t + i) * a) \div t + 1
<1> DEFINE q == ((t + i) * a) \div t
<1>1. (t + i) * a = t * a + i * a /\ i * a \in Nat /\ (t + i) * a \in Nat
  OBVIOUS
<1>2. q \in Nat /\ q * t <= (t + i) * a /\ (t + i) * a < q * t + t
  BY <1>1, DivBounds
<1> HIDE DEF q
<1>3. i * a < t * (f + 1)
  <2>1. SUFFICES ASSUME t * (f + 1) <= i * a PROVE FALSE
    BY <1>1
  <2>2. m * (t * (f + 1)) <= m * (i * a)
    BY <1>1, <2>1, ProductMonotone
  <2>3. a * (i * m) <= a * (t * k)
    BY ProductMonotone
  <2>4. m * (i * a) = a * (i * m) /\ a * (t * k) = t * (a * k) /\ m * (t * (f + 1)) = t * (f * m + m)
    OBVIOUS
  <2>5. t * (f * m + m) <= t * (a * k)
    BY <2>2, <2>3, <2>4
  <2>6. f * m + m \in Nat /\ a * k \in Nat
    OBVIOUS
  <2>7. f * m + m <= a * k
    BY <2>5, <2>6, ProductCancels
  <2> QED
    BY <2>6, <2>7
<1>4. f * t <= i * a + t
  <2>1. t * (f * m) <= t * (a * k)
    BY ProductMonotone
  <2>2. a * (t * k) <= a * (i * m + m)
    BY ProductMonotone
  <2>3. m * a <= m * t
    BY ProductMonotone
  <2>4. /\ t * (f * m) = m * (f * t) /\ t * (a * k) = a * (t * k)
        /\ a * (i * m + m) = m * (i * a) + m * a /\ m * (i * a + t) = m * (i * a) + m * t
    OBVIOUS
  <2>5. m * (f * t) <= m * (i * a + t)
    BY <2>1, <2>2, <2>3, <2>4
  <2> QED
    BY <2>5, <1>1, ProductCancels
<1>5. q <= a + f
  <2>1. t * q < t * (a + f + 1)
    <3>1. t * (a + f + 1) = t * a + t * (f + 1) /\ t * q = q * t
      BY <1>2
    <3> QED
      BY <1>1, <1>2, <1>3, <3>1
  <2>2. SUFFICES ASSUME a + f + 1 <= q PROVE FALSE
    BY <1>2
  <2>3. t * (a + f + 1) <= t * q
    BY <1>2, <2>2, ProductMonotone
  <2> QED
    BY <1>2, <2>1, <2>3
<1>6. a + f <= q + 1
  <2>1. t * (a + f) < t * (q + 2)
    <3>1. t * (a + f) = t * a + f * t /\ t * (q + 2) = q * t + t + t
      BY <1>2
    <3> QED
      BY <1>1, <1>2, <1>4, <3>1
  <2>2. SUFFICES ASSUME q + 2 <= a + f PROVE FALSE
    BY <1>2
  <2>3. t * (q + 2) <= t * (a + f)
    BY <1>2, <2>2, ProductMonotone
  <2> QED
    BY <1>2, <2>1, <2>3
<1> QED
  BY <1>5, <1>6 DEF q

(* A simulated return leaves an amount, and a better one no smaller an     *)
(* amount.                                                                 *)
LEMMA YieldApplied ==
    ASSUME NEW d \in Nat, NEW y \in Int, y >= -BPS
    PROVE  ApplyYield(d, y) \in Nat /\ ApplyYield(d, y) <= ApplyYield(d, y + 1)
<1> USE BpsAssumption
<1>1. CASE y >= 0
  <2>1. d * y \in Nat /\ d * (y + 1) \in Nat /\ d * y <= d * (y + 1)
    BY <1>1, ProductMonotone
  <2>2. (d * y) \div BPS \in Nat /\ (d * y) \div BPS <= (d * (y + 1)) \div BPS
        /\ (d * (y + 1)) \div BPS \in Nat
    BY <2>1, DivBounds, DivMonotone
  <2> QED
    BY <1>1, <2>2 DEF ApplyYield
<1>2. CASE y < 0
  <2> DEFINE l == (d * (-y)) \div BPS
             k == (d * (-(y + 1))) \div BPS
  <2>1. -y \in Nat /\ -(y + 1) \in Nat /\ d * (-y) \in Nat /\ d * (-(y + 1)) \in Nat
    BY <1>2
  <2>2. d * (-(y + 1)) <= d * (-y) /\ d * (-y) <= d * BPS /\ d * BPS \in Nat
    BY <1>2, <2>1, ProductMonotone
  <2>3. l \in Nat /\ k \in Nat /\ k <= l
    BY <2>1, <2>2, DivBounds, DivMonotone
  <2>4. l <= d
    <3>1. (d * BPS) \div BPS = d
      BY <2>2, DivBounds
    <3> QED
      BY <2>1, <2>2, <3>1, DivMonotone
  <2>5. ApplyYield(d, y) = d - l
    BY <1>2 DEF ApplyYield
  <2>6. ApplyYield(d, y + 1) = d - k
    <3>1. CASE y + 1 < 0
      BY <1>2, <3>1 DEF ApplyYield
    <3>2. CASE y = -1
      <4>1. d * (-(y + 1)) = 0 /\ d * (y + 1) = 0
        BY <3>2
      <4>2. 0 \div BPS = 0
        OBVIOUS
      <4>3. ApplyYield(d, y + 1) = d + (d * (y + 1)) \div BPS
        BY <3>2 DEF ApplyYield
      <4> QED
        BY <4>1, <4>2, <4>3
    <3> QED
      BY <1>2, <3>1, <3>2
  <2> HIDE DEF l, k
  <2> QED
    BY <2>3, <2>4, <2>5, <2>6
<1> QED
  BY <1>1, <1>2

\* The series of the grid once the deposit is in it.
Total == in.senior + in.amount

LEMMA TotalFits == InGrid => Total \in Nat /\ in.amount <= Total /\ Total > 0 /\ Total <= 2 * MaxAmount
  BY GridAssumption DEF Total, InGrid, InRange, Facts

LEMMA AfterDeposit ==
    ASSUME GridFits, InGrid
    PROVE  LET after == [in EXCEPT !.senior = Total]
               out   == Simulate(after, in.yield)
           IN  /\ out.senior \in Nat /\ out.senior <= Owed(Total)
               /\ out.owed = Owed(Total)
<1> DEFINE after == [in EXCEPT !.senior = Total]
           assets == ApplyYield(Total + in.junior, in.yield)
<1>1. after.senior = Total /\ after.junior = in.junior /\ after.rate = in.rate /\ after.term = in.term
  BY DEF InGrid, Facts
<1>2. assets \in Nat
  BY TotalFits, YieldApplied DEF InGrid, InRange, Facts
<1>3. SeniorOwed(Total, in.rate, in.term) = Owed(Total) /\ Owed(Total) \in Nat
  BY TotalFits, OwedFits
<1>4. LET out == Simulate(after, in.yield)
      IN  out.owed = Owed(Total) /\ out.senior = SeniorPayout(assets, Owed(Total))
  BY <1>1, <1>3 DEF Simulate
<1> HIDE DEF after, assets
<1>5. SeniorPayout(assets, Owed(Total)) \in Nat /\ SeniorPayout(assets, Owed(Total)) <= Owed(Total)
  BY <1>2, <1>3 DEF SeniorPayout
<1> QED
  BY <1>4, <1>5 DEF after

(* The target of a quote is what the deposit's claim pays once the tranche *)
(* is made whole, up to one unit, and no scenario pays more (buildQuote).  *)
THEOREM TargetIsWithinOne == ASSUME GridFits PROVE Spec => []QuoteTargetWithinOne
<1>1. InGrid => QuoteTargetWithinOne
  <2> SUFFICES ASSUME InGrid PROVE QuoteTargetWithinOne
    OBVIOUS
  <2> DEFINE a == in.amount
             k == in.rate * in.term
             i == (Total * in.rate * in.term) \div Year
             f == (a * in.rate * in.term) \div Year
             paid == ClaimAmount(Owed(Total), a, Total)
             out == Simulate([in EXCEPT !.senior = Total], in.yield)
  <2>0. /\ a \in Nat /\ a <= Total /\ a <= 2 * MaxAmount
        /\ Total \in Nat /\ Total > 0 /\ Total <= 2 * MaxAmount
    BY TotalFits, GridAssumption DEF InGrid, Facts
  <2>1. k \in Nat /\ Total * k = Total * in.rate * in.term /\ a * k = a * in.rate * in.term
    BY TotalFits DEF InGrid, Facts
  <2>2. Total * k \in Nat /\ a * k \in Nat
    BY <2>0, <2>1
  <2>3. i \in Nat /\ i * Year <= Total * k /\ Total * k < i * Year + Year
    BY <2>1, <2>2, YearPositive, DivBounds
  <2>4. f \in Nat /\ f * Year <= a * k /\ a * k < f * Year + Year
    BY <2>1, <2>2, YearPositive, DivBounds
  <2>5. Owed(Total) = Total + i /\ Owed(a) = a + f
    BY DEF Owed
  <2>6. SeniorOwed(Total, in.rate, in.term) = Owed(Total) /\ Owed(Total) \in Nat /\ Owed(Total) <= U64_MAX
    BY TotalFits, OwedFits
  <2>7. SeniorOwed(a, in.rate, in.term) = Owed(a)
    BY <2>0, OwedFits
  <2>8. Quoted.target = Owed(a)
    BY <2>7 DEF Quoted, BuildQuote, QuoteTarget
  <2>9. Quoted.scenarios[in.yield] = ClaimAmount(out.senior, a, Total)
    <3>1. [in EXCEPT !["senior"] = @ + in.amount] = [in EXCEPT !.senior = Total] /\ [in EXCEPT !.senior = Total].senior = Total
      BY DEF InGrid, Facts, Total
    <3> QED
      BY <3>1 DEF Quoted, BuildQuote, Simulate
  <2>10. out.senior \in Nat /\ out.senior <= Owed(Total)
    BY AfterDeposit
  <2> HIDE DEF k, i, f, out, a
  <2>11. paid = ((Total + i) * a) \div Total
    BY <2>0, <2>5, <2>6, ClaimIsQuotient
  <2>12. paid <= a + f /\ a + f <= paid + 1
    BY <2>0, <2>1, <2>3, <2>4, <2>11, YearPositive, PartOfInterest
  <2>13. ClaimAmount(out.senior, a, Total) <= paid
    <3>1. ClaimAmount(out.senior, a, Total) = (out.senior * a) \div Total
      <4>1. out.senior <= U64_MAX
        BY <2>6, <2>10, WidthAssumption
      <4> QED
        BY <2>0, <2>10, <4>1, ClaimIsQuotient
    <3>2. paid = (Owed(Total) * a) \div Total
      BY <2>5, <2>11
    <3>3. out.senior * a \in Nat /\ Owed(Total) * a \in Nat /\ out.senior * a <= Owed(Total) * a
      BY <2>0, <2>6, <2>10, ProductsMonotone
    <3> QED
      BY <2>0, <3>1, <3>2, <3>3, DivMonotone
  <2>14. paid \in Nat /\ ClaimAmount(out.senior, a, Total) \in Nat
    <3>1. out.senior <= U64_MAX
      BY <2>6, <2>10, WidthAssumption
    <3>2. paid \in Nat
      BY <2>0, <2>6, ClaimIsQuotient
    <3>3. ClaimAmount(out.senior, a, Total) \in Nat
      BY <2>0, <2>10, <3>1, ClaimIsQuotient
    <3> QED
      BY <3>2, <3>3
  <2>15. QuoteTargetWithinOne <=>
           /\ paid <= Quoted.target /\ Quoted.target <= paid + 1
           /\ Quoted.scenarios[in.yield] <= Quoted.target
    BY <2>6 DEF QuoteTargetWithinOne, Total, a
  <2> HIDE DEF paid
  <2> QED
    BY <2>0, <2>4, <2>5, <2>8, <2>9, <2>12, <2>13, <2>14, <2>15
<1> QED
  BY <1>1, GridInvariant, PTL

(* Two parts of a tranche claim at most what the tranche is paid, and at   *)
(* most one unit less.                                                     *)
LEMMA TwoParts ==
    ASSUME NEW p \in Nat, NEW a \in Nat, NEW b \in Nat, a + b > 0
    PROVE  /\ (p * a) \div (a + b) + (p * b) \div (a + b) <= p
           /\ p <= (p * a) \div (a + b) + (p * b) \div (a + b) + 1
<1> DEFINE t == a + b
           x == (p * a) \div t
           y == (p * b) \div t
<1>1. t \in Nat /\ t > 0 /\ p * a \in Nat /\ p * b \in Nat /\ t * p = p * a + p * b
  OBVIOUS
<1>2. x \in Nat /\ x * t <= p * a /\ p * a < x * t + t
  BY <1>1, DivBounds
<1>3. y \in Nat /\ y * t <= p * b /\ p * b < y * t + t
  BY <1>1, DivBounds
<1> HIDE DEF t, x, y
<1>4. t * (x + y) = x * t + y * t /\ t * (x + y + 2) = x * t + t + (y * t + t)
  BY <1>1, <1>2, <1>3
<1>5. x + y <= p
  <2>1. t * (x + y) <= t * p
    BY <1>1, <1>2, <1>3, <1>4
  <2> QED
    BY <1>1, <1>2, <1>3, <2>1, ProductCancels
<1>6. p <= x + y + 1
  <2>1. SUFFICES ASSUME x + y + 2 <= p PROVE FALSE
    BY <1>2, <1>3
  <2>2. t * (x + y + 2) <= t * p
    BY <1>1, <1>2, <1>3, <2>1, ProductMonotone
  <2> QED
    BY <1>1, <1>2, <1>3, <1>4, <2>2
<1> QED
  BY <1>5, <1>6 DEF t, x, y

(* Splitting a holding never claims more, and at most one unit less.       *)
THEOREM SplitsNeverGain == ASSUME GridFits PROVE Spec => []SplitClaimsNeverGain
<1>1. InGrid => SplitClaimsNeverGain
  <2> SUFFICES ASSUME InGrid PROVE SplitClaimsNeverGain
    OBVIOUS
  <2> DEFINE p == Simulate([in EXCEPT !.senior = Total], in.yield).senior
             s == in.senior
             a == in.amount
  <2>1. s \in Nat /\ a \in Nat /\ Total = s + a /\ s + a > 0
    BY DEF InGrid, Facts, Total
  <2>2. p \in Nat /\ p <= U64_MAX
    <3>1. Owed(Total) \in Nat /\ Owed(Total) <= U64_MAX
      BY TotalFits, OwedFits
    <3> QED
      BY <3>1, AfterDeposit, WidthAssumption
  <2>3. SplitClaimsNeverGain <=>
           LET parts == ClaimAmount(p, s, Total) + ClaimAmount(p, a, Total)
               whole == ClaimAmount(p, Total, Total)
           IN  parts <= whole /\ whole <= parts + 1
    BY DEF SplitClaimsNeverGain, Total
  <2> HIDE DEF p, s, a
  <2>4. ClaimAmount(p, s, Total) = (p * s) \div (s + a)
    BY <2>1, <2>2, ClaimIsQuotient
  <2>5. ClaimAmount(p, a, Total) = (p * a) \div (s + a)
    BY <2>1, <2>2, ClaimIsQuotient
  <2>6. ClaimAmount(p, Total, Total) = p
    <3>1. ClaimAmount(p, Total, Total) = (p * Total) \div Total
      <4>1. Total \in Nat /\ Total > 0 /\ Total <= Total
        BY <2>1
      <4> QED
        BY <2>2, <4>1, ClaimIsQuotient
    <3>2. p * Total \in Nat /\ (p * Total) \div Total = p
      BY <2>1, <2>2, DivBounds
    <3> QED
      BY <3>1, <3>2
  <2> QED
    BY <2>1, <2>2, <2>3, <2>4, <2>5, <2>6, TwoParts
<1> QED
  BY <1>1, GridInvariant, PTL

(* Senior first: what each tranche gets of an amount, and of a larger one. *)
LEMMA SeniorFirst ==
    ASSUME NEW x \in Nat, NEW y \in Nat, NEW owed \in Nat, x <= y
    PROVE  /\ SeniorPayout(x, owed) \in Nat /\ JuniorPayout(x, owed) \in Nat
           /\ SeniorPayout(x, owed) + JuniorPayout(x, owed) = x
           /\ JuniorPayout(x, owed) > 0 => SeniorPayout(x, owed) = owed
           /\ SeniorPayout(x, owed) <= SeniorPayout(y, owed)
           /\ JuniorPayout(x, owed) <= JuniorPayout(y, owed)
           /\ SeniorPayout(x, owed) < owed => JuniorPayout(x, owed) = 0
  BY DEF SeniorPayout, JuniorPayout

(* Junior bears the first loss and has the last gain, in every simulated   *)
(* outcome, and a better return never pays either tranche less.            *)
THEOREM JuniorIsFirstLoss == ASSUME GridFits PROVE Spec => []FirstLoss
<1>1. InGrid => FirstLoss
  <2> SUFFICES ASSUME InGrid PROVE FirstLoss
    OBVIOUS
  <2> DEFINE owed == Owed(in.senior)
             x == ApplyYield(in.senior + in.junior, in.yield)
             y == ApplyYield(in.senior + in.junior, in.yield + 1)
  <2>1. in.senior \in Nat /\ in.senior <= 2 * MaxAmount
    BY GridAssumption DEF InGrid, InRange, Facts
  <2>2. SeniorOwed(in.senior, in.rate, in.term) = owed /\ owed \in Nat
    BY <2>1, OwedFits
  <2>3. x \in Nat /\ y \in Nat /\ x <= y
    <3>1. in.senior + in.junior \in Nat /\ in.yield \in Int /\ in.yield + 1 \in Int /\ in.yield >= -BPS /\ in.yield + 1 >= -BPS
      BY BpsAssumption DEF InGrid, InRange, Facts
    <3> QED
      BY <3>1, YieldApplied
  <2> HIDE DEF owed, x, y
  <2>4. /\ Simulate(in, in.yield) = [owed |-> owed, assets |-> x, senior |-> SeniorPayout(x, owed), junior |-> JuniorPayout(x, owed)]
        /\ Simulate(in, in.yield + 1) = [owed |-> owed, assets |-> y, senior |-> SeniorPayout(y, owed), junior |-> JuniorPayout(y, owed)]
    BY <2>2 DEF Simulate, x, y
  <2> DEFINE shown == BuildSimulation(in, in.yield)
  <2>5. shown.outcome = Simulate(in, in.yield)
    BY DEF BuildSimulation
  <2>6. shown.senior_shortfall = (SeniorPayout(x, owed) < owed)
    BY <2>4 DEF BuildSimulation
  <2>7. shown.junior_wiped_out = (JuniorPayout(x, owed) = 0 /\ in.junior > 0)
    BY <2>4 DEF BuildSimulation
  <2>8. SeniorPayout(x, owed) < owed => JuniorPayout(x, owed) = 0
    BY <2>2, <2>3, SeniorFirst
  <2>9. shown.senior_shortfall /\ in.junior > 0 => shown.junior_wiped_out
    BY ONLY <2>6, <2>7, <2>8, Zenon
  <2> HIDE DEF shown
  <2>10. LET out  == shown.outcome
             next == Simulate(in, in.yield + 1)
         IN  /\ out.junior > 0 => out.senior = out.owed
             /\ out.senior + out.junior = out.assets
             /\ out.senior >= 0 /\ out.junior >= 0
             /\ out.senior <= next.senior /\ out.junior <= next.junior
    <3>1. /\ SeniorPayout(x, owed) \in Nat /\ JuniorPayout(x, owed) \in Nat
          /\ SeniorPayout(x, owed) + JuniorPayout(x, owed) = x
          /\ JuniorPayout(x, owed) > 0 => SeniorPayout(x, owed) = owed
          /\ SeniorPayout(x, owed) <= SeniorPayout(y, owed)
          /\ JuniorPayout(x, owed) <= JuniorPayout(y, owed)
      BY <2>2, <2>3, SeniorFirst
    <3> QED
      BY <2>4, <2>5, <3>1
  <2> QED
    BY ONLY <2>9, <2>10, Zenon DEF FirstLoss, shown
<1> QED
  BY <1>1, GridInvariant, PTL

-----------------------------------------------------------------------------
(* Pools. *)

Figure == Int \cup {NULL}

PoolRows == [id : Int, score : Figure, emissions_share : Figure, sustainable : Figure,
             headline : Figure, realized : Figure, tvl : Int]

\* Rows are pools, one for each id.
RowsArePools == rows \subseteq PoolRows /\ \A a, b \in rows : a.id = b.id => a = b

LEMMA RowsInvariant == Spec => []RowsArePools
<1>1. ASSUME NEW id \in Int, NEW shares \in SUBSET Figure, NEW a \in RowsOf(id, shares)
      PROVE  a \in PoolRows /\ a.id = id
  <2>1. PICK score \in {NULL, 60, 80}, share \in shares, yield \in {NULL, -1, 1, 2} :
           a = Row(id, score, share, yield)
    BY <1>1 DEF RowsOf
  <2>2. score \in Figure /\ share \in Figure /\ yield \in Figure /\ id % 2 \in Int
    BY <2>1 DEF Figure
  <2> QED
    BY <2>1, <2>2 DEF Row, PoolRows
<1>2. Init => RowsArePools
  BY DEF Init, RowsArePools
<1>3. RowsArePools /\ [Next]_<<in, rows, points>> => RowsArePools'
  <2> SUFFICES ASSUME RowsArePools, [Next]_<<in, rows, points>> PROVE RowsArePools'
    OBVIOUS
  <2>1. CASE ChoosePools
    <3>1. PICK a \in RowsOf(1, {NULL, 50, 51}), b \in RowsOf(2, {50, 51}), c \in RowsOf(3, {50}) :
             rows' = {a, b, c}
      BY <2>1 DEF ChoosePools
    <3>2. {NULL, 50, 51} \in SUBSET Figure /\ {50, 51} \in SUBSET Figure /\ {50} \in SUBSET Figure
      BY DEF Figure
    <3>3. a \in PoolRows /\ a.id = 1
      BY <1>1, <3>2
    <3>4. b \in PoolRows /\ b.id = 2
      BY <1>1, <3>2
    <3>5. c \in PoolRows /\ c.id = 3
      BY <1>1, <3>2
    <3> QED
      BY <3>1, <3>3, <3>4, <3>5 DEF RowsArePools
  <2>2. CASE rows' = rows
    BY <2>2 DEF RowsArePools
  <2>3. CASE rows' = {}
    BY <2>3 DEF RowsArePools
  <2> QED
    BY <2>1, <2>2, <2>3 DEF Next, ChooseSeries, ChooseHistory, Return
<1> QED
  BY <1>2, <1>3, PTL DEF Spec

LEMMA SortValueIsFigure ==
    ASSUME NEW row \in PoolRows, NEW sort \in SortKeys, NEW profile \in Profiles
    PROVE  SortValue(row, sort, profile) \in Figure
<1>1. /\ row.score \in Figure /\ row.sustainable \in Figure /\ row.headline \in Figure
      /\ row.realized \in Figure /\ row.tvl \in Figure
  BY DEF PoolRows, Figure
<1>2. ProfileValue(row, profile) \in Figure
  <2>1. CASE NULL \in {row.sustainable, row.score}
    BY <2>1 DEF ProfileValue, Figure
  <2>2. CASE NULL \notin {row.sustainable, row.score}
    <3>1. row.score \in Int /\ row.sustainable \in Int
      BY <1>1, <2>2 DEF Figure
    <3>2. /\ row.sustainable * row.score \in Int
          /\ row.sustainable * row.score * row.score \in Int
          /\ Square(row.sustainable) * row.score \in Int
      BY <3>1 DEF Square
    <3> QED
      BY <2>2, <3>2 DEF ProfileValue, Profiles, Figure
  <2> QED
    BY <2>1, <2>2
<1> QED
  BY <1>1, <1>2 DEF SortValue, SortKeys

(* compareNumbers' order with nulls last and ties by id is a strict total  *)
(* order of the pools.                                                     *)
LEMMA BeforeIsStrictTotal ==
    ASSUME NEW a \in [id : Int, value : Figure], NEW b \in [id : Int, value : Figure],
           NEW c \in [id : Int, value : Figure]
    PROVE  /\ a.id # b.id => (Before(a, b) <=> ~Before(b, a))
           /\ Before(a, b) /\ Before(b, c) => Before(a, c)
  BY DEF Before, Figure

(* For every profile and sort key the list does not depend on the order of *)
(* the rows, whatever the pools' figures and however many are missing      *)
(* (comparePools).                                                         *)
THEOREM OrderIsDeterministic == Spec => []RankingIsDeterministic
<1>1. RowsArePools => RankingIsDeterministic
  <2> SUFFICES ASSUME RowsArePools, NEW profile \in Profiles, NEW sort \in SortKeys,
                      NEW a \in rows, NEW b \in rows
               PROVE  /\ a # b => (Above(a, b, sort, profile) <=> ~Above(b, a, sort, profile))
                      /\ \A c \in rows :
                            Above(a, b, sort, profile) /\ Above(b, c, sort, profile)
                                => Above(a, c, sort, profile)
    BY DEF RankingIsDeterministic
  <2>1. ASSUME NEW r \in rows
        PROVE  Key(r, sort, profile) \in [id : Int, value : Figure] /\ Key(r, sort, profile).id = r.id
    BY SortValueIsFigure DEF Key, RowsArePools, PoolRows
  <2>2. a # b => Key(a, sort, profile).id # Key(b, sort, profile).id
    BY <2>1 DEF RowsArePools
  <2>3. a # b => (Above(a, b, sort, profile) <=> ~Above(b, a, sort, profile))
    BY <2>1, <2>2, BeforeIsStrictTotal DEF Above
  <2>4. ASSUME NEW c \in rows, Above(a, b, sort, profile), Above(b, c, sort, profile)
        PROVE  Above(a, c, sort, profile)
    BY <2>1, <2>4, BeforeIsStrictTotal DEF Above
  <2> QED
    BY <2>3, <2>4
<1> QED
  BY <1>1, RowsInvariant, PTL

(* The list agrees with the figures it shows, for every pool: descending   *)
(* risk-adjusted yields, the conservative profile's omissions flagged, and *)
(* the profiles nested (eligible, profileValue, toSummary).                *)
THEOREM ListMatchesFigures == Spec => []RankingMatchesDisplay
<1>1. RowsArePools => RankingMatchesDisplay
  <2> SUFFICES ASSUME RowsArePools PROVE RankingMatchesDisplay
    OBVIOUS
  <2>1. ASSUME NEW r \in rows
        PROVE  /\ r \in PoolRows /\ r.score \in Figure /\ r.sustainable \in Figure
               /\ r.emissions_share \in Figure /\ Share(r) \in Int
    BY DEF RowsArePools, PoolRows, Share, Figure
  <2>2. ASSUME NEW a \in rows, NEW b \in rows, Above(a, b, "risk_adjusted", "balanced"),
               Summary(b).risk_adjusted_yield # NULL
        PROVE  /\ Summary(a).risk_adjusted_yield # NULL
               /\ Summary(a).risk_adjusted_yield >= Summary(b).risk_adjusted_yield
    <3>1. ASSUME NEW r \in rows
          PROVE  /\ Key(r, "risk_adjusted", "balanced").value = Summary(r).risk_adjusted_yield
                 /\ Summary(r).risk_adjusted_yield \in Figure
      <4>1. Key(r, "risk_adjusted", "balanced").value = ProfileValue(r, "balanced")
        BY DEF Key, SortValue
      <4>2. ProfileValue(r, "balanced") = Summary(r).risk_adjusted_yield
        BY DEF ProfileValue, Summary
      <4>3. ProfileValue(r, "balanced") \in Figure
        BY <2>1, SortValueIsFigure DEF SortValue, SortKeys, Profiles
      <4> QED
        BY <4>1, <4>2, <4>3
    <3> QED
      BY <2>2, <3>1 DEF Above, Before, Figure
  <2>3. ASSUME NEW r \in rows, r.score # NULL, r.score >= MinScore["conservative"]
        PROVE  r \notin Included(rows, "conservative") <=> Summary(r).mostly_bonus_tokens
    <3>1. Eligible(r, "conservative") <=> ~(Share(r) > 50)
      BY <2>1, <2>3 DEF Eligible, MaxEmissionsShare
    <3>2. Summary(r).mostly_bonus_tokens = (Share(r) > 50)
      BY DEF Summary
    <3> QED
      BY ONLY <3>1, <3>2, r \in rows, Zenon DEF Included
  <2>4. ASSUME NEW r \in rows
        PROVE  /\ Eligible(r, "conservative") => Eligible(r, "balanced")
               /\ Eligible(r, "balanced") => Eligible(r, "aggressive")
    BY <2>1 DEF Eligible, MinScore, MaxEmissionsShare, Figure
  <2> QED
    BY <2>2, <2>3, <2>4 DEF RankingMatchesDisplay, Included
<1> QED
  BY <1>1, RowsInvariant, PTL

-----------------------------------------------------------------------------
(* History. *)

(* Every non-empty set of naturals has a least element, and a greatest one *)
(* if it is bounded.                                                       *)
LEMMA LeastExists ==
    ASSUME NEW T \in SUBSET Nat, T # {}
    PROVE  \E x \in T : \A y \in T : x <= y
<1> DEFINE R == {ss \in Nat \X Nat : ss[1] < ss[2]}
<1>1. IsWellFoundedOn(R, Nat)
  BY NatLessThanWellFounded DEF OpToRel
<1>2. \A x, y \in Nat : x < y => <<x, y>> \in R
  OBVIOUS
<1> HIDE DEF R
<1>3. PICK x \in T : \A y \in T : ~ (<<y, x>> \in R)
  BY <1>1, WFMin
<1>4. ASSUME NEW y \in T PROVE x <= y
  <2>1. x \in Nat /\ y \in Nat
    OBVIOUS
  <2>2. ~(y < x)
    BY <1>2, <1>3, <2>1, Zenon
  <2> QED
    BY <2>1, <2>2
<1> QED
  BY <1>4

LEMMA GreatestExists ==
    ASSUME NEW T \in SUBSET Nat, T # {}, NEW b \in Nat, \A t \in T : t <= b
    PROVE  \E x \in T : \A y \in T : y <= x
<1> DEFINE D == {b - t : t \in T}
<1>1. \A t \in T : b - t \in Nat
  OBVIOUS
<1>2. D \in SUBSET Nat /\ D # {}
  BY <1>1
<1>3. \A t \in T : b - t \in D
  OBVIOUS
<1>4. \A d \in D : \E t \in T : d = b - t
  OBVIOUS
<1> HIDE DEF D
<1>5. PICK d \in D : \A e \in D : d <= e
  BY <1>2, LeastExists
<1>6. PICK x \in T : d = b - x
  BY <1>4
<1>7. ASSUME NEW y \in T PROVE y <= x
  BY <1>3, <1>5, <1>6
<1> QED
  BY <1>7

Snapshots == [ts : 0 .. LastTime, rated : BOOLEAN]

LEMMA PointsInvariant == Spec => [](points \in SUBSET Snapshots)
<1>1. ASSUME NEW h \in Histories PROVE h \in SUBSET Snapshots
  <2>1. PICK times \in SUBSET (0 .. LastTime), unrated \in 0 .. LastTime + 1 :
           h = History(times, unrated)
    BY <1>1 DEF Histories
  <2>2. ASSUME NEW t \in 0 .. LastTime PROVE [ts |-> t, rated |-> t # unrated] \in Snapshots
    <3>1. (t # unrated) \in BOOLEAN
      OBVIOUS
    <3> QED
      BY <3>1 DEF Snapshots
  <2> QED
    BY <2>1, <2>2 DEF History
<1>2. Init => points \in SUBSET Snapshots
  BY DEF Init
<1>3. points \in SUBSET Snapshots /\ [Next]_<<in, rows, points>> => (points \in SUBSET Snapshots)'
  BY <1>1 DEF Next, ChooseSeries, ChoosePools, ChooseHistory, Return
<1> QED
  BY <1>2, <1>3, PTL DEF Spec

(* The newest point, once there is one no older than any.                  *)
LEMMA NewestIs ==
    ASSUME NEW X, \A q \in X : q.ts \in Int, NEW n \in X, \A q \in X : q.ts <= n.ts
    PROVE  Newest(X) \in X /\ Newest(X).ts = n.ts
<1>1. Newest(X) \in X /\ \A q \in X : q.ts <= Newest(X).ts
  BY DEF Newest
<1> QED
  BY <1>1

(* Only points of the week before a day decide its realized APY, so a chart*)
(* loses nothing by fetching no more than that (pools.repo.ts, history.ts).*)
THEOREM ChartNeedsOneWindowMore == Spec => []LeadInSuffices
<1> USE GridAssumption, DayAssumption
<1>1. ASSUME points \in SUBSET Snapshots, points # {}
      PROVE  Chart(points, Days) = Since(WithRealized(DailyLast(points)), Days)
  <2>1. \A p \in points : p.ts \in Nat /\ p.ts <= LastTime
    BY <1>1 DEF Snapshots
  <2>2. PICK n \in points : \A q \in points : q.ts <= n.ts
    <3> DEFINE T == {p.ts : p \in points}
    <3>1. T \in SUBSET Nat /\ T # {} /\ \A t \in T : t <= LastTime
      BY <1>1, <2>1
    <3>2. PICK x \in T : \A y \in T : y <= x
      BY <3>1, GreatestExists
    <3> QED
      BY <3>2
  <2> DEFINE far     == n.ts - (Days + LeadIn) * DAY
             near    == n.ts - Days * DAY
             fetched == {p \in points : p.ts >= far}
             all     == DailyLast(points)
             some    == DailyLast(fetched)
  <2>3. near \in Int /\ far \in Int /\ far = near - WINDOW * DAY /\ WINDOW * DAY \in Nat
        /\ near <= n.ts /\ far <= n.ts
    <3>1. (Days + WINDOW) * DAY = Days * DAY + WINDOW * DAY /\ Days * DAY \in Nat /\ WINDOW * DAY \in Nat
      OBVIOUS
    <3> QED
      BY <2>1, <3>1 DEF LeadIn
  <2> HIDE DEF far, near
  <2>4. Since(points, Days + LeadIn) = fetched
    <3>1. Newest(points).ts = n.ts
      BY <2>1, <2>2, NewestIs
    <3> QED
      BY <3>1 DEF Since, far
  <2>5. some = {p \in all : p.ts >= far}
    <3>1. some \subseteq {p \in all : p.ts >= far}
      <4> SUFFICES ASSUME NEW p \in some,
                          NEW q \in points, q.ts \div DAY = p.ts \div DAY
                   PROVE  p \in points /\ p.ts >= far /\ q.ts <= p.ts
        BY DEF DailyLast
      <4>1. p \in points /\ p.ts >= far
        BY DEF DailyLast
      <4>2. q \in fetched => q.ts <= p.ts
        BY DEF DailyLast
      <4> QED
        BY <2>1, <2>3, <4>1, <4>2
    <3>2. {p \in all : p.ts >= far} \subseteq some
      BY DEF DailyLast
    <3> QED
      BY <3>1, <3>2
  <2>6. n \in all /\ n \in some /\ all \subseteq points
    <3>1. n \in all /\ all \subseteq points
      BY <2>2 DEF DailyLast
    <3> QED
      BY <2>3, <2>5, <3>1
  <2> HIDE DEF all, some, fetched
  <2>7. ASSUME NEW p \in some, p.ts >= near
        PROVE  RealizedFrom(p, some) = RealizedFrom(p, all)
    <3>1. {q \in some : q.ts < p.ts /\ q.ts >= p.ts - WINDOW * DAY}
            = {q \in all : q.ts < p.ts /\ q.ts >= p.ts - WINDOW * DAY}
      <4>1. ASSUME NEW q \in all, q.ts >= p.ts - WINDOW * DAY PROVE q \in some
        <5>1. q.ts \in Int /\ p.ts \in Int
          BY <2>1, <2>5, <2>6
        <5> QED
          BY <2>3, <2>5, <2>7, <4>1, <5>1
      <4> QED
        BY <2>5, <4>1
    <3> QED
      BY <3>1 DEF RealizedFrom
  <2>8. ASSUME NEW X \in SUBSET points, n \in X
        PROVE  Since(WithRealized(X), Days) =
                 {w \in WithRealized(X) : w.ts >= near}
    <3>1. \A w \in WithRealized(X) : w.ts \in Int /\ w.ts <= n.ts
      BY <2>1, <2>2 DEF WithRealized
    <3>2. \E w \in WithRealized(X) : w.ts = n.ts
      <4>1. [ts |-> n.ts, realized |-> RealizedFrom(n, X)] \in WithRealized(X)
        BY <2>8 DEF WithRealized
      <4> QED
        BY <4>1
    <3>3. Newest(WithRealized(X)).ts = n.ts
      BY <3>1, <3>2, NewestIs
    <3> QED
      BY <3>3 DEF Since, near
  <2>9. {w \in WithRealized(some) : w.ts >= near} = {w \in WithRealized(all) : w.ts >= near}
    <3>1. ASSUME NEW w \in WithRealized(some), w.ts >= near PROVE w \in WithRealized(all)
      <4>1. PICK p \in some : w = [ts |-> p.ts, realized |-> RealizedFrom(p, some)]
        BY DEF WithRealized
      <4>2. p \in all /\ RealizedFrom(p, some) = RealizedFrom(p, all)
        BY <2>5, <2>7, <3>1, <4>1
      <4> QED
        BY <4>1, <4>2 DEF WithRealized
    <3>2. ASSUME NEW w \in WithRealized(all), w.ts >= near PROVE w \in WithRealized(some)
      <4>1. PICK p \in all : w = [ts |-> p.ts, realized |-> RealizedFrom(p, all)]
        BY DEF WithRealized
      <4>2. p \in some
        BY <2>1, <2>3, <2>5, <2>6, <3>2, <4>1
      <4>3. RealizedFrom(p, some) = RealizedFrom(p, all)
        BY <2>7, <3>2, <4>1, <4>2
      <4> QED
        BY <4>1, <4>2, <4>3 DEF WithRealized
    <3> QED
      BY <3>1, <3>2
  <2>10. some \subseteq points
    BY <2>5, <2>6
  <2>11. Chart(points, Days) = Since(WithRealized(some), Days)
    BY <2>4 DEF Chart, some
  <2>12. all = DailyLast(points)
    BY DEF all
  <2> QED
    BY <2>6, <2>8, <2>9, <2>10, <2>11, <2>12
<1>2. points \in SUBSET Snapshots => LeadInSuffices
  BY <1>1 DEF LeadInSuffices
<1> QED
  BY <1>2, PointsInvariant, PTL

-----------------------------------------------------------------------------
(* The cache.                                                              *)

Statements == {"pool", "sparklines", "history", "risk", "list"}

\* What statements have read, while the tables are at d and their versions
\* were replaced g ago: versions that there have been, none replaced longer
\* than n ago.
NoOlder(values, n, d, g) ==
    /\ DOMAIN values \subseteq Statements
    /\ \A s \in DOMAIN values : \A t \in Touches[s] :
          /\ values[s][t] \in Nat /\ values[s][t] <= d[t]
          /\ values[s][t] = d[t] \/ g[t][values[s][t]] <= n

CacheTyped ==
    /\ endpoint \in Endpoints
    /\ writes \in 0 .. MaxWrites[endpoint.name]
    /\ db \in [Tables -> Nat] /\ \A t \in Tables : db[t] <= writes + 1
    /\ gone = [t \in Tables |-> gone[t]]
    /\ \A t \in Tables : gone[t] \in [Versions -> Nat]
    /\ cache = [left |-> cache.left, took |-> cache.took, value |-> cache.value]
    /\ cache.left \in 0 .. endpoint.ttl /\ cache.took \in Nat
    /\ pc \in [Requests -> {"idle", "load", "set"}]
    /\ got = [r \in Requests |-> got[r]]
    /\ age \in [Requests -> 0 .. MaxLoad]

\* A version is only gone once there is a later one.
CurrentIsNotGone == \A t \in Tables : \A v \in Versions : v >= db[t] => gone[t][v] = 0

\* A request holds nothing that was replaced before its load began.
RequestsAreRecent ==
    \A r \in Requests :
        /\ pc[r] = "idle" => DOMAIN got[r] = {}
        /\ age[r] < MaxLoad => NoOlder(got[r], age[r], db, gone)

\* The ticks of the load and those the entry has lived.
EntryIsRecent ==
    cache.left > 0 /\ cache.took < MaxLoad =>
        NoOlder(cache.value, cache.took + (endpoint.ttl - cache.left), db, gone)

CacheInv == CacheTyped /\ CurrentIsNotGone /\ RequestsAreRecent /\ EntryIsRecent

LEMMA EndpointFacts ==
    ASSUME NEW e \in Endpoints
    PROVE  e.reads \subseteq Statements /\ e.ttl \in Nat \ {0} /\ MaxWrites[e.name] \in Nat
  BY CacheAssumption DEF Statements, Endpoints, PoolEndpoints, RiskEndpoints,
         SeriesEndpoints, Names

LEMMA TouchesTables == ASSUME NEW s \in Statements PROVE Touches[s] \subseteq Tables
  BY DEF Statements, Touches, Tables

(* A new version replaces only the current one, which was not gone yet.    *)
LEMMA WriteKeepsAge ==
    ASSUME NEW d \in [Tables -> Nat], NEW g, NEW u \in Tables,
           NEW e, e = [d EXCEPT ![u] = d[u] + 1],
           g[u][d[u]] = 0, NEW n \in Nat, NEW values, NoOlder(values, n, d, g)
    PROVE  NoOlder(values, n, e, g)
<1> SUFFICES ASSUME NEW s \in DOMAIN values, NEW t \in Touches[s]
             PROVE  /\ values[s][t] \in Nat /\ values[s][t] <= e[t]
                    /\ values[s][t] = e[t] \/ g[t][values[s][t]] <= n
  BY DEF NoOlder
<1>1. /\ values[s][t] \in Nat /\ values[s][t] <= d[t]
      /\ values[s][t] = d[t] \/ g[t][values[s][t]] <= n
  BY DEF NoOlder
<1>2. t \in Tables
  BY TouchesTables DEF NoOlder
<1>3. d[t] \in Nat /\ e[t] \in Nat /\ d[t] <= e[t] /\ (t # u => e[t] = d[t])
  BY <1>2
<1> QED
  BY <1>1, <1>2, <1>3

(* A tick makes everything one tick older.                                 *)
LEMMA TickAddsOne ==
    ASSUME NEW d \in [Tables -> Nat], NEW max \in Nat, \A t \in Tables : d[t] <= max,
           NEW g, \A t \in Tables : g[t] \in [0 .. max -> Nat],
           NEW limit \in Nat,
           NEW h, h = [t \in Tables |-> [v \in DOMAIN g[t] |->
                          IF v < d[t] /\ g[t][v] < limit THEN g[t][v] + 1 ELSE g[t][v]]],
           NEW n \in Nat, NEW values, NoOlder(values, n, d, g)
    PROVE  NoOlder(values, n + 1, d, h)
<1> SUFFICES ASSUME NEW s \in DOMAIN values, NEW t \in Touches[s]
             PROVE  /\ values[s][t] \in Nat /\ values[s][t] <= d[t]
                    /\ values[s][t] = d[t] \/ h[t][values[s][t]] <= n + 1
  BY DEF NoOlder
<1>1. /\ values[s][t] \in Nat /\ values[s][t] <= d[t]
      /\ values[s][t] = d[t] \/ g[t][values[s][t]] <= n
  BY DEF NoOlder
<1>2. t \in Tables
  BY TouchesTables DEF NoOlder
<1> DEFINE v == values[s][t]
<1>3. v \in 0 .. max /\ DOMAIN g[t] = 0 .. max /\ g[t][v] \in Nat
  BY <1>1, <1>2
<1>4. h[t][v] = IF v < d[t] /\ g[t][v] < limit THEN g[t][v] + 1 ELSE g[t][v]
  BY <1>2, <1>3
<1> HIDE DEF v
<1>5. h[t][v] <= g[t][v] + 1 /\ h[t][v] \in Nat
  BY <1>3, <1>4
<1> QED
  BY <1>1, <1>3, <1>5 DEF v

\* What a request's end and a statement's answer change: its own step, what
\* it holds, and how long it has taken.
LEMMA OneRequestMoves ==
    ASSUME CacheInv, NEW r \in Requests, UNCHANGED <<endpoint, db, gone>>,
           NEW step \in {"idle", "load", "set"}, pc' = [pc EXCEPT ![r] = step],
           NEW held, got' = [got EXCEPT ![r] = held],
           NEW n \in 0 .. MaxLoad, age' = [age EXCEPT ![r] = n],
           step = "idle" => DOMAIN held = {},
           n < MaxLoad => NoOlder(held, n, db, gone)
    PROVE  /\ RequestsAreRecent'
           /\ pc' \in [Requests -> {"idle", "load", "set"}]
           /\ got' = [q \in Requests |-> got'[q]]
           /\ age' \in [Requests -> 0 .. MaxLoad]
<1>1. got' = [q \in Requests |-> IF q = r THEN held ELSE got[q]]
  BY DEF CacheInv, CacheTyped
<1>2. pc' = [q \in Requests |-> IF q = r THEN step ELSE pc[q]]
  BY DEF CacheInv, CacheTyped
<1>3. age' = [q \in Requests |-> IF q = r THEN n ELSE age[q]]
  BY DEF CacheInv, CacheTyped
<1>4. ASSUME NEW q \in Requests
      PROVE  /\ pc'[q] = "idle" => DOMAIN got'[q] = {}
             /\ age'[q] < MaxLoad => NoOlder(got'[q], age'[q], db, gone)
  <2>1. CASE q = r
    BY <1>1, <1>2, <1>3, <2>1
  <2>2. CASE q # r
    <3>1. got'[q] = got[q] /\ pc'[q] = pc[q] /\ age'[q] = age[q]
      BY <1>1, <1>2, <1>3, <2>2
    <3> QED
      BY <3>1 DEF CacheInv, RequestsAreRecent
  <2> QED
    BY <2>1, <2>2
<1>5. RequestsAreRecent'
  BY <1>4 DEF RequestsAreRecent
<1>6. pc' \in [Requests -> {"idle", "load", "set"}]
  BY <1>2 DEF CacheInv, CacheTyped
<1>7. age' \in [Requests -> 0 .. MaxLoad]
  BY <1>3 DEF CacheInv, CacheTyped
<1> QED
  BY <1>1, <1>5, <1>6, <1>7

LEMMA InitCacheInv == ASSUME CacheInit PROVE CacheInv
<1>1. /\ endpoint \in Endpoints /\ writes = 0 /\ cache = NoEntry
      /\ gone = [t \in Tables |-> [v \in Versions |-> 0]]
      /\ pc = [r \in Requests |-> "idle"] /\ got = [r \in Requests |-> Nothing]
      /\ age = [r \in Requests |-> 0]
  BY DEF CacheInit
<1>2. db \in [Tables -> 0 .. 1]
  BY DEF CacheInit
<1>3. endpoint.ttl \in Nat /\ MaxWrites[endpoint.name] \in Nat /\ MaxLoad \in Nat
  BY <1>1, EndpointFacts, CacheAssumption
<1>4. DOMAIN Nothing = {}
  BY DEF Nothing
<1>5. CacheTyped
  <2>1. \A t \in Tables : db[t] \in Nat /\ db[t] <= writes + 1
    BY <1>1, <1>2
  <2>2. cache = [left |-> 0, took |-> 0, value |-> Nothing]
    BY <1>1 DEF NoEntry
  <2>3. db \in [Tables -> Nat]
    BY <1>2
  <2> QED
    BY <1>1, <1>3, <2>1, <2>2, <2>3 DEF CacheTyped
<1>6. CurrentIsNotGone
  BY <1>1 DEF CurrentIsNotGone
<1>7. \A r \in Requests : pc[r] = "idle" /\ DOMAIN got[r] = {}
  BY <1>1, <1>4
<1>8. RequestsAreRecent
  BY <1>7 DEF RequestsAreRecent, NoOlder
<1>9. EntryIsRecent
  BY <1>1 DEF EntryIsRecent, NoEntry
<1> QED
  BY <1>5, <1>6, <1>8, <1>9 DEF CacheInv

\* Neither the tables nor their past change.
LEMMA TablesStay ==
    ASSUME CacheInv, UNCHANGED <<endpoint, db, gone>>
    PROVE  CurrentIsNotGone' /\ (UNCHANGED cache => EntryIsRecent')
  BY DEF CacheInv, CurrentIsNotGone, EntryIsRecent, Versions

LEMMA NextCacheInv == ASSUME CacheInv, [CacheNext]_cacheVars PROVE CacheInv'
<1>1. ASSUME UNCHANGED cacheVars PROVE CacheInv'
  BY <1>1 DEF cacheVars, CacheInv, CacheTyped, CurrentIsNotGone, RequestsAreRecent,
              EntryIsRecent, Versions
<1>2. ASSUME NEW r \in Requests, Hit(r) PROVE CacheInv'
  BY <1>1, <1>2 DEF Hit
<1>3. ASSUME NEW r \in Requests, Miss(r) PROVE CacheInv'
  <2>1. /\ pc[r] = "idle" /\ pc' = [pc EXCEPT ![r] = "load"]
        /\ UNCHANGED <<endpoint, db, writes, gone, cache, got, age>>
    BY <1>3 DEF Miss, Goto
  <2>2. RequestsAreRecent' /\ CacheTyped'
    BY <2>1 DEF CacheInv, CacheTyped, RequestsAreRecent, Versions
  <2> QED
    BY <2>1, <2>2, TablesStay DEF CacheInv
<1>4. ASSUME NEW r \in Requests, NEW s \in endpoint.reads, Read(r, s) PROVE CacheInv'
  <2> DEFINE held == [q \in DOMAIN got[r] \cup {s} |->
                        IF q = s THEN [t \in Touches[s] |-> db[t]] ELSE got[r][q]]
  <2>1. /\ pc[r] = "load" /\ got' = [got EXCEPT ![r] = held]
        /\ UNCHANGED <<endpoint, db, writes, gone, cache, pc, age>>
    BY <1>4 DEF Read
  <2>2. age[r] \in 0 .. MaxLoad /\ (age[r] < MaxLoad => NoOlder(got[r], age[r], db, gone))
    BY DEF CacheInv, CacheTyped, RequestsAreRecent
  <2>3. s \in Statements
    BY EndpointFacts DEF CacheInv, CacheTyped
  <2>4. \A t \in Touches[s] : db[t] \in Nat
    BY <2>3, TouchesTables DEF CacheInv, CacheTyped
  <2>5. ASSUME age[r] < MaxLoad PROVE NoOlder(held, age[r], db, gone)
    <3>1. NoOlder(got[r], age[r], db, gone)
      BY <2>2, <2>5
    <3>2. DOMAIN held \subseteq Statements
      BY <3>1, <2>3 DEF NoOlder
    <3>3. ASSUME NEW q \in DOMAIN held, NEW t \in Touches[q]
          PROVE  /\ held[q][t] \in Nat /\ held[q][t] <= db[t]
                 /\ held[q][t] = db[t] \/ gone[t][held[q][t]] <= age[r]
      <4>1. CASE q = s
        BY <2>4, <4>1
      <4>2. CASE q # s
        BY <3>1, <3>3, <4>2 DEF NoOlder
      <4> QED
        BY <4>1, <4>2
    <3> QED
      BY <3>2, <3>3 DEF NoOlder
  <2> HIDE DEF held
  <2>6. pc' = [pc EXCEPT ![r] = "load"] /\ age' = [age EXCEPT ![r] = age[r]]
    BY <2>1 DEF CacheInv, CacheTyped
  <2>7. /\ RequestsAreRecent' /\ pc' \in [Requests -> {"idle", "load", "set"}]
        /\ got' = [q \in Requests |-> got'[q]] /\ age' \in [Requests -> 0 .. MaxLoad]
    BY <2>1, <2>2, <2>5, <2>6, OneRequestMoves
  <2>8. CacheTyped'
    BY <2>1, <2>7 DEF CacheInv, CacheTyped, Versions
  <2> QED
    BY <2>1, <2>7, <2>8, TablesStay DEF CacheInv
<1>5. ASSUME NEW r \in Requests, Leave(r), UNCHANGED <<endpoint, db, gone>>
      PROVE  /\ RequestsAreRecent' /\ pc' \in [Requests -> {"idle", "load", "set"}]
             /\ got' = [q \in Requests |-> got'[q]] /\ age' \in [Requests -> 0 .. MaxLoad]
  <2>1. /\ pc' = [pc EXCEPT ![r] = "idle"] /\ got' = [got EXCEPT ![r] = Nothing]
        /\ age' = [age EXCEPT ![r] = 0]
    BY <1>5 DEF Leave, Done, Goto
  <2>2. DOMAIN Nothing = {}
    BY DEF Nothing
  <2>3. NoOlder(Nothing, 0, db, gone) /\ 0 \in 0 .. MaxLoad
    BY <2>2, CacheAssumption DEF NoOlder
  <2> HIDE DEF Nothing
  <2> QED
    BY <1>5, <2>1, <2>2, <2>3, OneRequestMoves
<1>6. ASSUME NEW r \in Requests, Loaded(r) PROVE CacheInv'
  <2>1. pc[r] = "load" /\ UNCHANGED <<endpoint, db, writes, gone, cache>>
    BY <1>6 DEF Loaded
  <2>2. /\ RequestsAreRecent' /\ pc' \in [Requests -> {"idle", "load", "set"}]
        /\ got' = [q \in Requests |-> got'[q]] /\ age' \in [Requests -> 0 .. MaxLoad]
    <3>1. CASE Complete(got[r])
      <4>1. pc' = [pc EXCEPT ![r] = "set"] /\ UNCHANGED <<got, age>>
        BY <1>6, <3>1 DEF Loaded, Goto
      <4> QED
        BY <2>1, <4>1 DEF CacheInv, CacheTyped, RequestsAreRecent
    <3>2. CASE ~Complete(got[r])
      BY <1>5, <1>6, <2>1, <3>2 DEF Loaded
    <3> QED
      BY <3>1, <3>2
  <2>3. CacheTyped'
    BY <2>1, <2>2 DEF CacheInv, CacheTyped, Versions
  <2> QED
    BY <2>1, <2>2, <2>3, TablesStay DEF CacheInv
<1>7. ASSUME NEW r \in Requests, ReadFails(r) PROVE CacheInv'
  <2>1. Leave(r) /\ UNCHANGED <<endpoint, db, writes, gone, cache>>
    BY <1>7 DEF ReadFails
  <2>2. CacheTyped'
    BY <1>5, <2>1 DEF CacheInv, CacheTyped, Versions
  <2> QED
    BY <1>5, <2>1, <2>2, TablesStay DEF CacheInv
<1>8. ASSUME NEW r \in Requests, Set(r) PROVE CacheInv'
  <2>1. /\ Leave(r) /\ UNCHANGED <<endpoint, db, writes, gone>>
        /\ cache' \in {cache, [left |-> endpoint.ttl, took |-> age[r], value |-> got[r]]}
    BY <1>8 DEF Set
  <2>2. endpoint.ttl \in Nat \ {0} /\ age[r] \in 0 .. MaxLoad
    BY EndpointFacts DEF CacheInv, CacheTyped
  <2>3. CacheTyped'
    <3>1. /\ cache' = [left |-> cache'.left, took |-> cache'.took, value |-> cache'.value]
          /\ cache'.left \in 0 .. endpoint.ttl /\ cache'.took \in Nat
      BY <2>1, <2>2 DEF CacheInv, CacheTyped
    <3> QED
      BY <1>5, <2>1, <3>1 DEF CacheInv, CacheTyped, Versions
  <2>4. EntryIsRecent'
    <3>1. CASE cache' = cache
      BY <2>1, <3>1, TablesStay
    <3>2. CASE cache' = [left |-> endpoint.ttl, took |-> age[r], value |-> got[r]]
      <4>1. age[r] < MaxLoad => NoOlder(got[r], age[r], db, gone)
        BY DEF CacheInv, RequestsAreRecent
      <4>2. /\ cache'.value = got[r] /\ cache'.took = age[r]
            /\ cache'.took + (endpoint.ttl - cache'.left) = age[r]
        BY <2>2, <3>2
      <4> QED
        BY <2>1, <4>1, <4>2 DEF EntryIsRecent
    <3> QED
      BY <2>1, <3>1, <3>2
  <2> QED
    BY <1>5, <2>1, <2>3, <2>4, TablesStay DEF CacheInv
<1>9. ASSUME NEW u \in Tables, Write(u) PROVE CacheInv'
  <2>1. /\ writes < MaxWrites[endpoint.name] /\ writes' = writes + 1
        /\ db' = [db EXCEPT ![u] = db[u] + 1]
        /\ UNCHANGED <<endpoint, gone, cache, pc, got, age>>
    BY <1>9 DEF Write
  <2>2. /\ db \in [Tables -> Nat] /\ writes \in Nat /\ MaxWrites[endpoint.name] \in Nat
        /\ \A t \in Tables : db[t] <= writes + 1
    BY EndpointFacts DEF CacheInv, CacheTyped
  <2>3. gone[u][db[u]] = 0
    <3>1. db[u] \in Versions
      BY <2>1, <2>2 DEF Versions
    <3> QED
      BY <2>2, <3>1 DEF CacheInv, CurrentIsNotGone
  <2>4. /\ db' \in [Tables -> Nat] /\ writes' \in 0 .. MaxWrites[endpoint.name]
        /\ \A t \in Tables : db'[t] <= writes' + 1 /\ db[t] <= db'[t]
    BY <2>1, <2>2
  <2>5. CacheTyped'
    BY <2>1, <2>4 DEF CacheInv, CacheTyped, Versions
  <2>6. CurrentIsNotGone'
    <3> SUFFICES ASSUME NEW t \in Tables, NEW v \in Versions, v >= db'[t] PROVE gone[t][v] = 0
      BY <2>1 DEF CurrentIsNotGone, Versions
    <3>1. v \in Int /\ db[t] \in Int /\ db'[t] \in Int /\ db[t] <= db'[t]
      BY <2>2, <2>4 DEF Versions
    <3> QED
      BY <3>1 DEF CacheInv, CurrentIsNotGone
  <2>7. RequestsAreRecent'
    <3>1. ASSUME NEW r \in Requests, age[r] < MaxLoad PROVE NoOlder(got[r], age[r], db', gone)
      <4>1. NoOlder(got[r], age[r], db, gone) /\ age[r] \in Nat
        BY <3>1 DEF CacheInv, CacheTyped, RequestsAreRecent
      <4> QED
        BY <2>1, <2>2, <2>3, <4>1, WriteKeepsAge
    <3> QED
      BY <2>1, <3>1 DEF CacheInv, RequestsAreRecent
  <2>8. EntryIsRecent'
    <3> DEFINE old == cache.took + (endpoint.ttl - cache.left)
    <3>1. ASSUME cache.left > 0, cache.took < MaxLoad PROVE NoOlder(cache.value, old, db', gone)
      <4>1. NoOlder(cache.value, old, db, gone)
        BY <3>1 DEF CacheInv, EntryIsRecent
      <4>2. old \in Nat
        BY EndpointFacts DEF CacheInv, CacheTyped
      <4> QED
        BY <2>1, <2>2, <2>3, <4>1, <4>2, WriteKeepsAge
    <3> QED
      BY <2>1, <3>1 DEF EntryIsRecent
  <2> QED
    BY <2>5, <2>6, <2>7, <2>8 DEF CacheInv
<1>10. ASSUME Tick PROVE CacheInv'
  <2>1. /\ cache' = IF cache.left <= 1 THEN NoEntry ELSE [cache EXCEPT !.left = cache.left - 1]
        /\ age' = [r \in Requests |-> IF pc[r] # "idle" /\ age[r] < MaxLoad THEN age[r] + 1 ELSE age[r]]
        /\ gone' = [t \in Tables |-> [v \in DOMAIN gone[t] |->
                      IF v < db[t] /\ gone[t][v] < Longest THEN gone[t][v] + 1 ELSE gone[t][v]]]
        /\ UNCHANGED <<endpoint, db, writes, pc, got>>
    BY <1>10 DEF Tick
  <2>2. /\ endpoint.ttl \in Nat \ {0} /\ Longest \in Nat /\ MaxLoad \in Nat
        /\ MaxWrites[endpoint.name] \in Nat
    <3>1. endpoint.ttl \in Nat \ {0} /\ MaxWrites[endpoint.name] \in Nat
      BY EndpointFacts DEF CacheInv, CacheTyped
    <3>2. MaxLoad \in Nat \ {0}
      BY CacheAssumption
    <3> QED
      BY <3>1, <3>2 DEF Longest
  <2>3. ASSUME NEW t \in Tables
        PROVE  /\ gone'[t] \in [Versions -> Nat]
               /\ \A v \in Versions : v >= db[t] => gone'[t][v] = 0
    <3>1. gone[t] \in [Versions -> Nat] /\ db[t] \in Nat
          /\ \A v \in Versions : v >= db[t] => gone[t][v] = 0
      BY DEF CacheInv, CacheTyped, CurrentIsNotGone
    <3>2. gone'[t] = [v \in Versions |->
                        IF v < db[t] /\ gone[t][v] < Longest THEN gone[t][v] + 1 ELSE gone[t][v]]
      BY <2>1, <3>1
    <3>3. ASSUME NEW v \in Versions
          PROVE  gone'[t][v] \in Nat /\ (v >= db[t] => gone'[t][v] = 0)
      <4>1. gone[t][v] \in Nat /\ v \in Int /\ db[t] \in Int
        BY <2>2, <3>1, <3>3 DEF Versions
      <4>2. gone'[t][v] = IF v < db[t] /\ gone[t][v] < Longest THEN gone[t][v] + 1 ELSE gone[t][v]
        BY ONLY <3>2, <3>3
      <4>3. v >= db[t] => gone[t][v] = 0
        BY ONLY <3>1, <3>3
      <4> HIDE DEF Longest
      <4> QED
        BY <4>1, <4>2, <4>3
    <3> QED
      BY <3>2, <3>3
  <2>4. ASSUME NEW values, NEW n \in Nat, NoOlder(values, n, db, gone)
        PROVE  NoOlder(values, n + 1, db, gone')
    <3>1. MaxWrites[endpoint.name] + 1 \in Nat
          /\ \A t \in Tables : db[t] <= MaxWrites[endpoint.name] + 1
      BY <2>2 DEF CacheInv, CacheTyped
    <3>2. db \in [Tables -> Nat]
          /\ \A t \in Tables : gone[t] \in [0 .. MaxWrites[endpoint.name] + 1 -> Nat]
      BY DEF CacheInv, CacheTyped, Versions
    <3> QED
      BY <2>1, <2>2, <2>4, <3>1, <3>2, TickAddsOne
  <2>5. age' \in [Requests -> 0 .. MaxLoad]
    <3>1. age \in [Requests -> 0 .. MaxLoad]
      BY DEF CacheInv, CacheTyped
    <3> QED
      BY <2>1, <2>2, <3>1
  <2>6. CacheTyped'
    <3>1. /\ cache' = [left |-> cache'.left, took |-> cache'.took, value |-> cache'.value]
          /\ cache'.left \in 0 .. endpoint.ttl /\ cache'.took \in Nat
      BY <2>1, <2>2 DEF CacheInv, CacheTyped, NoEntry
    <3>2. gone' = [t \in Tables |-> gone'[t]]
      BY <2>1
    <3> QED
      BY <2>1, <2>3, <2>5, <3>1, <3>2 DEF CacheInv, CacheTyped, Versions
  <2>7. CurrentIsNotGone'
    BY <2>1, <2>3 DEF CurrentIsNotGone, Versions
  <2>8. RequestsAreRecent'
    <3> SUFFICES ASSUME NEW r \in Requests
                 PROVE  /\ pc[r] = "idle" => DOMAIN got[r] = {}
                        /\ age'[r] < MaxLoad => NoOlder(got[r], age'[r], db, gone')
      BY <2>1 DEF RequestsAreRecent
    <3>1. /\ pc[r] = "idle" => DOMAIN got[r] = {}
          /\ age[r] < MaxLoad => NoOlder(got[r], age[r], db, gone)
          /\ age[r] \in Nat
      BY DEF CacheInv, CacheTyped, RequestsAreRecent
    <3>2. CASE pc[r] = "idle"
      BY <3>1, <3>2 DEF NoOlder
    <3>3. CASE pc[r] # "idle" /\ age[r] < MaxLoad
      <4>1. NoOlder(got[r], age[r] + 1, db, gone')
        BY <2>4, <3>1, <3>3
      <4>2. age'[r] = age[r] + 1
        BY <2>1, <3>3
      <4> QED
        BY <3>3, <4>1, <4>2
    <3>4. CASE pc[r] # "idle" /\ ~(age[r] < MaxLoad)
      <4>1. age'[r] = age[r]
        BY <2>1, <3>4
      <4> QED
        BY <3>4, <4>1
    <3> QED
      BY <3>2, <3>3, <3>4
  <2>9. EntryIsRecent'
    <3>1. CASE cache.left <= 1
      BY <2>1, <3>1 DEF EntryIsRecent, NoEntry
    <3>2. CASE cache.left > 1
      <4>1. /\ cache'.left = cache.left - 1 /\ cache'.value = cache.value
            /\ cache'.took = cache.took /\ cache.left \in 0 .. endpoint.ttl /\ cache.took \in Nat
        BY <2>1, <2>2, <3>2 DEF CacheInv, CacheTyped
      <4> SUFFICES ASSUME cache.took < MaxLoad
                   PROVE  NoOlder(cache.value, cache.took + (endpoint.ttl - (cache.left - 1)), db, gone')
        BY <2>1, <4>1 DEF EntryIsRecent
      <4>2. NoOlder(cache.value, cache.took + (endpoint.ttl - cache.left), db, gone)
        BY <3>2, <4>1 DEF CacheInv, EntryIsRecent
      <4>3. cache.took + (endpoint.ttl - cache.left) \in Nat
            /\ (cache.took + (endpoint.ttl - cache.left)) + 1
                    = cache.took + (endpoint.ttl - (cache.left - 1))
        BY <2>2, <4>1
      <4> QED
        BY <2>4, <4>2, <4>3
    <3>3. cache.left \in Nat
      BY <2>2 DEF CacheInv, CacheTyped
    <3> QED
      BY <3>1, <3>2, <3>3
  <2> QED
    BY <2>6, <2>7, <2>8, <2>9 DEF CacheInv
<1> QED
  BY <1>1, <1>2, <1>3, <1>4, <1>6, <1>7, <1>8, <1>9, <1>10 DEF CacheNext

(* However many requests overlap, whatever their statements see meanwhile, *)
(* however long a load takes and whichever of them stores last, nothing in *)
(* an answer was replaced longer ago than its load took and, with a hit,   *)
(* the entry has lived (CacheService.wrap).                                *)
THEOREM AnswersAreRecent == CacheSpec => []StalenessBounded
<1>1. CacheInv => StalenessBounded
  <2>1. ASSUME NEW values, NEW n, NoOlder(values, n, db, gone) PROVE Recent(values, n)
    BY <2>1 DEF NoOlder, Recent
  <2>2. CacheInv /\ cache.left > 0 /\ cache.took < MaxLoad =>
            Recent(cache.value, cache.took + (endpoint.ttl - cache.left))
    BY <2>1 DEF CacheInv, EntryIsRecent
  <2>3. ASSUME CacheInv, NEW r \in Requests, age[r] < MaxLoad PROVE Recent(got[r], age[r])
    BY <2>1, <2>3 DEF CacheInv, RequestsAreRecent
  <2> QED
    BY <2>2, <2>3 DEF StalenessBounded
<1> QED
  BY <1>1, InitCacheInv, NextCacheInv, PTL DEF CacheSpec

=============================================================================
