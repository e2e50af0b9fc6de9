-------------------------- MODULE WaterfallProofs --------------------------
(***************************************************************************)
(* Facts about the vault's arithmetic, for every width, rate and amount.   *)
(***************************************************************************)
EXTENDS Waterfall, TLAPS

(* Truncating division of naturals, as in math.rs: the quotient times the  *)
(* divisor is at most the dividend and less than one divisor short of it.  *)
LEMMA DivBounds ==
    ASSUME NEW a \in Nat, NEW b \in Nat, b > 0
    PROVE  /\ a \div b \in Nat
           /\ (a \div b) * b <= a
           /\ a < (a \div b) * b + b
  OBVIOUS

(* claim_amount of a holding within the tranche is an amount, at most the  *)
(* payout, and never more than the exact pro-rata part.                    *)
LEMMA ClaimBound ==
    ASSUME NEW pay \in Nat, NEW sh \in Nat, NEW total \in Nat,
           ClaimAmount(pay, sh, total) # NONE
    PROVE  /\ ClaimAmount(pay, sh, total) \in Nat
           /\ total > 0
           /\ ClaimAmount(pay, sh, total) * total <= pay * sh
<1>1. total > 0 BY DEF ClaimAmount
<1>2. pay * sh \in Nat OBVIOUS
<1>3. ClaimAmount(pay, sh, total) = (pay * sh) \div total
  BY <1>1, <1>2, WidthAssumption DEF ClaimAmount, ToU64, NONE
<1>. QED BY <1>1, <1>2, <1>3, DivBounds

(* More junior money never breaks the capacity rule: why deposit_junior    *)
(* need not check it.                                                      *)
LEMMA JuniorDepositKeepsRatio ==
    ASSUME NEW s \in Nat, NEW j \in Nat, NEW m \in Nat, NEW a \in Nat,
           m <= BPS, JuniorRatioOk(s, j, m)
    PROVE  JuniorRatioOk(s, j + a, m)
<1>. USE BpsAssumption
<1>1. a * BPS >= a * m OBVIOUS
<1>2. j * BPS >= (s + j) * m
  BY DEF JuniorRatioOk
<1>3. (j + a) * BPS = j * BPS + a * BPS OBVIOUS
<1>4. (s + (j + a)) * m = (s + j) * m + a * m OBVIOUS
<1>. QED BY <1>1, <1>2, <1>3, <1>4 DEF JuniorRatioOk

(* A simulated move takes no more than the pool holds.                     *)
LEMMA BpsOfBound ==
    ASSUME NEW amount \in Nat, NEW bps \in Nat, BpsOf(amount, bps) # NONE
    PROVE  BpsOf(amount, bps) \in Nat /\ BpsOf(amount, bps) <= amount
<1>. USE BpsAssumption
<1>1. bps <= BPS /\ BpsOf(amount, bps) = (amount * bps) \div BPS
  BY DEF BpsOf, ToU64, NONE
<1>2. amount * bps \in Nat /\ amount * bps <= amount * BPS
  BY <1>1
<1>3. BpsOf(amount, bps) \in Nat /\ BpsOf(amount, bps) * BPS <= amount * bps
  BY <1>1, <1>2, DivBounds
<1>. QED BY <1>2, <1>3

(* Products are monotone; stated once because the solver meets them under  *)
(* large hypotheses elsewhere.                                             *)
LEMMA ProductMonotone ==
    ASSUME NEW a \in Nat, NEW b \in Nat, NEW c \in Nat, a <= b
    PROVE  c * a <= c * b
  OBVIOUS

(* A whole number is within a quotient if and only if its product with the *)
(* divisor is within the dividend.                                         *)
LEMMA WithinQuotient ==
    ASSUME NEW x \in Nat, NEW m \in Nat, m > 0, NEW y \in Nat
    PROVE  y <= x \div m <=> y * m <= x
<1> DEFINE q == x \div m
<1>1. q \in Nat /\ q * m <= x /\ x < q * m + m
  BY DivBounds
<1> HIDE DEF q
<1>2. ASSUME y <= q PROVE y * m <= x
  <2>1. m * y <= m * q
    BY <1>1, <1>2, ProductMonotone
  <2> QED
    BY <1>1, <2>1
<1>3. ASSUME y * m <= x, y >= q + 1 PROVE FALSE
  <2>1. m * (q + 1) <= m * y
    BY <1>1, <1>3, ProductMonotone
  <2>2. m * (q + 1) = q * m + m
    BY <1>1
  <2> QED
    BY <1>1, <1>3, <2>1, <2>2
<1> QED
  BY <1>1, <1>2, <1>3 DEF q

(* Truncating division is monotone.                                        *)
LEMMA DivMonotone ==
    ASSUME NEW a \in Nat, NEW b \in Nat, NEW m \in Nat, m > 0, a <= b
    PROVE  a \div m <= b \div m
<1>1. a \div m \in Nat /\ (a \div m) * m <= b
  BY DivBounds
<1> QED
  BY <1>1, WithinQuotient

(* So are products in both factors.                                        *)
LEMMA ProductsMonotone ==
    ASSUME NEW a \in Nat, NEW b \in Nat, NEW c \in Nat, NEW d \in Nat, a <= c, b <= d
    PROVE  a * b \in Nat /\ a * b <= c * d
<1>1. a * b <= a * d
  BY ProductMonotone
<1>2. d * a <= d * c
  BY ProductMonotone
<1> QED
  BY <1>1, <1>2

(* What senior is owed grows with its principal, the rate and the term.    *)
LEMMA OwedMonotone ==
    ASSUME NEW a \in Nat, NEW b \in Nat, a <= b, NEW r \in Nat, NEW q \in Nat, r <= q,
           NEW s \in Nat, NEW t \in Nat, s <= t, SeniorOwed(b, q, t) # NONE
    PROVE  SeniorOwed(a, r, s) # NONE
<1>. DEFINE d == BPS * SECS_PER_YEAR
            x == a * r * s
            y == b * q * t
<1>1. d \in Nat /\ d > 0
  BY BpsAssumption, YearAssumption
<1>2. x \in Nat /\ y \in Nat /\ x <= y
  <2>1. a * r \in Nat /\ b * q \in Nat /\ a * r <= b * q
    BY ProductsMonotone
  <2>. QED
    BY <2>1, ProductsMonotone
<1>3. SeniorOwed(b, q, t) = ToU64(b + y \div d) /\ SeniorOwed(a, r, s) = ToU64(a + x \div d)
  BY DEF SeniorOwed
<1>. HIDE DEF x, y, d
<1>4. x \div d \in Nat /\ y \div d \in Nat /\ x \div d <= y \div d
  BY <1>1, <1>2, DivBounds, DivMonotone
<1>. QED
  BY <1>3, <1>4, WidthAssumption DEF ToU64, U64, NONE

(* One more claim keeps what a tranche was paid within the part of its     *)
(* payout that the burned shares stand for: d paid, c claimed for h of the *)
(* s outstanding shares, of principal p and payout y.                      *)
LEMMA ClaimKeepsShareOfPayout ==
    ASSUME NEW p \in Nat, NEW s \in Nat, NEW h \in Nat, NEW y \in Nat,
           NEW d \in Nat, NEW c \in Nat,
           p > 0, h <= s, s <= p, c * p <= y * h, d * p <= y * (p - s)
    PROVE  /\ (d + c) * p <= y * (p - (s - h))
           /\ d + c <= y
<1>1. (d + c) * p = d * p + c * p
  OBVIOUS
<1>2. y * (p - (s - h)) = y * (p - s) + y * h
  OBVIOUS
<1>3. (d + c) * p <= y * (p - (s - h))
  BY <1>1, <1>2
<1>4. y * (p - (s - h)) <= y * p
  BY ProductMonotone
<1>5. (d + c) * p <= y * p
  BY <1>3, <1>4
<1>6. SUFFICES ASSUME d + c >= y + 1 PROVE FALSE
  BY <1>3
<1>7. p * (y + 1) <= p * (d + c)
  BY <1>6, ProductMonotone
<1>. QED
  BY <1>5, <1>7

=============================================================================
