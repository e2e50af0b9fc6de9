-------------------------- MODULE IngestionProofs --------------------------
(***************************************************************************)
(* What the vault's risk gate is fed. For any number of protocols, any     *)
(* answers of the outside world and any number of faults, a pool that has  *)
(* data keeps having data.                                                 *)
(*                                                                         *)
(* And for any pools, documents and replies of the language model, what    *)
(* the score may say (DocAnalysis): better never scores lower, inventions  *)
(* never raise it, and only bad news can be missed.                        *)
(***************************************************************************)
EXTENDS Ingestion, DocAnalysis, FiniteSetTheorems, FunctionTheorems, TLAPS

(* The inductive invariant.  Replacing the seed's snapshots is harmless    *)
(* because it is a step of demo mode only, and in demo mode nothing but    *)
(* the seed ever wrote snapshots.                                          *)
ModeDecides ==
    /\ world.demo \in BOOLEAN
    /\ points \in [Protocols -> Nat]
    /\ In("ingest", "seed") => world.demo
    /\ In("ingest", "current") \/ In("ingest", "history") => ~world.demo
    /\ world.demo => \A p \in Protocols : points[p] > 0 => Kind(p) = "ok"
    /\ DOMAIN at = Jobs

LEMMA InitModeDecides == Init => ModeDecides
  BY IngestionAssumption DEF Init, ModeDecides, In, Idle, Kind, Jobs

LEMMA NextModeDecides == ModeDecides /\ [Next]_vars => ModeDecides'
<1> SUFFICES ASSUME ModeDecides, [Next]_vars PROVE ModeDecides'
  OBVIOUS
<1> USE IngestionAssumption DEF ModeDecides, In, Kind, Goto, Finish, Idle, Jobs, queues
<1>1. CASE StartIngest
  BY <1>1 DEF StartIngest
<1>2. CASE UpsertProtocol
  BY <1>2 DEF UpsertProtocol, Proceed
<1>3. CASE ReplaceSnapshots
  BY <1>3 DEF ReplaceSnapshots, Seeded
<1>4. CASE FetchCurrent
  BY <1>4 DEF FetchCurrent, Listed
<1>5. CASE FetchHistory
  <2>1. points' \in [Protocols -> Nat]
    BY <1>5 DEF FetchHistory
  <2>2. ~world.demo /\ UNCHANGED world
    BY <1>5 DEF FetchHistory
  <2>3. DOMAIN at' = Jobs /\ at'["ingest"].step \in {"history", "chain"}
    BY <1>5 DEF FetchHistory, Proceed
  <2> QED
    BY <2>1, <2>2, <2>3
<1>6. CASE EnqueueCompute \/ EnqueueFirstAnalysis
  BY <1>6 DEF EnqueueCompute, EnqueueFirstAnalysis, Enqueue
<1>7. ASSUME NEW k \in Jobs, StartLoop(k) PROVE ModeDecides'
  BY <1>7 DEF StartLoop
<1>8. ASSUME NEW k \in Jobs, k # "ingest", ReadSnapshots(k) PROVE ModeDecides'
  BY <1>8 DEF ReadSnapshots, Proceed
<1>9. ASSUME NEW step \in {"post", "thirty"}, UpsertRealized(step) PROVE ModeDecides'
  BY <1>9 DEF UpsertRealized, Proceed
<1>10. CASE UpsertScore
  BY <1>10 DEF UpsertScore, Proceed
<1>11. ASSUME NEW k \in Jobs, JobFails(k) PROVE ModeDecides'
  BY <1>11 DEF JobFails
<1>12. CASE Restart
  BY <1>12 DEF Restart
<1>13. CASE NewMinute \/ NewBucket \/ \E k \in Jobs : Schedule(k)
  BY <1>13 DEF NewMinute, NewBucket, Schedule
<1>14. CASE UNCHANGED vars
  BY <1>14 DEF vars
<1> QED
  BY <1>1, <1>2, <1>3, <1>4, <1>5, <1>6, <1>7, <1>8, <1>9, <1>10, <1>11, <1>12, <1>13, <1>14
     DEF Next, Take, Work, Ingest

(* Whatever fails, restarts or overlaps, no step takes the data of a       *)
(* listed pool away: not even the deletion of the seed's snapshots, which  *)
(* is one transaction with their insertion (ingestPools, replaceSnapshots).*)
THEOREM ListedForGood == Spec => OnceListedStaysListed
<1>1. ModeDecides /\ [Next]_vars => [\A p \in Protocols : points[p] > 0 => points'[p] > 0]_vars
  <2> SUFFICES ASSUME ModeDecides, [Next]_vars, NEW p \in Protocols, points[p] > 0
               PROVE  points'[p] > 0
    OBVIOUS
  <2> USE IngestionAssumption DEF ModeDecides
  <2>1. CASE ReplaceSnapshots
    BY <2>1 DEF ReplaceSnapshots, Seeded
  <2>2. CASE FetchCurrent
    BY <2>2 DEF FetchCurrent
  <2>3. CASE FetchHistory
    BY <2>3 DEF FetchHistory
  <2>4. CASE UNCHANGED points
    BY <2>4
  <2>5. ReplaceSnapshots \/ FetchCurrent \/ FetchHistory \/ UNCHANGED points
    BY DEF Next, Take, Work, Ingest, StartIngest, UpsertProtocol, EnqueueCompute,
           EnqueueFirstAnalysis, StartLoop, ReadSnapshots, UpsertRealized, UpsertScore, JobFails,
           Restart, Schedule, NewMinute, NewBucket, vars
  <2> QED
    BY <2>1, <2>2, <2>3, <2>4, <2>5
<1> QED
  BY <1>1, InitModeDecides, NextModeDecides, PTL DEF Spec, OnceListedStaysListed

-----------------------------------------------------------------------------
(* The score.                                                              *)

LEMMA AtLeastProduct ==
    ASSUME NEW a \in Nat, NEW b \in Nat, NEW c \in Nat, NEW d \in Nat, a <= c, b <= d
    PROVE  a * b \in Nat /\ a * b <= c * d
<1>1. a * b <= a * d
  OBVIOUS
<1>2. a * d <= c * d
  OBVIOUS
<1> QED
  BY <1>1, <1>2

(* Truncating division is monotone.                                        *)
LEMMA QuotientMonotone ==
    ASSUME NEW a \in Nat, NEW b \in Nat, NEW m \in Nat, m > 0, a <= b
    PROVE  a \div m \in Nat /\ a \div m <= b \div m
<1> DEFINE q == a \div m
           r == b \div m
<1>1. q \in Nat /\ q * m <= a
  OBVIOUS
<1>2. r \in Nat /\ b < r * m + m
  OBVIOUS
<1> HIDE DEF q, r
<1>3. SUFFICES ASSUME r + 1 <= q PROVE FALSE
  BY <1>1, <1>2 DEF q, r
<1>4. (r + 1) * m <= q * m
  BY <1>1, <1>2, <1>3, AtLeastProduct
<1>5. (r + 1) * m = r * m + m /\ r * m \in Nat /\ q * m \in Nat
  BY <1>1, <1>2
<1> QED
  BY <1>1, <1>2, <1>4, <1>5

\* A set of claims that says one thing of each subject of which there is one.
Extracted(ex) == ex \in SUBSET Claims /\ WellFormed(ex)

LEMMA SaysTheClaim ==
    ASSUME NEW ex, WellFormed(ex), NEW c \in ex, c.kind \notin {"audit", "incident"}, NEW default
    PROVE  Says(ex, c.kind, default) = c.says
<1>1. (CHOOSE d \in ex : d.kind = c.kind) = c
  BY DEF WellFormed
<1> QED
  BY <1>1 DEF Says

LEMMA SaysDefault ==
    ASSUME NEW ex, NEW kind, NEW default, \A c \in ex : c.kind # kind
    PROVE  Says(ex, kind, default) = default
  BY DEF Says

LEMMA SaysTyped ==
    ASSUME NEW ex, Extracted(ex)
    PROVE  /\ Says(ex, "oracle", "none") \in Oracles
           /\ Says(ex, "authority", "unknown") \in Authorities
<1>1. Says(ex, "oracle", "none") \in Oracles
  <2>1. CASE \E c \in ex : c.kind = "oracle"
    <3>1. PICK c \in ex : c.kind = "oracle"
      BY <2>1
    <3> QED
      BY <3>1, SaysTheClaim, AnalysisAssumption DEF Extracted
  <2>2. CASE \A c \in ex : c.kind # "oracle"
    BY <2>2, SaysDefault DEF Oracles
  <2> QED
    BY <2>1, <2>2
<1>2. Says(ex, "authority", "unknown") \in Authorities
  <2>1. CASE \E c \in ex : c.kind = "authority"
    <3>1. PICK c \in ex : c.kind = "authority"
      BY <2>1
    <3> QED
      BY <3>1, SaysTheClaim, AnalysisAssumption DEF Extracted
  <2>2. CASE \A c \in ex : c.kind # "authority"
    BY <2>2, SaysDefault DEF Authorities
  <2> QED
    BY <2>1, <2>2
<1> QED
  BY <1>1, <1>2

LEMMA Counts ==
    ASSUME NEW ex, Extracted(ex)
    PROVE  /\ IsFiniteSet(Audits(ex)) /\ IsFiniteSet(Incidents(ex))
           /\ Cardinality(Audits(ex)) \in Nat
           /\ Cardinality(Incidents(ex)) \in Nat
           /\ Cardinality(Audits(ex)) = 0 <=> Audits(ex) = {}
<1>1. Audits(ex) \in SUBSET Claims /\ Incidents(ex) \in SUBSET Claims
  BY DEF Extracted, Audits, Incidents
<1>2. IsFiniteSet(Audits(ex)) /\ IsFiniteSet(Incidents(ex))
  <2>1. IsFiniteSet(Claims)
    BY AnalysisAssumption
  <2> QED
    BY ONLY <1>1, <2>1, FS_Subset
<1> QED
  BY <1>2, FS_CardinalityType, FS_EmptySet

LEMMA PartCounts ==
    ASSUME NEW S, IsFiniteSet(S), NEW T \in SUBSET S
    PROVE  Cardinality(T) <= Cardinality(S)
  BY FS_Subset

\* What a list of claims reports, and takes off, is finite.
LEMMA FiniteFindings ==
    ASSUME NEW ex, Extracted(ex)
    PROVE  IsFiniteSet(Reported(ex)) /\ IsFiniteSet(TakenOff(ex))
<1>1. /\ IsFiniteSet(Audits(ex))
      /\ \A c \in Audits(ex) : c.findings \in Int
  BY Counts, AnalysisAssumption DEF Audits, Extracted
<1>2. ASSUME NEW c, NEW k \in Int PROVE IsFiniteSet({c} \X (1 .. k))
  <2>1. IsFiniteSet({c})
    BY ONLY FS_Singleton
  <2>2. IsFiniteSet(1 .. k)
    BY FS_Interval
  <2> QED
    BY ONLY <2>1, <2>2, FS_Product
<1>3. ASSUME NEW f, DOMAIN f = Audits(ex), f = [c \in Audits(ex) |-> f[c]],
             \A c \in Audits(ex) : IsFiniteSet(f[c])
      PROVE  IsFiniteSet(UNION {f[c] : c \in Audits(ex)})
  <2> DEFINE sets == {f[c] : c \in Audits(ex)}
  <2>1. f \in Surjection(Audits(ex), sets)
    BY <1>3 DEF Surjection
  <2> HIDE DEF sets
  <2>2. IsFiniteSet(sets)
    BY ONLY <1>1, <2>1, FS_Surjection
  <2>3. \A T \in sets : IsFiniteSet(T)
    BY <1>3 DEF sets
  <2>4. IsFiniteSet(UNION sets)
    BY ONLY <2>2, <2>3, FS_UNION
  <2> QED
    BY <2>4 DEF sets
<1>4. IsFiniteSet(Reported(ex))
  <2> DEFINE f == [c \in Audits(ex) |-> {c} \X (1 .. c.findings)]
  <2>1. \A c \in Audits(ex) : IsFiniteSet(f[c])
    BY <1>1, <1>2
  <2>2. DOMAIN f = Audits(ex) /\ f = [c \in Audits(ex) |-> f[c]]
    OBVIOUS
  <2>3. Reported(ex) = UNION {f[c] : c \in Audits(ex)}
    BY DEF Reported
  <2> HIDE DEF f
  <2> QED
    BY ONLY <1>3, <2>1, <2>2, <2>3
<1>5. IsFiniteSet(TakenOff(ex))
  <2> DEFINE f == [c \in Audits(ex) |-> {c} \X (1 .. -c.findings)]
  <2>1. ASSUME NEW c \in Audits(ex) PROVE IsFiniteSet(f[c])
    <3>1. -c.findings \in Int
      BY <1>1
    <3>2. IsFiniteSet({c} \X (1 .. -c.findings))
      BY ONLY <1>2, <3>1
    <3> QED
      BY <3>2
  <2>2. DOMAIN f = Audits(ex) /\ f = [c \in Audits(ex) |-> f[c]]
    OBVIOUS
  <2>3. TakenOff(ex) = UNION {f[c] : c \in Audits(ex)}
    BY DEF TakenOff
  <2> HIDE DEF f
  <2> QED
    BY ONLY <1>3, <2>1, <2>2, <2>3
<1> QED
  BY <1>4, <1>5

\* The audit factor in percent, of that many audits; the part of its age's
\* worth that a protocol keeps after that many incidents, in thousandths.
Clean(n) == IF n >= 3 THEN 100 ELSE 25 + 25 * n
AuditPercent(n, safe) == IF n = 0 THEN 0 ELSE IF safe THEN Clean(n) ELSE (Clean(n) * 2) \div 5
Kept(n) == IF n > 3 THEN 0 ELSE 1000 - 300 * n

LEMMA MoreAuditsAreBetter ==
    ASSUME NEW n \in Nat, NEW m \in Nat, m <= n, NEW safe \in BOOLEAN, NEW other \in BOOLEAN, other => safe
    PROVE  AuditPercent(m, other) \in Nat /\ AuditPercent(n, safe) \in 0 .. 100
           /\ AuditPercent(m, other) <= AuditPercent(n, safe)
<1>1. ASSUME NEW k \in Nat, NEW s \in BOOLEAN
      PROVE  AuditPercent(k, s) = CASE k = 0 -> 0
                                    [] k = 1 -> IF s THEN 50 ELSE 20
                                    [] k = 2 -> IF s THEN 75 ELSE 30
                                    [] k >= 3 -> IF s THEN 100 ELSE 40
  <2>1. (50 * 2) \div 5 = 20 /\ (75 * 2) \div 5 = 30 /\ (100 * 2) \div 5 = 40
    OBVIOUS
  <2>2. k = 0 \/ k = 1 \/ k = 2 \/ k >= 3
    OBVIOUS
  <2> QED
    BY <2>1, <2>2 DEF AuditPercent, Clean
<1> HIDE DEF AuditPercent
<1>2. AuditPercent(m, other) = CASE m = 0 -> 0
                                 [] m = 1 -> IF other THEN 50 ELSE 20
                                 [] m = 2 -> IF other THEN 75 ELSE 30
                                 [] m >= 3 -> IF other THEN 100 ELSE 40
  BY <1>1
<1>3. AuditPercent(n, safe) = CASE n = 0 -> 0
                                [] n = 1 -> IF safe THEN 50 ELSE 20
                                [] n = 2 -> IF safe THEN 75 ELSE 30
                                [] n >= 3 -> IF safe THEN 100 ELSE 40
  BY <1>1
<1> QED
  BY <1>2, <1>3

LEMMA FewerIncidentsAreBetter ==
    ASSUME NEW n \in Nat, NEW m \in Nat, n <= m
    PROVE  Kept(m) \in Nat /\ Kept(n) \in 0 .. 1000 /\ Kept(m) <= Kept(n)
  BY DEF Kept

LEMMA AuditQualityIs ==
    ASSUME NEW ex, Extracted(ex)
    PROVE  AuditQuality(ex)
             = Percent(AuditPercent(Cardinality(Audits(ex)), ~Unresolved(ex)))
<1> DEFINE n == Cardinality(Audits(ex))
<1>1. n \in Nat
  BY Counts
<1>2. Percent(0) = 0
  BY AnalysisAssumption DEF Percent
<1> HIDE DEF n
<1>3. CASE n = 0
  BY <1>1, <1>2, <1>3 DEF AuditQuality, AuditPercent, n
<1>4. CASE n # 0 /\ ~Unresolved(ex)
  BY <1>1, <1>4 DEF AuditQuality, AuditPercent, Clean, n
<1>5. CASE n # 0 /\ Unresolved(ex)
  BY <1>1, <1>5 DEF AuditQuality, AuditPercent, Clean, n
<1> QED
  BY <1>3, <1>4, <1>5 DEF n

LEMMA MaturityIs ==
    ASSUME NEW ex, Extracted(ex), NEW f \in Facts
    PROVE  Maturity(f, ex) = f.age * Kept(Cardinality(Incidents(ex)))
<1>1. f.age \in Nat
  BY AnalysisAssumption
<1>2. Cardinality(Incidents(ex)) \in Nat
  BY Counts
<1> QED
  BY <1>1, <1>2 DEF Maturity, Kept

LEMMA PercentMonotone ==
    ASSUME NEW p \in Nat, NEW q \in Nat, p <= q
    PROVE  Percent(p) \in Nat /\ Percent(p) <= Percent(q)
<1>1. F \in Nat
  BY AnalysisAssumption
<1>2. p * F \in Nat /\ q * F \in Nat /\ p * F <= q * F
  BY <1>1, AtLeastProduct
<1> QED
  BY <1>2 DEF Percent

LEMMA QuotientBelow ==
    ASSUME NEW a \in Nat, NEW m \in Nat, m > 0, NEW k \in Nat, a < (k + 1) * m
    PROVE  a \div m \in 0 .. k
<1> DEFINE q == a \div m
<1>1. q \in Nat /\ q * m <= a
  OBVIOUS
<1> HIDE DEF q
<1>2. SUFFICES ASSUME k + 1 <= q PROVE FALSE
  BY <1>1 DEF q
<1>3. (k + 1) * m <= q * m
  BY <1>1, <1>2, AtLeastProduct
<1>4. (k + 1) * m \in Nat /\ q * m \in Nat
  BY <1>1
<1> QED
  BY <1>1, <1>3, <1>4

\* The factors of a score, each a part of F * 1000.
OracleFactor(ex) == Percent(OracleValue[Says(ex, "oracle", "none")])
AuthorityFactor(ex) == Percent(AuthorityValue[Says(ex, "authority", "unknown")])

LEMMA Factors ==
    ASSUME NEW f \in Facts, NEW ex, Extracted(ex)
    PROVE  /\ AuditQuality(ex) \in 0 .. 1000 * F
           /\ Tvl(f) \in 0 .. 1000 * F
           /\ YieldSource(f) \in 0 .. 1000 * F
           /\ Maturity(f, ex) \in 0 .. 1000 * F
           /\ OracleFactor(ex) \in 0 .. 1000 * F
           /\ 1000 * f.liquid \in 0 .. 1000 * F
           /\ AuthorityFactor(ex) \in 0 .. 1000 * F
<1>1. /\ F \in Nat
      /\ f.size \in 0 .. F /\ f.drawdown \in 0 .. F /\ f.bonus \in 0 .. F /\ f.liquid \in 0 .. F /\ f.age \in 0 .. F
  BY AnalysisAssumption
<1>2. ASSUME NEW p \in 0 .. 100 PROVE Percent(p) \in 0 .. 1000 * F
  <2>1. p * F \in Nat /\ p * F <= 100 * F
    BY <1>1, AtLeastProduct
  <2> QED
    BY <1>1, <2>1 DEF Percent
<1>3. AuditQuality(ex) \in 0 .. 1000 * F
  <2> DEFINE n == Cardinality(Audits(ex))
             safe == ~Unresolved(ex)
  <2>1. safe \in BOOLEAN
    BY DEF Unresolved
  <2>2. n \in Nat
    BY Counts
  <2>3. AuditQuality(ex) = Percent(AuditPercent(n, safe))
    BY AuditQualityIs
  <2> HIDE DEF n, safe
  <2>4. AuditPercent(n, safe) \in 0 .. 100
    BY <2>1, <2>2, MoreAuditsAreBetter
  <2> QED
    BY <2>3, <2>4, <1>2
<1>4. Tvl(f) \in 0 .. 1000 * F /\ YieldSource(f) \in 0 .. 1000 * F /\ 1000 * f.liquid \in 0 .. 1000 * F
  BY <1>1 DEF Tvl, YieldSource
<1>5. Maturity(f, ex) \in 0 .. 1000 * F
  <2> DEFINE n == Cardinality(Incidents(ex))
  <2>1. n \in Nat
    BY Counts
  <2> HIDE DEF n
  <2>2. Kept(n) \in Nat /\ Kept(n) <= 1000
    BY <2>1 DEF Kept
  <2>3. f.age \in Nat /\ f.age <= F
    BY <1>1
  <2>4. f.age * Kept(n) \in Nat /\ f.age * Kept(n) <= F * 1000
    BY <1>1, <2>2, <2>3, AtLeastProduct
  <2>5. Maturity(f, ex) = f.age * Kept(n)
    BY MaturityIs DEF n
  <2> QED
    BY <1>1, <2>4, <2>5
<1>6. OracleFactor(ex) \in 0 .. 1000 * F
  <2>1. OracleValue[Says(ex, "oracle", "none")] \in 0 .. 100
    BY SaysTyped DEF Oracles, OracleValue
  <2> QED
    BY <2>1, <1>2 DEF OracleFactor
<1>7. AuthorityFactor(ex) \in 0 .. 1000 * F
  <2>1. AuthorityValue[Says(ex, "authority", "unknown")] \in 0 .. 100
    BY SaysTyped DEF Authorities, AuthorityValue
  <2> QED
    BY <2>1, <1>2 DEF AuthorityFactor
<1> QED
  BY <1>3, <1>4, <1>5, <1>6, <1>7

\* Their weighted sum, which the score rounds.
Weighed(f, ex) ==
    25 * AuditQuality(ex) + 20 * Tvl(f) + 20 * YieldSource(f)
      + 10 * Maturity(f, ex) + 10 * OracleFactor(ex) + 10 * (1000 * f.liquid) + 5 * AuthorityFactor(ex)

LEMMA ScoreIs ==
    ASSUME NEW f \in Facts, NEW ex, Extracted(ex)
    PROVE  /\ ScoreRisk(f, ex) = (Weighed(f, ex) + 500 * F) \div (1000 * F)
           /\ Weighed(f, ex) \in 0 .. 100000 * F
<1>1. F \in Nat /\ f.liquid \in Nat
  BY AnalysisAssumption
<1>2. 10 * 1000 * f.liquid = 10 * (1000 * f.liquid)
  BY <1>1
<1>3. ScoreRisk(f, ex) = (Weighed(f, ex) + 500 * F) \div (1000 * F)
  BY <1>2 DEF ScoreRisk, Weighed, OracleFactor, AuthorityFactor
<1>4. Weighed(f, ex) \in 0 .. 100000 * F
  BY <1>1, Factors DEF Weighed
<1> QED
  BY <1>3, <1>4

LEMMA ScoreInRange ==
    ASSUME NEW f \in Facts, NEW ex, Extracted(ex)
    PROVE  ScoreRisk(f, ex) \in 0 .. 100
<1> DEFINE total == Weighed(f, ex) + 500 * F
<1>1. F \in Nat /\ F > 0
  BY AnalysisAssumption
<1>2. total \in Nat /\ total < (100 + 1) * (1000 * F)
  BY <1>1, ScoreIs
<1> HIDE DEF total
<1>3. total \div (1000 * F) \in 0 .. 100
  BY <1>1, <1>2, QuotientBelow
<1> QED
  BY <1>3, ScoreIs DEF total

(* "Higher is safer", as a fact about the rules.                           *)
LEMMA ScoreMonotone ==
    ASSUME NEW f \in Facts, NEW ex, Extracted(ex), NEW g \in Facts, NEW other, Extracted(other),
           NoWorse(f, ex, g, other)
    PROVE  ScoreRisk(g, other) <= ScoreRisk(f, ex)
<1>1. /\ F \in Nat /\ F > 0
      /\ f.size \in 0 .. F /\ f.drawdown \in 0 .. F /\ f.bonus \in 0 .. F /\ f.liquid \in 0 .. F /\ f.age \in 0 .. F
      /\ g.size \in 0 .. F /\ g.drawdown \in 0 .. F /\ g.bonus \in 0 .. F /\ g.liquid \in 0 .. F /\ g.age \in 0 .. F
  BY AnalysisAssumption
<1>2. /\ f.size >= g.size /\ f.drawdown <= g.drawdown /\ f.bonus <= g.bonus
      /\ f.liquid >= g.liquid /\ f.age >= g.age
  BY DEF NoWorse
<1>3. AuditQuality(other) <= AuditQuality(ex)
  <2> DEFINE n == Cardinality(Audits(ex))
             m == Cardinality(Audits(other))
             safe == ~Unresolved(ex)
             safer == ~Unresolved(other)
  <2>1. n \in Nat /\ m \in Nat
    BY Counts
  <2>2. m <= n /\ (safer => safe)
    BY DEF NoWorse
  <2>3. safe \in BOOLEAN /\ safer \in BOOLEAN
    BY DEF Unresolved
  <2>4. AuditQuality(ex) = Percent(AuditPercent(n, safe))
    BY AuditQualityIs
  <2>5. AuditQuality(other) = Percent(AuditPercent(m, safer))
    BY AuditQualityIs
  <2> HIDE DEF n, m, safe, safer
  <2>6. /\ AuditPercent(m, safer) \in Nat /\ AuditPercent(n, safe) \in Nat
        /\ AuditPercent(m, safer) <= AuditPercent(n, safe)
    BY <2>1, <2>2, <2>3, MoreAuditsAreBetter
  <2> QED
    BY <2>4, <2>5, <2>6, PercentMonotone
<1>4. /\ Tvl(g) <= Tvl(f)
      /\ YieldSource(g) <= YieldSource(f)
      /\ 1000 * g.liquid <= 1000 * f.liquid
  BY <1>1, <1>2 DEF Tvl, YieldSource
<1>5. Maturity(g, other) <= Maturity(f, ex)
  <2> DEFINE n == Cardinality(Incidents(ex))
             m == Cardinality(Incidents(other))
  <2>1. n \in Nat /\ m \in Nat
    BY Counts
  <2>2. n <= m
    BY DEF NoWorse
  <2>3. Maturity(f, ex) = f.age * Kept(n)
    BY MaturityIs
  <2>4. Maturity(g, other) = g.age * Kept(m)
    BY MaturityIs
  <2> HIDE DEF n, m
  <2>5. Kept(m) \in Nat /\ Kept(n) \in Nat /\ Kept(m) <= Kept(n)
    BY <2>1, <2>2, FewerIncidentsAreBetter
  <2>6. g.age \in Nat /\ f.age \in Nat
    BY <1>1
  <2> QED
    BY <1>2, <2>3, <2>4, <2>5, <2>6, AtLeastProduct
<1>6. OracleFactor(other) <= OracleFactor(ex)
  <2> DEFINE said == Says(ex, "oracle", "none")
             says == Says(other, "oracle", "none")
  <2>1. said \in Oracles /\ says \in Oracles
    BY SaysTyped
  <2>2. OracleLadder[said] >= OracleLadder[says]
    BY DEF NoWorse
  <2> HIDE DEF said, says
  <2>3. /\ OracleValue[says] \in Nat /\ OracleValue[said] \in Nat
        /\ OracleValue[says] <= OracleValue[said]
    BY <2>1, <2>2 DEF Oracles, OracleLadder, OracleValue
  <2> QED
    BY <2>3, PercentMonotone DEF OracleFactor, said, says
<1>7. AuthorityFactor(other) <= AuthorityFactor(ex)
  <2> DEFINE said == Says(ex, "authority", "unknown")
             says == Says(other, "authority", "unknown")
  <2>1. said \in Authorities /\ says \in Authorities
    BY SaysTyped
  <2>2. Ladder[said] >= Ladder[says]
    BY DEF NoWorse
  <2> HIDE DEF said, says
  <2>3. /\ AuthorityValue[says] \in Nat /\ AuthorityValue[said] \in Nat
        /\ AuthorityValue[says] <= AuthorityValue[said]
    BY <2>1, <2>2 DEF Authorities, Ladder, AuthorityValue
  <2> QED
    BY <2>3, PercentMonotone DEF AuthorityFactor, said, says
<1>8. Weighed(g, other) <= Weighed(f, ex)
  <2>1. /\ AuditQuality(ex) \in Int /\ AuditQuality(other) \in Int
        /\ Tvl(f) \in Int /\ Tvl(g) \in Int
        /\ YieldSource(f) \in Int /\ YieldSource(g) \in Int
        /\ Maturity(f, ex) \in Int /\ Maturity(g, other) \in Int
        /\ OracleFactor(ex) \in Int /\ OracleFactor(other) \in Int
        /\ 1000 * f.liquid \in Int /\ 1000 * g.liquid \in Int
        /\ AuthorityFactor(ex) \in Int /\ AuthorityFactor(other) \in Int
    BY <1>1, Factors
  <2> QED
    BY <1>3, <1>4, <1>5, <1>6, <1>7, <2>1 DEF Weighed
<1>9. /\ Weighed(g, other) \in Nat /\ Weighed(f, ex) \in Nat
      /\ ScoreRisk(f, ex) = (Weighed(f, ex) + 500 * F) \div (1000 * F)
      /\ ScoreRisk(g, other) = (Weighed(g, other) + 500 * F) \div (1000 * F)
  BY <1>1, ScoreIs
<1> DEFINE a == Weighed(g, other) + 500 * F
           b == Weighed(f, ex) + 500 * F
           m == 1000 * F
<1>10. a \in Nat /\ b \in Nat /\ m \in Nat /\ m > 0 /\ a <= b
  BY <1>1, <1>8, <1>9
<1> HIDE DEF a, b, m
<1>11. a \div m <= b \div m
  BY <1>10, QuotientMonotone
<1> QED
  BY <1>9, <1>11 DEF a, b, m

-----------------------------------------------------------------------------
(* One pass of the analysis.                                               *)

(* The inductive invariant: there is an extraction only once it has been   *)
(* checked against the documents, and a score is the one of the extraction *)
(* and the figures it is stored with.                                      *)
Read ==
    /\ facts \in Facts
    /\ todo \in SUBSET Documents /\ docs \in SUBSET Documents
    /\ stage \in {"fetch", "ask", "score", "scored", "failed"}

OnlyTheSupported ==
    /\ Extracted(claims)
    /\ \A c \in claims : Supported(c)
    /\ stage \in {"fetch", "ask"} => claims = {}

ScoreOfWhatIsKept == stage = "scored" => score = ScoreRisk(facts, claims)

AnalysisInv == Read /\ OnlyTheSupported /\ ScoreOfWhatIsKept

LEMMA NothingExtracted == Extracted({})
  BY DEF Extracted, WellFormed

LEMMA FewerClaims ==
    ASSUME NEW ex, Extracted(ex), NEW part \in SUBSET ex
    PROVE  Extracted(part)
  BY DEF Extracted, WellFormed

LEMMA InitAnalysisInv == AnalysisInit => AnalysisInv
  BY NothingExtracted DEF AnalysisInit, AnalysisInv, Read, OnlyTheSupported, ScoreOfWhatIsKept

LEMMA NextAnalysisInv == AnalysisInv /\ [AnalysisNext]_(analysisVars) => AnalysisInv'
<1> SUFFICES ASSUME AnalysisInv, [AnalysisNext]_(analysisVars) PROVE AnalysisInv'
  OBVIOUS
<1> USE DEF AnalysisInv, Read
<1>1. CASE FetchDoc
  <2>1. Read' /\ claims' = claims /\ stage = "fetch" /\ stage' # "scored"
    BY <1>1 DEF FetchDoc, Fetched
  <2>2. claims' = {}
    BY <2>1 DEF OnlyTheSupported
  <2> QED
    BY <2>1, <2>2, NothingExtracted DEF OnlyTheSupported, ScoreOfWhatIsKept
<1>2. CASE Answer
  <2>1. PICK said \in Extractions : claims' = {c \in said : Supported(c)}
    BY <1>2 DEF Answer
  <2>2. Extracted(said) /\ claims' \in SUBSET said
    BY <2>1 DEF Extractions, Extracted
  <2>3. Extracted(claims')
    BY <2>2, FewerClaims
  <2>4. Read' /\ docs' = docs /\ stage' = "score"
    BY <1>2 DEF Answer
  <2>5. \A c \in claims' : Supported(c)'
    BY <2>1, <2>4 DEF Supported, QuoteOk
  <2>6. OnlyTheSupported'
    BY <2>3, <2>4, <2>5 DEF OnlyTheSupported
  <2> QED
    BY <2>4, <2>6 DEF ScoreOfWhatIsKept
<1>3. CASE InvalidReply \/ CallFails
  <2>1. Read' /\ UNCHANGED <<docs, claims>> /\ stage = "ask" /\ stage' \in {"ask", "failed"}
    BY <1>3 DEF InvalidReply, CallFails, Retry
  <2>2. claims' = {}
    BY <2>1 DEF OnlyTheSupported
  <2> QED
    BY <2>1, <2>2, NothingExtracted DEF OnlyTheSupported, ScoreOfWhatIsKept
<1>4. CASE Score
  <2>1. Read' /\ UNCHANGED <<facts, docs, claims>> /\ stage' = "scored"
        /\ score' = ScoreRisk(facts, claims)
    BY <1>4 DEF Score
  <2>2. OnlyTheSupported'
    BY <2>1 DEF OnlyTheSupported, Extracted, Supported, QuoteOk
  <2> QED
    BY <2>1, <2>2 DEF ScoreOfWhatIsKept
<1>5. CASE ScoreFails
  <2>1. Read' /\ UNCHANGED <<docs, claims>> /\ stage' = "failed"
    BY <1>5 DEF ScoreFails
  <2>2. OnlyTheSupported'
    BY <2>1 DEF OnlyTheSupported, Extracted, Supported, QuoteOk
  <2> QED
    BY <2>1, <2>2 DEF ScoreOfWhatIsKept
<1>6. CASE Again
  <2>1. Read' /\ claims' = {} /\ stage' = "fetch"
    BY <1>6 DEF Again
  <2> QED
    BY <2>1, NothingExtracted DEF OnlyTheSupported, ScoreOfWhatIsKept
<1>7. CASE UNCHANGED analysisVars
  BY <1>7 DEF analysisVars, OnlyTheSupported, ScoreOfWhatIsKept, Supported, QuoteOk
<1> QED
  BY <1>1, <1>2, <1>3, <1>4, <1>5, <1>6, <1>7 DEF AnalysisNext

(* "Higher is safer" (services/analytics/app/risk.py): of whatever two     *)
(* pools and whatever the language model made of their documents, the one  *)
(* that is in no respect worse does not have the lower score.              *)
THEOREM SaferIsNotLower ==
    AnalysisSpec => []HigherIsSafer
<1>1. AnalysisInv => HigherIsSafer
  <2> SUFFICES ASSUME AnalysisInv, stage = "scored", NEW g \in Facts, NEW other \in Extractions,
                      NoWorse(facts, claims, g, other)
               PROVE  score >= ScoreRisk(g, other)
    BY DEF HigherIsSafer
  <2>1. facts \in Facts /\ Extracted(claims) /\ score = ScoreRisk(facts, claims)
    BY DEF AnalysisInv, Read, OnlyTheSupported, ScoreOfWhatIsKept
  <2>2. Extracted(other)
    BY DEF Extractions, Extracted
  <2>3. ScoreRisk(g, other) <= ScoreRisk(facts, claims)
    BY <2>1, <2>2, ScoreMonotone
  <2>4. ScoreRisk(g, other) \in 0 .. 100 /\ ScoreRisk(facts, claims) \in 0 .. 100
    BY <2>1, <2>2, ScoreInRange
  <2> QED
    BY <2>1, <2>3, <2>4
<1> QED
  BY <1>1, InitAnalysisInv, NextAnalysisInv, PTL DEF AnalysisSpec

(* Whatever quotes and sources the language model makes up, the score is   *)
(* within 0 to 100 and no higher than what the entries with genuine quotes *)
(* would get alone (llm.py, validate_extraction): an incident needs no     *)
(* quote, but it can only lower a score.  Of the genuine entries each copy *)
(* counts.                                                                 *)
THEOREM FabricationDoesNotPay ==
    AnalysisSpec => []FabricationNeverRaises
<1>1. AnalysisInv => FabricationNeverRaises
  <2> SUFFICES ASSUME AnalysisInv, stage = "scored"
               PROVE  /\ score \in 0 .. 100
                      /\ score <= ScoreRisk(facts, {c \in claims : Genuine(c, docs)})
    BY DEF FabricationNeverRaises
  <2>1. /\ facts \in Facts /\ Extracted(claims)
        /\ score = ScoreRisk(facts, claims)
    BY DEF AnalysisInv, Read, OnlyTheSupported, ScoreOfWhatIsKept
  <2> DEFINE part == {c \in claims : Genuine(c, docs)}
  <2>2. \A c \in claims : c.kind # "incident" => c \in part
    <3> SUFFICES ASSUME NEW c \in claims, c.kind # "incident" PROVE Genuine(c, docs)
      OBVIOUS
    <3>1. Supported(c)
      BY DEF AnalysisInv, OnlyTheSupported
    <3> QED
      BY <3>1 DEF Supported, QuoteOk, Genuine
  <2>3. Extracted(part)
    BY <2>1, FewerClaims
  <2>4. NoWorse(facts, part, facts, claims)
    <3>1. Audits(part) = Audits(claims)
      BY <2>2 DEF Audits
    <3>2. Incidents(part) \in SUBSET Incidents(claims)
      BY DEF Incidents
    <3>3. Cardinality(Incidents(part)) <= Cardinality(Incidents(claims))
      BY <2>1, <3>2, Counts, PartCounts
    <3>4. ASSUME NEW kind \in {"oracle", "authority"}, NEW default
          PROVE  Says(part, kind, default) = Says(claims, kind, default)
      <4>1. CASE \E c \in claims : c.kind = kind
        <5>1. PICK c \in claims : c.kind = kind
          BY <4>1
        <5>2. c \in part /\ c.kind \notin {"audit", "incident"}
          BY <2>2, <5>1
        <5>3. WellFormed(claims) /\ WellFormed(part)
          BY <2>1, <2>3 DEF Extracted
        <5> HIDE DEF part
        <5>4. Says(part, c.kind, default) = c.says
          BY <5>2, <5>3, SaysTheClaim
        <5>5. Says(claims, c.kind, default) = c.says
          BY <5>2, <5>3, SaysTheClaim
        <5> QED
          BY <5>1, <5>4, <5>5
      <4>2. CASE \A c \in claims : c.kind # kind
        <5>1. \A c \in part : c.kind # kind
          BY <4>2
        <5> QED
          BY <4>2, <5>1, SaysDefault
      <4> QED
        BY <4>1, <4>2
    <3>5. /\ Says(claims, "oracle", "none") \in Oracles
          /\ Says(claims, "authority", "unknown") \in Authorities
      BY <2>1, SaysTyped
    <3>6. /\ Ladder[Says(claims, "authority", "unknown")] \in Int
          /\ OracleLadder[Says(claims, "oracle", "none")] \in Int
      BY <3>5 DEF Oracles, Authorities, Ladder, OracleLadder
    <3>7. /\ facts.size \in Int /\ facts.drawdown \in Int /\ facts.bonus \in Int
          /\ facts.liquid \in Int /\ facts.age \in Int
      BY <2>1, AnalysisAssumption
    <3>8. Cardinality(Audits(claims)) \in Nat
      BY <2>1, Counts
    <3>9. /\ Says(part, "oracle", "none") = Says(claims, "oracle", "none")
          /\ Says(part, "authority", "unknown") = Says(claims, "authority", "unknown")
      BY <3>4
    <3>10. Unresolved(part) <=> Unresolved(claims)
      BY <3>1 DEF Unresolved, Reported, TakenOff
    <3> HIDE DEF part
    <3> QED
      BY <3>1, <3>3, <3>6, <3>7, <3>8, <3>9, <3>10 DEF NoWorse
  <2> HIDE DEF part
  <2>5. ScoreRisk(facts, claims) <= ScoreRisk(facts, part)
    BY <2>1, <2>3, <2>4, ScoreMonotone
  <2>6. ScoreRisk(facts, claims) \in 0 .. 100
    BY <2>1, ScoreInRange
  <2> QED
    BY <2>1, <2>5, <2>6 DEF part
<1> QED
  BY <1>1, InitAnalysisInv, NextAnalysisInv, PTL DEF AnalysisSpec

\* The protocol's own documents name at most one authority and one oracle
\* provider between them, so that all they say fits one extraction.
DocumentsAgree == WellFormed(Honest(Documents))

(* "An unreachable doc simply contributes nothing; the scorer stays        *)
(* conservative" (services/ingestion/src/jobs.ts, fetchDocs), as far as it *)
(* is true: when documents that do not contradict each other are extracted *)
(* faithfully, missing some of them raises the score only if there was bad *)
(* news in them.                                                           *)
THEOREM SilenceIsConservative ==
    ASSUME DocumentsAgree
    PROVE  AnalysisSpec => []OnlyBadNewsIsLost
<1>1. AnalysisInv => OnlyBadNewsIsLost
  <2> DEFINE all == Honest(Documents)
  <2> SUFFICES ASSUME AnalysisInv, stage = "scored", claims = Honest(docs),
                      \A c \in all \ claims : ~BadNews(c),
                      score > ScoreRisk(facts, all)
               PROVE  FALSE
    BY DEF OnlyBadNewsIsLost
  <2>1. facts \in Facts /\ Extracted(claims) /\ score = ScoreRisk(facts, claims)
    BY DEF AnalysisInv, Read, OnlyTheSupported, ScoreOfWhatIsKept
  <2>2. claims \in SUBSET all
    BY DEF AnalysisInv, Read, Honest, Genuine
  <2>3. Extracted(all)
    BY DEF DocumentsAgree, Extracted, Honest
  <2> HIDE DEF all
  <2>4. \A c \in all : c \notin claims => c.kind # "incident" /\ ~(c.kind = "audit" /\ c.findings > 0)
                                                 /\ c.says # "single_key"
    BY DEF BadNews
  <2>5. Cardinality(Audits(claims)) <= Cardinality(Audits(all))
    <3>1. Audits(claims) \in SUBSET Audits(all)
      BY <2>2 DEF Audits
    <3> QED
      BY <2>3, <3>1, Counts, PartCounts
  <2>6. Unresolved(all) => Unresolved(claims)
    <3>1. Reported(all) \in SUBSET Reported(claims)
      <4> SUFFICES ASSUME NEW c \in Audits(all), 1 .. c.findings # {}
                   PROVE  c \in Audits(claims)
        BY DEF Reported
      <4>1. c \in Claims /\ c.findings \in Int
        BY <2>3, AnalysisAssumption DEF Audits, Extracted
      <4>2. c.findings > 0
        BY <4>1
      <4> QED
        BY <2>4, <4>2 DEF Audits
    <3>2. TakenOff(claims) \in SUBSET TakenOff(all)
      BY <2>2 DEF TakenOff, Audits
    <3>3. /\ Cardinality(Reported(all)) <= Cardinality(Reported(claims))
          /\ Cardinality(TakenOff(claims)) <= Cardinality(TakenOff(all))
      BY <2>1, <2>3, <3>1, <3>2, FiniteFindings, PartCounts
    <3>4. /\ Cardinality(Reported(all)) \in Nat /\ Cardinality(Reported(claims)) \in Nat
          /\ Cardinality(TakenOff(all)) \in Nat /\ Cardinality(TakenOff(claims)) \in Nat
      BY <2>1, <2>3, FiniteFindings, FS_CardinalityType
    <3> QED
      BY <3>3, <3>4 DEF Unresolved
  <2>7. Incidents(all) = Incidents(claims)
    BY <2>2, <2>4 DEF Incidents
  <2>8. WellFormed(claims) /\ WellFormed(all)
    BY <2>1, <2>3 DEF Extracted
  <2>9. /\ Says(all, "oracle", "none") \in Oracles
        /\ Says(all, "authority", "unknown") \in Authorities
    BY <2>3, SaysTyped
  <2>10. ASSUME NEW c \in claims, c.kind \in {"oracle", "authority"}, NEW default
         PROVE  Says(all, c.kind, default) = Says(claims, c.kind, default)
    <3>1. c \in all /\ c.kind \notin {"audit", "incident"}
      BY <2>2, <2>10
    <3>2. Says(all, c.kind, default) = c.says
      BY <2>8, <3>1, SaysTheClaim
    <3>3. Says(claims, c.kind, default) = c.says
      BY <2>8, <3>1, SaysTheClaim
    <3> QED
      BY <3>2, <3>3
  <2>11. Ladder[Says(all, "authority", "unknown")]
           >= Ladder[Says(claims, "authority", "unknown")]
    <3>1. CASE \E c \in claims : c.kind = "authority"
      <4>1. Says(all, "authority", "unknown") = Says(claims, "authority", "unknown")
        BY <3>1, <2>10
      <4> QED
        BY <4>1, <2>9 DEF Authorities, Ladder
    <3>2. CASE \A c \in claims : c.kind # "authority"
      <4>1. Says(claims, "authority", "unknown") = "unknown"
        BY <3>2, SaysDefault
      <4>2. Says(all, "authority", "unknown") # "single_key"
        <5>1. CASE \E c \in all : c.kind = "authority"
          <6>1. PICK c \in all : c.kind = "authority"
            BY <5>1
          <6>2. Says(all, c.kind, "unknown") = c.says
            BY <2>8, <6>1, SaysTheClaim
          <6>3. c.says # "single_key"
            BY <2>4, <3>2, <6>1
          <6> QED
            BY <6>1, <6>2, <6>3
        <5>2. CASE \A c \in all : c.kind # "authority"
          BY <5>2, SaysDefault
        <5> QED
          BY <5>1, <5>2
      <4> QED
        BY <4>1, <4>2, <2>9 DEF Authorities, Ladder
    <3> QED
      BY <3>1, <3>2
  <2>12. OracleLadder[Says(all, "oracle", "none")]
           >= OracleLadder[Says(claims, "oracle", "none")]
    <3>1. CASE \E c \in claims : c.kind = "oracle"
      <4>1. Says(all, "oracle", "none") = Says(claims, "oracle", "none")
        BY <3>1, <2>10
      <4> QED
        BY <4>1, <2>9 DEF Oracles, OracleLadder
    <3>2. CASE \A c \in claims : c.kind # "oracle"
      <4>1. Says(claims, "oracle", "none") = "none"
        BY <3>2, SaysDefault
      <4> QED
        BY <4>1, <2>9 DEF Oracles, OracleLadder
    <3> QED
      BY <3>1, <3>2
  <2>13. /\ facts.size \in Int /\ facts.drawdown \in Int /\ facts.bonus \in Int
         /\ facts.liquid \in Int /\ facts.age \in Int
    BY <2>1, AnalysisAssumption
  <2>14. /\ Cardinality(Audits(claims)) \in Nat
         /\ Cardinality(Audits(all)) \in Nat
         /\ Cardinality(Incidents(claims)) \in Nat
    BY <2>1, <2>3, Counts
  <2>15. NoWorse(facts, all, facts, claims)
    BY <2>5, <2>6, <2>7, <2>11, <2>12, <2>13, <2>14 DEF NoWorse
  <2>16. ScoreRisk(facts, claims) <= ScoreRisk(facts, all)
    BY <2>1, <2>3, <2>15, ScoreMonotone
  <2>17. ScoreRisk(facts, claims) \in 0 .. 100 /\ ScoreRisk(facts, all) \in 0 .. 100
    BY <2>1, <2>3, ScoreInRange
  <2> QED
    BY <2>1, <2>16, <2>17 DEF all
<1> QED
  BY <1>1, InitAnalysisInv, NextAnalysisInv, PTL DEF AnalysisSpec

=============================================================================
