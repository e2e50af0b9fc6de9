------------------------------- MODULE Pools -------------------------------
(***************************************************************************)
(* What the API computes from the pools' rows: the ranked list of          *)
(* GET /v1/pools (apps/api/src/lib/ranking.ts, pools/pools.repo.ts) and the*)
(* chart of GET /v1/pools/:id/history (lib/history.ts).                    *)
(*                                                                         *)
(* Scores and shares are percentages; yields are compared exactly, where   *)
(* the code compares doubles.  A point of the history is its time, in      *)
(* parts of a day, and whether it has a share rate.                        *)
(***************************************************************************)
EXTENDS Integers

CONSTANTS NULL, DAY, WINDOW

ASSUME DayAssumption == DAY \in Nat \ {0} /\ WINDOW \in Nat

-----------------------------------------------------------------------------
(* Slips the properties must catch. *)

UnderMaximum(row, profile) ==
    row.score # NULL /\ row.score >= 75 /\ (row.emissions_share = NULL \/ row.emissions_share < 50)

ByValueOnly(a, b) == a.value # NULL /\ (b.value = NULL \/ a.value > b.value)

DayShort == WINDOW - 1

-----------------------------------------------------------------------------
(* Ranking. *)

Profiles == {"conservative", "balanced", "aggressive"}
SortKeys == {"risk_adjusted", "headline", "realized", "tvl", "risk"}

MinScore == [conservative |-> 75, balanced |-> 55, aggressive |-> 0]
MaxEmissionsShare == [conservative |-> 50, balanced |-> 100, aggressive |-> 100]

Share(row) == IF row.emissions_share = NULL THEN 0 ELSE row.emissions_share

\* The figures a pool is shown with (toSummary).
Summary(row) ==
    [mostly_bonus_tokens |-> Share(row) > 50,
     risk_adjusted_yield |->
        IF NULL \in {row.sustainable, row.score} THEN NULL ELSE row.sustainable * row.score]

Eligible(row, profile) ==
    /\ row.score # NULL /\ row.score >= MinScore[profile]
    /\ Share(row) <= MaxEmissionsShare[profile]

Square(x) == IF x < 0 THEN -(x * x) ELSE x * x

\* sustainable * (score / 100) ^ exponent, the exponent being 2, 1 or 1/2:
\* scaled, and for 1/2 squared, neither of which changes the order.
ProfileValue(row, profile) ==
    IF NULL \in {row.sustainable, row.score} THEN NULL
    ELSE CASE profile = "conservative" -> row.sustainable * row.score * row.score
           [] profile = "balanced" -> row.sustainable * row.score
           [] profile = "aggressive" -> Square(row.sustainable) * row.score

SortValue(row, sort, profile) ==
    IF sort = "risk_adjusted" THEN ProfileValue(row, profile)
    ELSE LET column == [headline |-> "headline", realized |-> "realized", tvl |-> "tvl", risk |-> "score"]
         IN  row[column[sort]]

\* The comparison of two pools, each its id and its value: descending, nulls
\* last, ties by id.
Before(a, b) ==
    \/ a.value # NULL /\ b.value = NULL
    \/ a.value # NULL /\ b.value # NULL /\ a.value > b.value
    \/ a.value = b.value /\ a.id < b.id

Key(row, sort, profile) == [id |-> row.id, value |-> SortValue(row, sort, profile)]

\* Whether the list has one pool above another.
Above(a, b, sort, profile) == Before(Key(a, sort, profile), Key(b, sort, profile))

Included(rows, profile) == {row \in rows : Eligible(row, profile)}

-----------------------------------------------------------------------------
(* History. *)

Newest(points) == CHOOSE p \in points : \A q \in points : q.ts <= p.ts
Oldest(points) == CHOOSE p \in points : \A q \in points : q.ts >= p.ts

\* The repository's query.
Since(points, days) == {p \in points : p.ts >= Newest(points).ts - days * DAY}

\* The last point of each UTC day.
DailyLast(points) ==
    {p \in points : \A q \in points : q.ts \div DAY = p.ts \div DAY => q.ts <= p.ts}

\* What a point's realized APY is computed from: the oldest of the points of
\* the window before it, or NULL for the point's own base APY.
RealizedFrom(p, points) ==
    LET window == {q \in points : q.ts < p.ts /\ q.ts >= p.ts - WINDOW * DAY}
        start  == Oldest(window)
    IN  IF window # {} /\ 2 * (p.ts - start.ts) >= DAY /\ start.rated /\ p.rated
        THEN start.ts ELSE NULL

WithRealized(points) == {[ts |-> p.ts, realized |-> RealizedFrom(p, points)] : p \in points}

\* A week more is fetched than is charted.
LeadIn == WINDOW

Chart(points, days) == Since(WithRealized(DailyLast(Since(points, days + LeadIn))), days)

=============================================================================
