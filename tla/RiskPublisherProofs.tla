------------------------ MODULE RiskPublisherProofs ------------------------
(***************************************************************************)
(* Publication of risk scores. For any number of score versions, attempts  *)
(* and faults, what tx_log and risk_publications call published has been   *)
(* on the chain.                                                           *)
(*                                                                         *)
(* And in hours, where a refresh is one step (RiskRefresh): for every      *)
(* lifetime, margin and bucket that leave room for the outages, the entry  *)
(* of a healthy protocol never expires.                                    *)
(***************************************************************************)
EXTENDS RiskPublisher, RiskRefresh, TLAPS

Working == {"claim", "submit", "await", "confirm", "insert", "fail"}

-----------------------------------------------------------------------------
(* The inductive invariant. *)

\* A job is only ever queued once there is a score to publish, so the key
\* and the submission always name a version, and never version 0.
ScoreExists ==
    /\ unqueued => stored # 0
    /\ \A j \in Jobs : jobs[j] > 0 => stored # 0
    /\ pc # "idle" => stored # 0 /\ left < Attempts
    /\ pc \in Working => score \in Versions

\* What the worker is about to record is what it saw land.
WorkerIsTrue ==
    /\ answer # "none" => pc = "await"
    /\ answer = "landed" => score \in seen
    /\ pc \in {"confirm", "insert"} => score \in seen

IInv == TypeOK /\ ScoreExists /\ WorkerIsTrue /\ RecordsAreTrue

LEMMA InitIInv == Init => IInv
<1> SUFFICES ASSUME Init PROVE IInv
  OBVIOUS
<1> USE CountsAssumption DEF Init, Jobs, Versions, Refresh
<1>1. 0 \in 0 .. MaxVersions /\ 0 \in 0 .. Attempts /\ 0 \in 0 .. MaxFaults
  BY ONLY CountsAssumption
<1>2. log \in [Jobs -> [Versions -> RowStatuses]]
  BY DEF RowStatuses
<1>3. TypeOK
  BY <1>1, <1>2 DEF TypeOK, Steps
<1>4. RecordsAreTrue
  BY DEF RecordsAreTrue
<1> QED
  BY <1>3, <1>4 DEF IInv, ScoreExists, WorkerIsTrue, Working

-----------------------------------------------------------------------------
(* A write to one row of the log keeps it well typed, and keeps it true if *)
(* it is confirmed only for a version the entry has held.                  *)

LEMMA LogWrite ==
    ASSUME NEW l \in [Jobs -> [Versions -> RowStatuses]],
           NEW j \in Jobs, NEW v \in Versions, NEW st \in RowStatuses, NEW held \in SUBSET Versions,
           \A i \in Jobs, w \in Versions : l[i][w] = "confirmed" => w \in held,
           st = "confirmed" => v \in held
    PROVE  /\ [l EXCEPT ![j][v] = st] \in [Jobs -> [Versions -> RowStatuses]]
           /\ \A i \in Jobs, w \in Versions :
                [l EXCEPT ![j][v] = st][i][w] = "confirmed" => w \in held
  OBVIOUS

LEMMA RowWrites ==
    ASSUME NEW st \in RowStatuses
    PROVE  /\ ClaimRow(st) \in RowStatuses /\ (ClaimRow(st) = "confirmed" => st = "confirmed")
           /\ ConfirmRow(st) \in RowStatuses
           /\ FailRow(st) \in RowStatuses /\ FailRow(st) # "confirmed"
           /\ AgeRow(st) \in RowStatuses /\ (AgeRow(st) = "confirmed" => st = "confirmed")
  BY DEF RowStatuses, ClaimRow, Claimable, ConfirmRow, FailRow, AgeRow

LEMMA RecordsGrow ==
    ASSUME NEW held, NEW later, held \subseteq later, NEW l,
           \A j \in Jobs, v \in Versions : l[j][v] = "confirmed" => v \in held
    PROVE  \A j \in Jobs, v \in Versions : l[j][v] = "confirmed" => v \in later
  OBVIOUS

LEMMA NextIInv == IInv /\ [Next]_vars => IInv'
<1> SUFFICES ASSUME IInv, [Next]_vars PROVE IInv'
  OBVIOUS
<1> USE CountsAssumption
    DEF IInv, TypeOK, ScoreExists, WorkerIsTrue, RecordsAreTrue, Jobs, Versions, Refresh,
        Steps, Working, Goto, Return, Fault, queueVars, workerVars, entryVars
<1>1. CASE StoreScore
  BY <1>1 DEF StoreScore
<1>2. CASE EnqueuePublish
  <2>1. stored # 0 /\ stored \in Jobs /\ jobs' = [jobs EXCEPT ![stored] = Attempts]
    BY <1>2 DEF EnqueuePublish
  <2>2. jobs' \in [Jobs -> 0 .. Attempts]
    BY <2>1
  <2> QED
    BY <1>2, <2>1, <2>2 DEF EnqueuePublish
<1>3. CASE AnalysisDies
  <2>1. faults' \in 0 .. MaxFaults
    BY <1>3 DEF AnalysisDies
  <2> QED
    BY <1>3, <2>1 DEF AnalysisDies
<1>4. CASE RefreshDue
  BY <1>4 DEF RefreshDue, DueForRefresh
<1>5. CASE NextBucket
  BY <1>5 DEF NextBucket, RowStatuses
<1>6. CASE PublicationTurnsDue
  BY <1>6 DEF PublicationTurnsDue
<1>7. ASSUME NEW j \in Jobs, NEW v \in Versions, RowAges(j, v) PROVE IInv'
  <2>1. log' = [log EXCEPT ![j][v] = AgeRow(log[j][v])] /\ log[j][v] \in RowStatuses
    BY <1>7 DEF RowAges
  <2>2. AgeRow(log[j][v]) \in RowStatuses /\ (AgeRow(log[j][v]) = "confirmed" => v \in seen)
    BY <2>1, RowWrites
  <2>3. /\ log' \in [Jobs -> [Versions -> RowStatuses]]
        /\ \A i \in Jobs, w \in Versions : log'[i][w] = "confirmed" => w \in seen
    BY <2>1, <2>2, LogWrite
  <2> QED
    BY <1>7, <2>3 DEF RowAges
<1>8. ASSUME NEW j \in Jobs, Take(j) PROVE IInv'
  BY <1>8 DEF Take
<1>9. CASE ReadScore
  BY <1>9 DEF ReadScore
<1>10. CASE ClaimKey
  <2>1. /\ log' = [log EXCEPT ![job][score] = ClaimRow(log[job][score])]
        /\ score \in Versions /\ log[job][score] \in RowStatuses
    BY <1>10 DEF ClaimKey
  <2>2. ClaimRow(log[job][score]) \in RowStatuses
        /\ (ClaimRow(log[job][score]) = "confirmed" => score \in seen)
    BY <2>1, RowWrites
  <2>3. /\ log' \in [Jobs -> [Versions -> RowStatuses]]
        /\ \A i \in Jobs, w \in Versions : log'[i][w] = "confirmed" => w \in seen
    BY <2>1, <2>2, LogWrite
  <2>4. \/ pc' = "submit" /\ UNCHANGED <<job, left, score>>
        \/ pc' = "idle" /\ job' = 0 /\ left' = 0 /\ score' = 0
    BY <1>10 DEF ClaimKey
  <2>5. TypeOK'
    BY <1>10, <2>3, <2>4 DEF ClaimKey
  <2>6. ScoreExists' /\ WorkerIsTrue'
    BY <1>10, <2>1, <2>4 DEF ClaimKey
  <2>7. RecordsAreTrue'
    BY <1>10, <2>3 DEF ClaimKey
  <2> QED
    BY <2>5, <2>6, <2>7
<1>11. CASE Submit
  BY <1>11 DEF Submit
<1>12. CASE Receive
  BY <1>12 DEF Receive, AfterAnswer
<1>13. CASE Confirm
  BY <1>13, LogWrite, RowWrites DEF Confirm
<1>14. CASE RecordPublication
  BY <1>14 DEF RecordPublication
<1>15. CASE FailAndRetry
  <2>1. /\ log' = [log EXCEPT ![job][score] = FailRow(log[job][score])]
        /\ score \in Versions /\ log[job][score] \in RowStatuses
    BY <1>15 DEF FailAndRetry
  <2>2. /\ log' \in [Jobs -> [Versions -> RowStatuses]]
        /\ \A i \in Jobs, w \in Versions : log'[i][w] = "confirmed" => w \in seen
    BY <2>1, LogWrite, RowWrites
  <2> QED
    BY <1>15, <2>1, <2>2 DEF FailAndRetry
<1>16. CASE TimeOut
  BY <1>16 DEF TimeOut
<1>17. CASE StatementFails
  BY <1>17 DEF StatementFails
<1>18. CASE JobThrows
  BY <1>18 DEF JobThrows
<1>19. CASE Crash
  BY <1>19 DEF Crash
<1>20. CASE Land
  BY <1>20 DEF Land
<1>21. CASE Drop
  BY <1>21 DEF Drop
<1>22. ASSUME NEW v \in Versions, LandsLate(v) PROVE IInv'
  <2>0. /\ flying' = flying \ {v}
        /\ \/ chain' = v /\ seen' = seen \cup {v}
           \/ chain' = chain /\ seen' = seen
    BY <1>22 DEF LandsLate
  <2>1. /\ flying' \in SUBSET Versions /\ seen' \in SUBSET Versions
        /\ chain' \in 0 .. MaxVersions
    <3>1. flying' \in SUBSET Versions
      BY <2>0
    <3>2. seen' \in SUBSET Versions
      BY <2>0
    <3>3. chain' \in 0 .. MaxVersions
      BY <2>0
    <3> QED
      BY <3>1, <3>2, <3>3
  <2>2. seen \subseteq seen'
    BY <1>22 DEF LandsLate
  <2> QED
    BY <1>22, <2>1, <2>2, RecordsGrow DEF LandsLate
<1>23. CASE UNCHANGED vars
  BY <1>23 DEF vars
<1> QED
  BY <1>1, <1>2, <1>3, <1>4, <1>5, <1>6, <1>7, <1>8, <1>9, <1>10, <1>11, <1>12, <1>13, <1>14,
     <1>15, <1>16, <1>17, <1>18, <1>19, <1>20, <1>21, <1>22, <1>23 DEF Next, Work

-----------------------------------------------------------------------------

(* What the worker knows about its submission and what it writes down      *)
(* agree with the chain's past, through retries, crashes and lost answers. *)
THEOREM Publication == Spec => []IInv
  BY InitIInv, NextIInv, PTL DEF Spec

(* Every state is well typed: in particular no submission and no key is    *)
(* for version 0, and no job gains attempts.                               *)
THEOREM TypeCorrect == Spec => []TypeOK
  BY Publication, PTL DEF IInv

(* A key is confirmed and a publication recorded only for a version that   *)
(* the entry has held: the refresh trusts these records.                   *)
THEOREM RecordsTellTheTruth == Spec => []RecordsAreTrue
  BY Publication, PTL DEF IInv

-----------------------------------------------------------------------------
(* The expiry race.  The margin outlasts an outage and the bucket after it,*)
(* and a publication early in a bucket carries the entry past the point at *)
(* which the next bucket refreshes it: 6 > 2 + 3 and 24 >= 6 + 3 - 1.      *)
MarginSuffices ==
    /\ Margin > MaxOutage + BucketHours
    /\ TTL >= Margin + BucketHours - 1

HoursTyped ==
    /\ hoursLeft \in 0 .. TTL /\ recorded \in 0 .. TTL
    /\ hour \in 0 .. BucketHours - 1
    /\ added \in BOOLEAN /\ ended \in BOOLEAN
    /\ hourStep \in {"over", "refresh", "job"}
    /\ outage \in 0 .. MaxOutage
    /\ hourStep = "job" => added
    /\ ended => outage > 0

\* The keeper's record errs on the side of an early refresh.
RecordedIsNoLater == recorded <= hoursLeft

\* A bucket whose job id is used lies behind a publication in this bucket, or
\* behind an outage that its attempts were part of.
UsedIdWasOfUse ==
    added =>
        /\ hourStep = "refresh" => hour > 0
        /\ hourStep # "job" /\ outage = 0 => hoursLeft + hour >= TTL
        /\ hourStep # "job" /\ ended => hoursLeft + hour >= Margin - MaxOutage

\* Until an outage is over, only its hours were lost from the margin.
OnlyTheOutageIsLost ==
    ~ended => hoursLeft + outage + (IF hourStep = "over" THEN 0 ELSE 1) >= Margin

\* After the outage a bucket with a fresh id publishes or has hours to spare.
FreshIdIsInTime ==
    ended /\ (hourStep = "job" \/ ~added) =>
        hoursLeft + (IF hourStep = "over" THEN 0 ELSE MaxOutage + BucketHours) >= Margin

HoursInv ==
    HoursTyped /\ RecordedIsNoLater /\ UsedIdWasOfUse /\ OnlyTheOutageIsLost /\ FreshIdIsInTime

LEMMA NextHour ==
    ASSUME NEW b \in Nat \ {0}, NEW h \in 0 .. b - 1
    PROVE  (h + 1) % b = IF h + 1 = b THEN 0 ELSE h + 1
  OBVIOUS

LEMMA InitHoursInv == ASSUME MarginSuffices, HoursInit PROVE HoursInv
<1> USE HoursAssumption DEF MarginSuffices, HoursInit
<1>1. ~added /\ ~ended
  OBVIOUS
<1>2. HoursTyped
  <2>1. hoursLeft \in 0 .. TTL /\ recorded \in 0 .. TTL /\ hour \in 0 .. BucketHours - 1
    OBVIOUS
  <2>2. outage \in 0 .. MaxOutage /\ (ended => outage > 0)
    BY <1>1
  <2>3. added \in BOOLEAN /\ ended \in BOOLEAN /\ hourStep = "over"
    OBVIOUS
  <2> QED
    BY ONLY <2>1, <2>2, <2>3 DEF HoursTyped
<1> QED
  BY <1>1, <1>2 DEF HoursInv, RecordedIsNoLater, UsedIdWasOfUse, OnlyTheOutageIsLost, FreshIdIsInTime

LEMMA NextHoursInv == ASSUME MarginSuffices, HoursInv, [HoursNext]_hoursVars PROVE HoursInv'
<1> USE HoursAssumption DEF MarginSuffices, HoursInv, HoursTyped, RecordedIsNoLater,
        UsedIdWasOfUse, OnlyTheOutageIsLost, FreshIdIsInTime,
        Bad, Good, FreshStart
<1>1. CASE HourPasses
  <2>1. hour' = IF hour + 1 = BucketHours THEN 0 ELSE hour + 1
    BY <1>1, NextHour DEF HourPasses
  <2>2. (added' <=> added /\ hour' # 0) /\ added' \in BOOLEAN
    BY <1>1 DEF HourPasses
  <2>3. HoursTyped' /\ RecordedIsNoLater'
    BY <1>1, <2>1, <2>2 DEF HourPasses
  <2>4. UsedIdWasOfUse'
    BY <1>1, <2>1, <2>2 DEF HourPasses
  <2>5. OnlyTheOutageIsLost' /\ FreshIdIsInTime'
    BY <1>1, <2>1, <2>2 DEF HourPasses
  <2> QED
    BY <2>3, <2>4, <2>5
<1>2. CASE RefreshRuns
  <2>1. PICK due \in DueThisHour :
           IF due /\ ~added
           THEN added' = TRUE /\ hourStep' = "job" /\ UNCHANGED <<outage, ended>>
           ELSE hourStep' = "over" /\ Good /\ UNCHANGED added
    BY <1>2 DEF RefreshRuns
  <2>2. recorded < Margin => recorded <= Margin
    OBVIOUS
  <2>3. recorded < Margin => due
    BY ONLY <2>1, <2>2, Zenon DEF DueThisHour
  <2>4. CASE due /\ ~added
    <3>1. hourStep' = "job" /\ added' /\ added' \in BOOLEAN /\ UNCHANGED <<outage, ended>>
      BY <2>1, <2>4
    <3> QED
      BY <1>2, <2>4, <3>1 DEF RefreshRuns
  <2>5. CASE ~(due /\ ~added)
    <3>1. hourStep' = "over" /\ ended' = (outage > 0) /\ UNCHANGED <<added, outage>>
      BY ONLY <2>1, <2>5, Zenon DEF Good
    <3>2. ended' \in BOOLEAN
      BY <3>1
    <3>3. ended' <=> outage > 0
      BY ONLY <3>1, Zenon
    <3> QED
      BY <1>2, <2>3, <2>5, <3>1, <3>2, <3>3 DEF RefreshRuns
  <2> QED
    BY <2>4, <2>5
<1>3. CASE RefreshMissed
  BY <1>3 DEF RefreshMissed
<1>4. CASE JobPublishes
  <2>1. ~ended' /\ ended' \in BOOLEAN /\ outage' = 0
    BY <1>4 DEF JobPublishes
  <2> QED
    BY <1>4, <2>1 DEF JobPublishes
<1>5. CASE JobFails
  BY <1>5 DEF JobFails
<1>6. CASE JobLandsUnrecorded
  <2>1. ~ended' /\ ended' \in BOOLEAN /\ outage' = 0
    BY <1>6 DEF JobLandsUnrecorded
  <2> QED
    BY <1>6, <2>1 DEF JobLandsUnrecorded
<1>7. CASE NewScorePublishes
  <2>1. ~ended' /\ ended' \in BOOLEAN /\ outage' = 0
    BY <1>7 DEF NewScorePublishes
  <2> QED
    BY <1>7, <2>1 DEF NewScorePublishes
<1>8. CASE UNCHANGED hoursVars
  BY <1>8 DEF hoursVars
<1> QED
  BY <1>1, <1>2, <1>3, <1>4, <1>5, <1>6, <1>7, <1>8 DEF HoursNext

LEMMA HoursSafe == ASSUME MarginSuffices, HoursInv PROVE StaysValid
  BY HoursAssumption DEF MarginSuffices, HoursInv, HoursTyped, UsedIdWasOfUse,
         OnlyTheOutageIsLost, FreshIdIsInTime, StaysValid

(* A healthy protocol's entry never expires, for every lifetime, margin,   *)
(* bucket and bound on outages that satisfy MarginSuffices.                *)
THEOREM EntryNeverExpires ==
    ASSUME MarginSuffices PROVE HoursSpec => []StaysValid
  BY InitHoursInv, NextHoursInv, HoursSafe, PTL DEF HoursSpec

=============================================================================
