----------------------------- MODULE RiskRefresh -----------------------------
(***************************************************************************)
(* The race between the expiry of a published risk entry and its refresh,  *)
(* in hours (services/keeper/src/index.ts, publishRisk.ts).  An entry      *)
(* lives for TTL hours.  Every hour a refresh looks at the expiry that the *)
(* keeper recorded and, when fewer than Margin hours are left, adds a      *)
(* publish job whose id names the current bucket of BucketHours hours: a   *)
(* bucket has one job, and a job that used up its attempts (five, within a *)
(* minute) keeps its id.  How one job publishes is RiskPublisher's         *)
(* subject; here it succeeds, fails, or lands without being recorded.      *)
(*                                                                         *)
(* Hours are whole and rounded down, so an entry with 0 left may be gone   *)
(* before the hour's job has landed.  Between two publications there is at *)
(* most one outage, of at most MaxOutage consecutive hours.                *)
(***************************************************************************)
EXTENDS Naturals

CONSTANTS TTL, Margin, BucketHours, MaxOutage

ASSUME HoursAssumption ==
    /\ TTL \in Nat /\ Margin \in Nat /\ MaxOutage \in Nat
    /\ BucketHours \in Nat \ {0} /\ Margin <= TTL

VARIABLES
    hoursLeft,  \* hours until the on-chain entry expires
    recorded,   \* hours until the expiry in risk_publications, 0 if past
    hour,       \* hour of the bucket
    added,      \* whether the bucket's job id is used
    hourStep,   \* of this hour: refresh still to come, job running, or over
    outage, ended   \* bad hours since the last publication; whether they are over

hoursVars == <<hoursLeft, recorded, hour, added, hourStep, outage, ended>>

\* A protocol has just been published, at any hour of a bucket.
HoursInit ==
    /\ hoursLeft = TTL /\ recorded = TTL
    /\ hour \in 0 .. BucketHours - 1 /\ added = FALSE
    /\ hourStep = "over"
    /\ outage = 0 /\ ended = FALSE

Bad == ~ended /\ outage < MaxOutage /\ outage' = outage + 1 /\ UNCHANGED ended
Good == ended' = (outage > 0) /\ UNCHANGED outage
FreshStart == outage' = 0 /\ ended' = FALSE

\* A slip the properties must catch: the margin is one bucket.
DueTooLate == {recorded < BucketHours}

\* expires_at < now + 6 h.  With exactly 6 hours left, seconds decide.
DueThisHour == {recorded < Margin} \cup {recorded <= Margin}

\* The refresh job and its add, which an id in use turns into nothing.
RefreshRuns ==
    /\ hourStep = "refresh"
    /\ \E due \in DueThisHour :
          IF due /\ ~added
          THEN added' = TRUE /\ hourStep' = "job" /\ UNCHANGED <<outage, ended>>
          ELSE hourStep' = "over" /\ Good /\ UNCHANGED added
    /\ UNCHANGED <<hoursLeft, recorded, hour>>

\* The keeper, Redis or Postgres is down: the hour goes by without a refresh.
RefreshMissed ==
    /\ hourStep = "refresh"
    /\ Bad
    /\ hourStep' = "over"
    /\ UNCHANGED <<hoursLeft, recorded, hour, added>>

JobPublishes ==
    /\ hourStep = "job"
    /\ hoursLeft' = TTL /\ recorded' = TTL
    /\ hourStep' = "over"
    /\ FreshStart
    /\ UNCHANGED <<hour, added>>

\* All attempts fail, or the job finds its own key pending and is skipped.
JobFails ==
    /\ hourStep = "job"
    /\ Bad
    /\ hourStep' = "over"
    /\ UNCHANGED <<hoursLeft, recorded, hour, added>>

\* set_risk_entry has landed, but no attempt got as far as recording it.
JobLandsUnrecorded ==
    /\ hourStep = "job"
    /\ hoursLeft' = TTL
    /\ hourStep' = "over"
    /\ FreshStart
    /\ UNCHANGED <<recorded, hour, added>>

\* analyzeDocs found another score: a job with an id of its own.
NewScorePublishes ==
    /\ hourStep = "over"
    /\ hoursLeft' = TTL /\ recorded' = TTL
    /\ FreshStart
    /\ UNCHANGED <<hour, added, hourStep>>

HourPasses ==
    /\ hourStep = "over"
    /\ hoursLeft' = IF hoursLeft = 0 THEN 0 ELSE hoursLeft - 1
    /\ recorded' = IF recorded = 0 THEN 0 ELSE recorded - 1
    /\ hour' = (hour + 1) % BucketHours
    /\ added' = (added /\ hour' # 0)
    /\ hourStep' = "refresh"
    /\ UNCHANGED <<outage, ended>>

HoursNext ==
    \/ HourPasses \/ RefreshRuns \/ RefreshMissed
    \/ JobPublishes \/ JobFails \/ JobLandsUnrecorded \/ NewScorePublishes

HoursSpec == HoursInit /\ [][HoursNext]_hoursVars

(* "The on-chain gate never sees a stale score": a healthy protocol's entry*)
(* never expires, although refreshes are missed, jobs fail with their      *)
(* bucket's id used up, and publications go unrecorded, as long as an      *)
(* outage stays below the bound.                                           *)
StaysValid == hoursLeft > 0

=============================================================================
