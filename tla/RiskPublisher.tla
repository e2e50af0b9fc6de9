--------------------------- MODULE RiskPublisher ---------------------------
(***************************************************************************)
(* How a risk score gets from the database to the on-chain RiskEntry of    *)
(* one protocol.  Ingestion stores a score and enqueues a publish job if   *)
(* it changed (services/ingestion/src/jobs.ts, analyzeDocs); the keeper's  *)
(* one publish worker takes jobs, reads the score from the database,       *)
(* claims the key <job>-s<score>, submits set_risk_entry and records the   *)
(* publication (services/keeper/src/publishRisk.ts); every hour a refresh  *)
(* enqueues a job if the recorded publication is missing or about to       *)
(* expire (services/keeper/src/index.ts).                                  *)
(*                                                                         *)
(* Scores are numbered by version: 0 is "none yet", analysis n stores      *)
(* version n.  Only a change of score is an analysis here; one that finds  *)
(* the same score changes nothing that is published.  Time is abstract: a  *)
(* publication turns due when fewer than 6 of its 24 hours are left, and a *)
(* refresh job's id is new in every 3-hour bucket.                         *)
(*                                                                         *)
(* MaxVersions bounds the analyses; MaxFaults the crashes, lost or         *)
(* unanswered submissions and failed statements.  Attempts is the queue's  *)
(* attempts per job (5 in the code).                                       *)
(***************************************************************************)
EXTENDS Naturals, TxLog

CONSTANTS MaxVersions, MaxFaults, Attempts

ASSUME CountsAssumption ==
    MaxVersions \in Nat \ {0} /\ MaxFaults \in Nat /\ Attempts \in Nat \ {0}

Versions == 1 .. MaxVersions

\* Job ids: one per analysis, and one for the current refresh bucket.
Refresh == 0
Jobs == 0 .. MaxVersions


VARIABLES
    stored,     \* version in risk_scores
    unqueued,   \* whether analyzeDocs is between storing and enqueueing
    jobs,       \* attempts left of the jobs waiting in the queue
    refreshed,  \* whether the current bucket's refresh job was added
    log,        \* tx_log: the row of key <job>-s<version>
    pc, job, left, score, \* the worker: its step, job, attempts left and version read
    flying,     \* versions of submissions that may still land
    answer,     \* what became of the worker's own submission
    chain,      \* version in the on-chain RiskEntry
    seen,       \* versions the entry has held (history, for the properties)
    publication,\* risk_publications: version, and whether it is due for refresh
    faults

workerVars == <<pc, job, left, score, answer>>
queueVars == <<jobs, refreshed>>
entryVars == <<chain, seen>>
vars == <<stored, unqueued, queueVars, log, workerVars, flying, entryVars, publication, faults>>

Steps == {"idle", "read", "claim", "submit", "await", "confirm", "insert", "fail"}

TypeOK ==
    /\ stored \in 0 .. MaxVersions /\ chain \in 0 .. MaxVersions
    /\ unqueued \in BOOLEAN /\ refreshed \in BOOLEAN
    /\ jobs \in [Jobs -> 0 .. Attempts]
    /\ log \in [Jobs -> [Versions -> RowStatuses]]
    /\ pc \in Steps /\ job \in Jobs /\ left \in 0 .. Attempts /\ score \in 0 .. MaxVersions
    /\ flying \in SUBSET Versions /\ seen \in SUBSET Versions
    /\ answer \in {"none", "sent", "landed", "dropped"}
    /\ publication \in [version : 0 .. MaxVersions, due : BOOLEAN]
    /\ faults \in 0 .. MaxFaults

Init ==
    /\ stored = 0 /\ unqueued = FALSE
    /\ jobs = [j \in Jobs |-> 0] /\ refreshed = FALSE
    /\ log = [j \in Jobs |-> [v \in Versions |-> "none"]]
    /\ pc = "idle" /\ job = Refresh /\ left = 0 /\ score = 0 /\ answer = "none"
    /\ flying = {} /\ chain = 0 /\ seen = {}
    /\ publication = [version |-> 0, due |-> TRUE]
    /\ faults = 0

Fault == faults < MaxFaults /\ faults' = faults + 1

Goto(step) == pc' = step /\ UNCHANGED <<job, left, score>>

\* The job's call is over, its locals are gone.
Return == pc' = "idle" /\ job' = Refresh /\ left' = 0 /\ score' = 0

-----------------------------------------------------------------------------
(* Ingestion. *)

\* upsertRisk with a score that differs from the stored one.
StoreScore ==
    /\ ~unqueued
    /\ stored < MaxVersions
    /\ stored' = stored + 1
    /\ unqueued' = TRUE
    /\ UNCHANGED <<queueVars, log, workerVars, flying, entryVars, publication, faults>>

EnqueuePublish ==
    /\ unqueued
    /\ unqueued' = FALSE
    /\ jobs' = [jobs EXCEPT ![stored] = Attempts]
    /\ UNCHANGED <<stored, refreshed, log, workerVars, flying, entryVars, publication, faults>>

\* The job dies in between: the retry finds the score unchanged.
AnalysisDies ==
    /\ unqueued
    /\ Fault
    /\ unqueued' = FALSE
    /\ UNCHANGED <<stored, queueVars, log, workerVars, flying, entryVars, publication>>

-----------------------------------------------------------------------------
(* The hourly refresh and the passing of time. *)

\* A slip the properties must catch: an inner join in dueForRefresh.
DueIfPublished == publication.version # 0 /\ publication.due

\* dueForRefresh: there is a score, and its publication is missing or expires
\* soon.
DueForRefresh == stored # 0 /\ publication.due

\* The query and the add, a job of the same worker; an id the queue has
\* seen is not added again.
RefreshDue ==
    /\ pc = "idle"
    /\ DueForRefresh
    /\ ~refreshed
    /\ refreshed' = TRUE
    /\ jobs' = [jobs EXCEPT ![Refresh] = Attempts]
    /\ UNCHANGED <<stored, unqueued, log, workerVars, flying, entryVars, publication, faults>>

\* Three hours on: a new id, so new keys.  A job is long finished by then.
NextBucket ==
    /\ refreshed
    /\ jobs[Refresh] = 0
    /\ pc = "idle" \/ job # Refresh
    /\ refreshed' = FALSE
    /\ log' = [log EXCEPT ![Refresh] = [v \in Versions |-> "none"]]
    /\ UNCHANGED <<stored, unqueued, jobs, workerVars, flying, entryVars, publication, faults>>

PublicationTurnsDue ==
    /\ ~publication.due
    /\ publication' = [publication EXCEPT !.due = TRUE]
    /\ UNCHANGED <<stored, unqueued, queueVars, log, workerVars, flying, entryVars, faults>>

RowAges(j, v) ==
    /\ log[j][v] = "pending"
    /\ log' = [log EXCEPT ![j][v] = AgeRow(@)]
    /\ UNCHANGED <<stored, unqueued, queueVars, workerVars, flying, entryVars, publication, faults>>

-----------------------------------------------------------------------------
(* The worker: publishRisk, one job at a time. *)

Take(j) ==
    /\ pc = "idle"
    /\ jobs[j] > 0
    /\ job' = j /\ left' = jobs[j] - 1
    /\ jobs' = [jobs EXCEPT ![j] = 0]
    /\ pc' = "read"
    /\ UNCHANGED <<stored, unqueued, refreshed, log, score, answer, flying, entryVars, publication,
                   faults>>

\* The score comes from the database, not from the job.
ReadScore ==
    /\ pc = "read"
    /\ score' = stored
    /\ pc' = "claim"
    /\ UNCHANGED <<stored, unqueued, queueVars, log, job, left, answer, flying, entryVars,
                   publication, faults>>

\* Not claimable: the job completes as "skipped".
ClaimKey ==
    /\ pc = "claim"
    /\ log' = [log EXCEPT ![job][score] = ClaimRow(@)]
    /\ IF Claimable(log[job][score]) THEN Goto("submit") ELSE Return
    /\ UNCHANGED <<stored, unqueued, queueVars, answer, flying, entryVars, publication, faults>>

Submit ==
    /\ pc = "submit"
    /\ answer' = "sent"
    /\ Goto("await")
    /\ UNCHANGED <<stored, unqueued, queueVars, log, flying, entryVars, publication, faults>>

\* A slip the properties must catch: the transaction's error is not looked at.
ConfirmAnyway(what) == "confirm"

AfterAnswer(what) == IF what = "landed" THEN "confirm" ELSE "fail"

Receive ==
    /\ pc = "await"
    /\ answer \in {"landed", "dropped"}
    /\ answer' = "none"
    /\ Goto(AfterAnswer(answer))
    /\ UNCHANGED <<stored, unqueued, queueVars, log, flying, entryVars, publication, faults>>

\* Not confirmed in time: .rpc() throws, the transaction may still land.
TimeOut ==
    /\ pc = "await"
    /\ answer = "sent"
    /\ Fault
    /\ answer' = "none"
    /\ flying' = flying \cup {score}
    /\ Goto("fail")
    /\ UNCHANGED <<stored, unqueued, queueVars, log, entryVars, publication>>

Confirm ==
    /\ pc = "confirm"
    /\ log' = [log EXCEPT ![job][score] = ConfirmRow(@)]
    /\ Goto("insert")
    /\ UNCHANGED <<stored, unqueued, queueVars, answer, flying, entryVars, publication, faults>>

RecordPublication ==
    /\ pc = "insert"
    /\ publication' = [version |-> score, due |-> FALSE]
    /\ Return
    /\ UNCHANGED <<stored, unqueued, queueVars, log, answer, flying, entryVars, faults>>

\* confirm and the INSERT are in the same try as the submission.
StatementFails ==
    /\ pc \in {"confirm", "insert"}
    /\ Fault
    /\ Goto("fail")
    /\ UNCHANGED <<stored, unqueued, queueVars, log, answer, flying, entryVars, publication>>

\* The catch: mark the key failed and rethrow; the queue retries the job.
FailAndRetry ==
    /\ pc = "fail"
    /\ log' = [log EXCEPT ![job][score] = FailRow(@)]
    /\ jobs' = [jobs EXCEPT ![job] = left]
    /\ Return
    /\ UNCHANGED <<stored, unqueued, refreshed, answer, flying, entryVars, publication, faults>>

\* A statement outside the try throws: the queue retries, the row stays.
JobThrows ==
    /\ pc \in {"read", "claim", "fail"}
    /\ Fault
    /\ jobs' = [jobs EXCEPT ![job] = left]
    /\ Return
    /\ UNCHANGED <<stored, unqueued, refreshed, log, answer, flying, entryVars, publication>>

\* The process dies; the queue finds the job stalled and runs it again.
Crash ==
    /\ pc # "idle"
    /\ Fault
    /\ Return
    /\ jobs' = [jobs EXCEPT ![job] = left + 1]
    /\ flying' = IF answer = "sent" THEN flying \cup {score} ELSE flying
    /\ answer' = "none"
    /\ UNCHANGED <<stored, unqueued, refreshed, log, entryVars, publication>>

-----------------------------------------------------------------------------
(* The chain. *)

Land ==
    /\ answer = "sent"
    /\ answer' = "landed"
    /\ chain' = score /\ seen' = seen \cup {score}
    /\ UNCHANGED <<stored, unqueued, queueVars, log, pc, job, left, score, flying, publication,
                   faults>>

Drop ==
    /\ answer = "sent"
    /\ Fault
    /\ answer' = "dropped"
    /\ UNCHANGED <<stored, unqueued, queueVars, log, pc, job, left, score, flying, entryVars,
                   publication>>

LandsLate(v) ==
    /\ v \in flying
    /\ flying' = flying \ {v}
    /\ \/ chain' = v /\ seen' = seen \cup {v}
       \/ UNCHANGED entryVars
    /\ UNCHANGED <<stored, unqueued, queueVars, log, workerVars, publication, faults>>

-----------------------------------------------------------------------------

Work == ReadScore \/ ClaimKey \/ Submit \/ Receive \/ Confirm \/ RecordPublication \/ FailAndRetry

Next ==
    \/ StoreScore \/ EnqueuePublish \/ AnalysisDies
    \/ RefreshDue \/ NextBucket \/ PublicationTurnsDue
    \/ \E j \in Jobs, v \in Versions : RowAges(j, v)
    \/ \E j \in Jobs : Take(j)
    \/ Work \/ TimeOut \/ StatementFails \/ JobThrows \/ Crash
    \/ Land \/ Drop
    \/ \E v \in Versions : LandsLate(v)

Spec == Init /\ [][Next]_vars

\* The services run, submissions that are not dropped land or expire, and
\* time passes; analyses need not happen.
Fairness ==
    /\ WF_vars(EnqueuePublish)
    /\ SF_vars(RefreshDue) /\ WF_vars(NextBucket) /\ WF_vars(PublicationTurnsDue)
    /\ \A j \in Jobs : SF_vars(Take(j))
    /\ WF_vars(Work) /\ WF_vars(Land)
    /\ \A v \in Versions : WF_vars(LandsLate(v))

FairSpec == Spec /\ Fairness

-----------------------------------------------------------------------------
(* Properties. *)

(* What the database calls published was published: a key is confirmed,    *)
(* and a publication recorded, only for a version the entry has held,      *)
(* whatever became of other submissions, attempts and processes.  The      *)
(* refresh trusts the record and would leave the entry alone.              *)
RecordsAreTrue ==
    /\ \A j \in Jobs, v \in Versions : log[j][v] = "confirmed" => v \in seen
    /\ publication.version \in seen \cup {0}

(* Whatever is lost (the job of a changed score, a submission, the record  *)
(* of a publication) the hourly refresh repairs it: once scores stop       *)
(* changing, the entry ends up with the stored score and keeps it.         *)
EventuallyCurrent == <>[](chain = stored)

(* "The score is read from the database, never trusted from the job        *)
(* payload, so a stale job can't publish an old number": the entry never   *)
(* goes back to an earlier version.                                        *)
NeverPublishesOldNumber == [][chain' >= chain]_vars

=============================================================================
