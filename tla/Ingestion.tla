------------------------------ MODULE Ingestion ------------------------------
(***************************************************************************)
(* The ingestion service (services/ingestion): three workers, each working *)
(* on one job of its queue at a time, that share the tables protocols,     *)
(* pool_snapshots, realized_apy and risk_scores.  Ingesting enqueues the   *)
(* other two jobs; ingesting and analysing are also scheduled.             *)
(*                                                                         *)
(* What the outside world answers is fixed when a behaviour starts: demo   *)
(* or live mode, what DefiLlama has about each protocol, and the protocols *)
(* whose analysis is always rejected (a 4xx answer, or demo documents that *)
(* are missing).  On top of that any call may fail.                        *)
(*                                                                         *)
(* Protocols are numbers in the order of their ids; the configured order,  *)
(* in which histories are fetched, is the same.  A queue holds at most one *)
(* waiting job of its kind: a second one would only repeat it.  MaxFaults  *)
(* bounds failed calls and crashes.                                        *)
(***************************************************************************)
EXTENDS Naturals, FiniteSets

CONSTANTS
    N,              \* protocols
    Worlds,         \* what the outside world may answer
    MinPoints,      \* snapshots an analysis needs: 2
    HistoryBelow,   \* the history is fetched below this: 30; counts stop here
    MaxFaults

Protocols == 1 .. N

\* "ok": listed with a chart, or in the seed.  "noHistory": listed, but its
\* chart is an error.  "unlisted": no pool configured, or no seed snapshots.
\* "dead": configured with a pool that is gone, chart included.
Kinds == {"ok", "noHistory", "unlisted", "dead"}

ASSUME IngestionAssumption ==
    /\ N \in Nat /\ MaxFaults \in Nat
    /\ \A w \in Worlds :
          /\ w \in [demo : BOOLEAN, kind : [Protocols -> Kinds], rejected : SUBSET Protocols]
          /\ w.demo => \A p \in Protocols : w.kind[p] \in {"ok", "unlisted"}
    /\ MinPoints \in Nat /\ HistoryBelow \in Nat
    /\ 0 < MinPoints /\ MinPoints <= HistoryBelow

VARIABLES
    world,                      \* one of Worlds
    known, points,              \* protocols and the number of their pool_snapshots
    realized, scored,           \* realized_apy and risk_scores
    waiting, used,              \* jobs in the queues; ids of follow-up jobs in use
    at,                         \* where each worker is
    faults

queues == <<waiting, used>>
vars == <<world, known, points, realized, scored, queues, at, faults>>

Jobs == {"ingest", "compute", "analyze"}

Idle == [step |-> "idle", todo |-> {}]
First(todo) == CHOOSE p \in todo : \A q \in todo : p <= q

Kind(p) == world.kind[p]

Init ==
    /\ world \in Worlds
    /\ known = {} /\ points = [p \in Protocols |-> 0]
    /\ realized = [p \in Protocols |-> {}] /\ scored = {}
    /\ waiting = {"ingest", "analyze"} /\ used = {}
    /\ at = [k \in Jobs |-> Idle]
    /\ faults = 0

In(k, step) == at[k].step = step
Current(k) == First(at[k].todo)
Goto(k, step, todo) == at' = [at EXCEPT ![k] = [step |-> step, todo |-> todo]]
Finish(k) == at' = [at EXCEPT ![k] = Idle]

\* The next protocol of the loop, or what comes after it.
Proceed(k, loop, after) ==
    LET rest == at[k].todo \ {Current(k)} IN
    IF rest = {} THEN at' = [at EXCEPT ![k] = after] ELSE Goto(k, loop, rest)

-----------------------------------------------------------------------------
(* ingestPools *)

StartIngest ==
    /\ In("ingest", "idle") /\ "ingest" \in waiting
    /\ waiting' = waiting \ {"ingest"}
    /\ Goto("ingest", "upsert", Protocols)
    /\ UNCHANGED <<world, known, points, realized, scored, used, faults>>

\* The rows are written one by one.
UpsertProtocol ==
    /\ In("ingest", "upsert")
    /\ known' = known \cup {Current("ingest")}
    /\ Proceed("ingest", "upsert", [step |-> IF world.demo THEN "seed" ELSE "current", todo |-> {}])
    /\ UNCHANGED <<world, points, realized, scored, queues, faults>>

Seeded == [p \in Protocols |-> IF Kind(p) = "ok" THEN HistoryBelow ELSE 0]

\* A slip the properties must catch: the deletion is committed on its own.
DeleteThenInsert ==
    /\ In("ingest", "seed")
    /\ points' \in {Seeded, [p \in Protocols |-> 0]}
    /\ IF points' = Seeded THEN Goto("ingest", "chain", {}) ELSE UNCHANGED at
    /\ UNCHANGED <<world, known, realized, scored, queues, faults>>

\* Demo: one transaction deletes the snapshots and inserts the re-timed seed.
ReplaceSnapshots ==
    /\ In("ingest", "seed")
    /\ points' = Seeded
    /\ Goto("ingest", "chain", {})
    /\ UNCHANGED <<world, known, realized, scored, queues, faults>>

Listed(p) == Kind(p) \in {"ok", "noHistory"}

\* Live: one request for all pools, one more snapshot for each that is listed.
FetchCurrent ==
    /\ In("ingest", "current")
    /\ points' = [p \in Protocols |->
                     IF Listed(p) /\ points[p] < HistoryBelow THEN points[p] + 1 ELSE points[p]]
    /\ Goto("ingest", "history", Protocols)
    /\ UNCHANGED <<world, known, realized, scored, queues, faults>>

\* A slip the properties must catch: the history is fetched every time.
AnyCount(p) == TRUE

NeedsHistory(p) == points[p] < HistoryBelow

FetchHistory ==
    /\ In("ingest", "history")
    /\ LET p == Current("ingest") IN
       /\ NeedsHistory(p) => Kind(p) \in {"ok", "unlisted"}
       /\ points' = [points EXCEPT ![p] = IF Kind(p) = "ok" THEN HistoryBelow ELSE @]
       /\ Proceed("ingest", "history", [step |-> "chain", todo |-> {}])
    /\ UNCHANGED <<world, known, realized, scored, queues, faults>>

\* An id that was used is not enqueued again, whatever became of its job.
Enqueue(id, job) ==
    IF id \in used THEN UNCHANGED queues ELSE used' = used \cup {id} /\ waiting' = waiting \cup {job}

EnqueueCompute ==
    /\ In("ingest", "chain")
    /\ Enqueue("compute", "compute")
    /\ Goto("ingest", "first", {})
    /\ UNCHANGED <<world, known, points, realized, scored, faults>>

EnqueueFirstAnalysis ==
    /\ In("ingest", "first")
    /\ IF scored = {} THEN Enqueue("first", "analyze") ELSE UNCHANGED queues
    /\ Finish("ingest")
    /\ UNCHANGED <<world, known, points, realized, scored, faults>>

-----------------------------------------------------------------------------
(* computeApy and analyzeDocs, which start by listing the known protocols. *)

StartLoop(k) ==
    /\ k # "ingest" /\ In(k, "idle") /\ k \in waiting
    /\ waiting' = waiting \ {k}
    /\ IF known = {} THEN Finish(k) ELSE Goto(k, "read", known)
    /\ UNCHANGED <<world, known, points, realized, scored, used, faults>>

\* getSnapshots; a protocol with fewer than two is skipped.
ReadSnapshots(k) ==
    /\ In(k, "read")
    /\ IF points[Current(k)] < MinPoints THEN Proceed(k, "read", Idle) ELSE Goto(k, "post", at[k].todo)
    /\ UNCHANGED <<world, known, points, realized, scored, queues, faults>>

Window(step) == IF step = "post" THEN 7 ELSE 30

\* One analysis, stored by two statements.
UpsertRealized(step) ==
    /\ In("compute", step)
    /\ step = "post" => Current("compute") \notin world.rejected
    /\ realized' = [realized EXCEPT ![Current("compute")] = @ \cup {Window(step)}]
    /\ IF step = "post" THEN Goto("compute", "thirty", at["compute"].todo)
       ELSE Proceed("compute", "read", Idle)
    /\ UNCHANGED <<world, known, points, scored, queues, faults>>

\* Documents, analysis and explanation, then the score.  RiskPublisher has
\* the publication that follows.
UpsertScore ==
    /\ In("analyze", "post") /\ Current("analyze") \notin world.rejected
    /\ scored' = scored \cup {Current("analyze")}
    /\ Proceed("analyze", "read", Idle)
    /\ UNCHANGED <<world, known, points, realized, queues, faults>>

-----------------------------------------------------------------------------
(* Failures, restarts and time. *)

\* Calls the world never answers: a chart that is an error, a rejected analysis.
Hopeless(k) ==
    \/ In(k, "history") /\ NeedsHistory(Current(k)) /\ Kind(Current(k)) \in {"noHistory", "dead"}
    \/ In(k, "post") /\ Current(k) \in world.rejected

\* Whatever throws ends the job: it waits again or has used up its attempts.
JobFails(k) ==
    /\ ~In(k, "idle")
    /\ IF Hopeless(k) THEN UNCHANGED faults ELSE faults < MaxFaults /\ faults' = faults + 1
    /\ waiting' \in {waiting, waiting \cup {k}}
    /\ Finish(k)
    /\ UNCHANGED <<world, known, points, realized, scored, used>>

\* A restart adds an ingest job; the jobs it interrupted are run again or,
\* when they stalled before, given up.
Restart ==
    /\ faults < MaxFaults /\ faults' = faults + 1
    /\ \E again \in SUBSET {k \in Jobs : ~In(k, "idle")} :
          waiting' = waiting \cup again \cup {"ingest"}
    /\ at' = [k \in Jobs |-> Idle]
    /\ UNCHANGED <<world, known, points, realized, scored, used>>

\* ingest-every-5m and analyze-daily.
Schedule(k) ==
    /\ k \in {"ingest", "analyze"} /\ k \notin waiting
    /\ waiting' = waiting \cup {k}
    /\ UNCHANGED <<world, known, points, realized, scored, used, at, faults>>

\* Ids carry the minute or the five minutes in which the ingest job started.
NewMinute ==
    /\ In("ingest", "idle") /\ "compute" \in used
    /\ used' = used \ {"compute"}
    /\ UNCHANGED <<world, known, points, realized, scored, waiting, at, faults>>

NewBucket ==
    /\ In("ingest", "idle") /\ used # {}
    /\ used' = {}
    /\ UNCHANGED <<world, known, points, realized, scored, waiting, at, faults>>

-----------------------------------------------------------------------------

Ingest ==
    \/ UpsertProtocol \/ ReplaceSnapshots \/ FetchCurrent \/ FetchHistory
    \/ EnqueueCompute \/ EnqueueFirstAnalysis

Work(k) ==
    \/ k = "ingest" /\ Ingest
    \/ k = "compute" /\ \E step \in {"post", "thirty"} : UpsertRealized(step)
    \/ k = "analyze" /\ UpsertScore
    \/ k # "ingest" /\ ReadSnapshots(k)
    \/ Hopeless(k) /\ JobFails(k)

Take(k) == IF k = "ingest" THEN StartIngest ELSE StartLoop(k)

Next ==
    \/ \E k \in Jobs : Take(k) \/ Work(k) \/ JobFails(k) \/ Schedule(k)
    \/ Restart \/ NewMinute \/ NewBucket

Spec == Init /\ [][Next]_vars

\* The workers work, the schedulers fire and the clock goes on.
Fairness ==
    /\ \A k \in Jobs : WF_vars(Work(k)) /\ SF_vars(Take(k)) /\ WF_vars(Schedule(k))
    /\ SF_vars(NewBucket)

FairSpec == Spec /\ Fairness

-----------------------------------------------------------------------------
(* Properties. *)

(* A pool that is shown once (the API joins protocols with the newest      *)
(* snapshot) never disappears again, although demo mode deletes its        *)
(* snapshots every five minutes and the other jobs and the API read them   *)
(* in between.                                                             *)
OnceListedStaysListed == [][\A p \in Protocols : points[p] > 0 => points'[p] > 0]_vars

HasData(p) == Kind(p) \in {"ok", "noHistory"}
NothingRejectedUpTo(p) == \A q \in 1 .. p : q \in world.rejected => ~HasData(q)

(* Whatever fails, crashes or is deduplicated, every listed protocol is    *)
(* scored in the end, the ones whose history cannot be had included,       *)
(* unless a rejected one comes before it in the order of ids; and its      *)
(* realized APY is stored for both windows, unless there is a configured   *)
(* pool that is gone: then ingesting never gets to enqueue compute-apy.    *)
EventuallyAnalysed ==
    \A p \in Protocols :
        <>(HasData(p) /\ NothingRejectedUpTo(p) =>
               /\ p \in scored
               /\ (\A q \in Protocols : Kind(q) # "dead") => realized[p] = {7, 30})

=============================================================================
