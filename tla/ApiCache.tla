------------------------------ MODULE ApiCache ------------------------------
(***************************************************************************)
(* The API's read-through cache (apps/api/src/infra/cache.service.ts) under*)
(* one key of one of the endpoints that use it.  A request asks Redis and, *)
(* unless that is a hit, runs the endpoint's statements against Postgres,  *)
(* each on its own and in any order, and stores the result.  Other services*)
(* change the tables at any time; rows are replaced, never deleted.        *)
(*                                                                         *)
(* A table is the version of its rows for the key, 0 while there are none; *)
(* MaxWrites bounds the writes, for each endpoint.  TTLs are in ticks of   *)
(* the clock and run from the SET.  No statement has a timeout, so a load  *)
(* may take any time; MaxLoad is how far its ticks are counted.            *)
(***************************************************************************)
EXTENDS Naturals

CONSTANTS Requests, MaxWrites, PoolsTtl, SeriesTtl, MaxLoad

Tables == {"protocols", "snapshots", "realized", "scores", "series"}

Names == {"pools", "pool", "history", "risk", "explain", "series"}

ASSUME CacheAssumption ==
    /\ MaxWrites \in [Names -> Nat] /\ MaxLoad \in Nat \ {0}
    /\ PoolsTtl \in Nat \ {0} /\ SeriesTtl \in Nat \ {0}

\* What each statement reads, and the tables without whose rows it has none.
Touches ==
    [pool |-> {"protocols", "snapshots", "realized", "scores"}, sparklines |-> {"snapshots"},
     history |-> {"snapshots"}, risk |-> {"scores"}, list |-> {"series"}]

Joined == [Touches EXCEPT !.pool = {"protocols", "snapshots"}]

\* The statements of an endpoint and those that must find something.
PoolEndpoints ==
    {[name |-> "pools", reads |-> {"pool", "sparklines"}, needs |-> {}, ttl |-> PoolsTtl],
     [name |-> "pool", reads |-> {"pool", "sparklines", "risk"}, needs |-> {"pool"}, ttl |-> PoolsTtl],
     [name |-> "history", reads |-> {"history"}, needs |-> {"history"}, ttl |-> PoolsTtl]}

RiskEndpoints ==
    {[name |-> name, reads |-> {"risk"}, needs |-> {"risk"}, ttl |-> PoolsTtl] : name \in {"risk", "explain"}}

SeriesEndpoints == {[name |-> "series", reads |-> {"list"}, needs |-> {}, ttl |-> SeriesTtl]}

Endpoints == PoolEndpoints \cup RiskEndpoints \cup SeriesEndpoints

VARIABLES
    endpoint,   \* the endpoint of the key
    db,         \* version of each table
    writes,     \* so far
    gone,       \* ticks since a version was replaced, for the properties
    cache,      \* the key in Redis: ticks left, 0 if absent, and the value;
                \* for the properties, also the ticks its load took
    pc, got,    \* each request's step and what its statements have read
    age         \* ticks of its load, for the properties

cacheVars == <<endpoint, db, writes, gone, cache, pc, got, age>>

Used == UNION {Touches[s] : s \in endpoint.reads}
Versions == 0 .. MaxWrites[endpoint.name] + 1
Longest == endpoint.ttl + MaxLoad - 1    \* gone is counted up to here

Nothing == <<>>
NoEntry == [left |-> 0, took |-> 0, value |-> Nothing]

\* At first all tables have their rows, or one has none yet, or all; a
\* snapshot refers to its protocol.
MissingAtFirst == {{}, Used} \cup {{t} : t \in Used \ {"protocols"}}

CacheInit ==
    /\ endpoint \in Endpoints
    /\ \E missing \in MissingAtFirst : db = [t \in Tables |-> IF t \in Used \ missing THEN 1 ELSE 0]
    /\ writes = 0 /\ gone = [t \in Tables |-> [v \in Versions |-> 0]]
    /\ cache = NoEntry
    /\ pc = [r \in Requests |-> "idle"] /\ got = [r \in Requests |-> Nothing]
    /\ age = [r \in Requests |-> 0]

Goto(r, step) == pc' = [pc EXCEPT ![r] = step]

\* The request has its answer, or its error.
Done(r) == Goto(r, "idle") /\ age' = [age EXCEPT ![r] = 0]

\* A slip the properties must catch: what was read is kept for the next load.
LeaveUnforgotten(r) == Done(r) /\ UNCHANGED got

Leave(r) == Done(r) /\ got' = [got EXCEPT ![r] = Nothing]

-----------------------------------------------------------------------------
(* wrap *)

\* A slip the properties must catch: every hit makes the entry live on.
HitProlongs(r) ==
    /\ pc[r] = "idle" /\ cache.left > 0
    /\ cache' = [cache EXCEPT !.left = endpoint.ttl]
    /\ UNCHANGED <<endpoint, db, writes, gone, pc, got, age>>

\* The entry is the answer.
Hit(r) ==
    /\ pc[r] = "idle" /\ cache.left > 0
    /\ UNCHANGED cacheVars

\* No entry, or no Redis, or a call that throws: all the same.
Miss(r) ==
    /\ pc[r] = "idle"
    /\ Goto(r, "load")
    /\ UNCHANGED <<endpoint, db, writes, gone, cache, got, age>>

\* Each statement sees its tables at one moment.
Read(r, s) ==
    /\ pc[r] = "load" /\ s \in endpoint.reads \ DOMAIN got[r]
    /\ got' = [got EXCEPT ![r] = [q \in DOMAIN @ \cup {s} |->
                  IF q = s THEN [t \in Touches[s] |-> db[t]] ELSE @[q]]]
    /\ UNCHANGED <<endpoint, db, writes, gone, cache, pc, age>>

Complete(values) == \A s \in endpoint.needs : \A t \in Joined[s] : values[s][t] > 0

\* All statements have answered: a value, or the 404 that load() throws.
Loaded(r) ==
    /\ pc[r] = "load" /\ DOMAIN got[r] = endpoint.reads
    /\ IF Complete(got[r]) THEN Goto(r, "set") /\ UNCHANGED <<got, age>> ELSE Leave(r)
    /\ UNCHANGED <<endpoint, db, writes, gone, cache>>

ReadFails(r) ==
    /\ pc[r] = "load"
    /\ Leave(r)
    /\ UNCHANGED <<endpoint, db, writes, gone, cache>>

\* The value is stored, or Redis is not there; it is the answer either way.
Set(r) ==
    /\ pc[r] = "set"
    /\ cache' \in {cache, [left |-> endpoint.ttl, took |-> age[r], value |-> got[r]]}
    /\ Leave(r)
    /\ UNCHANGED <<endpoint, db, writes, gone>>

-----------------------------------------------------------------------------
(* The other services and time. *)

Write(t) ==
    /\ t \in Used /\ writes < MaxWrites[endpoint.name]
    /\ t = "snapshots" /\ "protocols" \in Used => db["protocols"] > 0
    /\ db' = [db EXCEPT ![t] = @ + 1] /\ writes' = writes + 1
    /\ UNCHANGED <<endpoint, gone, cache, pc, got, age>>

Tick ==
    /\ cache' = IF cache.left <= 1 THEN NoEntry ELSE [cache EXCEPT !.left = @ - 1]
    /\ age' = [r \in Requests |-> IF pc[r] # "idle" /\ age[r] < MaxLoad THEN age[r] + 1 ELSE age[r]]
    /\ gone' = [t \in Tables |-> [v \in DOMAIN gone[t] |->
                   IF v < db[t] /\ gone[t][v] < Longest THEN gone[t][v] + 1 ELSE gone[t][v]]]
    /\ UNCHANGED <<endpoint, db, writes, pc, got>>

CacheNext ==
    \/ \E r \in Requests :
          \/ Hit(r) \/ Miss(r) \/ Loaded(r) \/ ReadFails(r) \/ Set(r)
          \/ \E s \in endpoint.reads : Read(r, s)
    \/ \E t \in Tables : Write(t)
    \/ Tick

CacheSpec == CacheInit /\ [][CacheNext]_cacheVars

\* Time passes; nothing else has to happen.
CacheFairSpec == CacheSpec /\ WF_cacheVars(Tick)

-----------------------------------------------------------------------------
(* Properties. *)

\* All of it is what the tables hold, or was replaced at most that long ago.
Recent(values, ticks) ==
    \A s \in DOMAIN values : \A t \in Touches[s] :
        values[s][t] = db[t] \/ gone[t][values[s][t]] <= ticks

(* However requests overlap and overwrite each other's entries, and        *)
(* although the statements of one answer are not one transaction, nothing  *)
(* in an answer was replaced before its load began: with a hit, longer ago *)
(* than the load took and the entry has lived.  A load as long as MaxLoad  *)
(* is not judged.                                                          *)
StalenessBounded ==
    /\ cache.left > 0 /\ cache.took < MaxLoad =>
           Recent(cache.value, cache.took + (endpoint.ttl - cache.left))
    /\ \A r \in Requests : pc[r] = "set" /\ age[r] < MaxLoad => Recent(got[r], age[r])

(* A load that hangs may overwrite a newer entry with what it read long    *)
(* before; but once the tables rest, the entry ends up, and stays, absent  *)
(* or what they hold, also if no request ever finishes.                    *)
EventuallyFresh ==
    <>[](cache.left > 0 => \A s \in DOMAIN cache.value : \A t \in Touches[s] : cache.value[s][t] = db[t])

=============================================================================
