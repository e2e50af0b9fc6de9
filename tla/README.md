# YieldCompass backend: TLA+ specifications, model checking and proofs

This directory specifies the parts of the YieldCompass backend in which order,
failure and rounding matter: the on-chain vault, the keeper that drives it, the
indexer that mirrors it, the faucet, the ingestion and scoring that decide what the
vault's risk gate sees, what the API shows and for how long, and the arithmetic all of
them share. Every definition is translated from the source; `PROJECT.json` maps each one
to the lines it stands for.

Run a model with `tlc -config MCX.cfg MCX.tla` (`PROJECT.json` names the module of each
configuration), check the proofs with `tlapm XProofs.tla`.

## 1. The system

| Component | State it keeps | Operations | Talks to |
|---|---|---|---|
| **yc_vault** program (`programs/yc_vault`) | `Config` (admin, risk authority, pause flag), one `RiskEntry` per protocol, one `Series` per offering; a vault token account and two share mints per series | `init_config`, `set_risk_entry`, `set_paused`, `init_series`, `deposit_senior/junior`, `activate`, `cancel_series`, `refund`, `settle`, `claim_senior/junior` | mock_yield and the token program, by CPI |
| **mock_yield** program | one `Pool` per series with its vault; a reserve and a sink | `init_pool`, `deposit`, `withdraw_all`, `simulate_yield`, `simulate_loss` | the token program |
| **waterfall** package | none (TypeScript twin of `math.rs`, plus `simulate`) | `seniorOwed`, `waterfall`, `claimAmount`, `juniorRatioOk`, `applyYield`, `simulate` | used by the API |
| **keeper** | `tx_log` (idempotency keys), `risk_publications`, `faucet_log`; BullMQ queues | scan and settle every 30 s; publish a score per job; hourly refresh; faucet | RPC node, Postgres, Redis |
| **indexer** | `series`, `positions`, `processed_signatures`, the cursor in `indexer_state` | a tick every 10 s (backfill, then series sync), websocket callbacks | RPC node, Postgres |
| **ingestion** | `protocols`, `pool_snapshots`, `realized_apy`, `risk_scores` | `ingestPools` (5 min), `computeApy`, `analyzeDocs` (daily) | analytics, Postgres, keeper (publish queue) |
| **analytics** (Python) | none | APY, risk score, fact extraction with checks and retries, explanations | a language model |
| **API** (NestJS) | a Redis cache | pools, ranking, history, risk, series, quote, simulate, wallet positions, faucet forwarding | Postgres, Redis, analytics, keeper |
| schema, shared package, infrastructure, scripts, testkit | | | |

The hard behaviour, and what makes each part correct:

* **Vault.** Transactions of any signer interleave: pause and risk entries change
  between a caller's look and its instruction, tokens are sent straight to the
  vault, shares are transferred or burned outside the program, claims round down one
  by one. Correct means: the junior buffer always holds; an Open series past its
  deadline has exactly one way on; nobody but holders gets funds out; the vault
  always covers what is owed; every holder can leave.
* **Keeper.** Several processes, crashes between any two statements, submissions
  whose fate is unknown, a local clock ahead of the chain's, a key taken over
  after 90 s. Correct means: a key is confirmed only for what happened, and
  what should happen (settlement, publication) happens in the end.
* **Indexer.** Ticks do not wait for each other and overlap with callbacks;
  notifications are lost or overtake the tick. Correct means: each transaction
  counts once, none is lost behind the cursor, and the mirror converges.
* **Faucet.** Concurrent requests and unanswered mints against one cooldown row.
* **Ingestion.** Three queues whose jobs share four tables and are deduplicated by
  ids that may be used up; demo mode deletes and re-inserts all snapshots every
  five minutes; loops end at the first protocol that fails. Correct means: what is
  listed stays listed, and every protocol that can be scored is.
* **Analytics.** A language model's reply is untrusted, documents may be missing, and
  seven rules with caps and penalties become one number. Correct means: inventions
  never raise a score, and better facts never lower it.
* **API.** Cached answers assembled from several statements while the tables change;
  a ranking with nulls; a chart computed from a window of rows. Correct means: an answer is
  no older than its load and its entry, one order, and the same figures as from all rows.
* **Arithmetic.** The same inequality rearranged three ways with truncating
  division (program, quote, series view).

## 2. Modules

| Module | Models | Notes |
|---|---|---|
| `Waterfall` | `math.rs`, `bps_of` | operators; results wider than `U64_MAX` are `NONE` |
| `YcVault` | yc_vault and mock_yield, one series | one action per instruction, plus what the token program and the clock do |
| `TrancheContract` | the abstract promise of a series to its depositors | implemented by `YcVault` |
| `MCYcVault` | instances | two symmetric users, series parameters |
| `Quote` | waterfall package, `buildQuote`, `buildSimulation`, `presentSeries` | pure operators |
| `Pools` | `ranking.ts`, `history.ts`, the pools controller and repository | pure operators |
| `MCQuote` | instances of the two | every property is checked over all small inputs |
| `TxLog` | `idempotency.ts` | operators on one row, used by the next two |
| `KeeperSettle`, `MCKeeperSettle` | `settle.ts` | one series, several keepers |
| `RiskPublisher` | `analyzeDocs` (its end), `publishRisk.ts`, the publish worker and refresh of `index.ts` | one protocol, step by step |
| `RiskRefresh` | the same refresh, one step per job | one protocol, in hours |
| `Indexer`, `MCIndexer` | `services/indexer`, the wallet's claimable figure | one series, one position, several passes |
| `Faucet`, `MCFaucet` | `faucet.ts` | one address, several requests |
| `Ingestion`, `MCIngestion` | `services/ingestion`: jobs, store, schedules, seed | several protocols, three workers |
| `DocAnalysis`, `MCDocAnalysis` | `fetchDocs`, `analytics.ts`, `llm.py`, `risk.py` | one protocol's analysis |
| `ApiCache`, `MCApiCache` | `cache.service.ts` and the endpoints that use it | one key, several requests |
| `WaterfallProofs`, `YcVaultProofs`, `KeeperSettleProofs`, `RiskPublisherProofs`, `IndexerProofs`, `FaucetProofs`, `IngestionProofs`, `ApiProofs` | lemmas and theorems | section 6 |

How state and actions correspond to the code:

* **YcVault.** A transaction is atomic, so an instruction is one action; its guard
  is the handler's `require!`s, the checks of its CPIs and the checked arithmetic.
  Functions by tranche stand for pairs of fields (`principal["senior"]` is
  `senior_principal`). Account constraints (which mint, which vault, which signer)
  hold because the model has one series and no other accounts to pass; `SetPaused`,
  `InitSeries` and `SetRiskEntry` are the acts of whoever holds the right key, at any
  time and with any value. `PoolDeposit` and `PoolWithdrawAll` are the pool's instructions
  that `Activate` and `Settle` call. `SimulateYield` and `SimulateLoss` are the pool
  administrator's. `Donate`, `TransferShares` and `BurnShares` are what the SPL
  token program allows without yc_vault, and are marked external. `paid` is a
  history of the `Claimed` and `Refunded` events. `init_config` and `init_pool` have
  run in the initial state.
* **KeeperSettle.** Every `await` is a step: `Scan`, `Claim`, `Submit`, `Receive`,
  `Record`. The chain's side is the guard of `YcVault!Settle`. `Scan` does not
  test maturity because the keeper's clock may be ahead. A pending row that is
  90 s old is `"stale"`; nothing bounds an attempt by 90 s, so a row may age under
  a live attempt. A statement that throws outside the `try` ends the scan and leaves
  the row as it is, as a crash does: `Crash` is both.
* **RiskPublisher.** Scores are numbered by version so that "older" means something.
  Each job has its own key, so `log` is indexed by job and version. The
  hours are abstract: a publication turns due at some time after it was recorded,
  and the refresh bucket rolls over at some time after its job is done.
* **Indexer.** A transaction is its place in the chain's history. A pass is a tick or
  a callback; it carries in its locals what the code carries across awaits (the
  cursor it read, the list it works on, the account it fetched, what it returns to
  once a series row that was missing has been fetched and inserted). The row is
  missing at first: `FetchMissing` and `InsertMissing` are `seriesIdFor`. The depositor
  leaves a settled series with a claim and a cancelled one with a refund; both are an
  UPDATE of the same flag. `Claimable` is what the wallet endpoint computes from the two
  tables, the share of a payout or a refund one to one.
* **Faucet.** `row` is the cooldown row; a cooldown (an hour by default) never
  passes during a request, which lasts a minute or so.
* **RiskRefresh.** A step per refresh, per job and per hour. Hours are rounded down, so
  "exactly six left" may or may not be due, and an entry with none left counts as
  expired. A bad hour is one without a refresh, or one whose job used up its attempts:
  its id then blocks the rest of its three-hour bucket.
* **Ingestion.** What the outside world answers (mode, what DefiLlama has, which
  analyses are rejected) is a constant of the behaviour; on top of it any call may fail.
  Each worker is at a step of its job with the protocols it has left. A protocol's data
  is the number of its snapshots. `replaceSnapshots` is one transaction, so it is one
  step; the other statements are a step each. Retries of a job are a new start of it.
* **DocAnalysis.** Documents are fetched one at a time, any may be missing. A reply is a
  list of claims. The rules count its entries and do not look at their order, so a list is
  a set whose members carry the number of their copy (`nth`, `Numbered`). Whether a quote
  bears out what the claim says, or was cited before, is not looked at, by the code or here.
  An audit's `findings` may be negative, as in the schema (`risk.py:43`), and then take off
  those of another audit (`Unresolved`). Requests (`analytics.ts`, five) and replies (`llm.py`, three) are
  counted apart, since an answer 502 after three invalid replies is retried as well.
  Factors are exact, in parts of `F * 1000`.
* **ApiCache.** A table is the version of its rows for one key. The statements of a
  load are not one transaction: each reads at its own moment. Redis may be absent or fail
  at any request, which is a miss and a store that does not happen. A load may take any
  time, since no statement has a timeout (`db.ts:9`), and the TTL runs from the SET that
  follows it. An endpoint is a record of the statements it runs, those that must find
  something, and its TTL. A row that is only left-joined, or read without being demanded,
  may be missing in a cached answer: `risk: null` is cached (`pools.controller.ts:43`).
* **Pools.** `Before` is the comparison `rankPools` sorts by, `Included` and `Above` the
  list; a history is a set of points in time, `Chart` the figures of the days shown.

## 3. Runs

| Run | Configuration | What it shows |
|---|---|---|
| `ycvault` | 2 users x 2 tokens, four series parameters (one invalid, one under which what senior is owed may be no u64 and the maturity no timestamp), two scores, expired and fresh entries, gains and losses of half the pool, fairness (825,000 states) | buffer, solvency, exit, unique resolution, no path to funds, implements the contract; settled after maturity, stuck only by its terms |
| `quote` | amounts to 5, BPS 20, all rates and minimums allowed, eight returns; three pools around the profiles' limits; all histories of 13 moments in four days, one point without a rate (547,000 states) | exact headroom, one-unit rounding bounds, first loss; one order that agrees with the figures shown; the lead-in suffices |
| `keeper_settle` | 2 keepers, 2 crashes, 2 faults, fairness | confirmed means settled, pending has an owner, settled in the end |
| `risk_publisher` | 2 scores, 2 attempts, 2 faults, fairness | records of publications are true, the entry ends up current |
| `risk_refresh` | 24 h, margin 6 h, buckets of 3 h, outages up to 2 h | an entry never expires |
| `indexer` | 2 passes, 3 transactions, cap 2, a failure, a null answer, fairness (663,000 states) | applied exactly once, the cursor covers, all indexed, the mirror converges, the wallet's figure becomes what the program pays |
| `faucet` | 2 requests, 3 faults, fairness | extra drips only from unknown outcomes, keeps serving |
| `ingestion` | 2 protocols, five worlds, one fault, fairness | a listed pool stays listed, every protocol that can be scored is |
| `doc_analysis` | 3 documents, 12 possible entries of a reply, three of them copies of one audit, 11 settings of the figures (8,767 states) | inventions never raise a score, better never scores lower, missed documents raise it only by bad news |
| `api_cache` | 2 requests, every endpoint, TTLs 2 and 1, loads of any length, fairness of the clock (869,000 states) | nothing in an answer is older than its load and its entry; entries become fresh |

Why the bounds are enough. BPS is 20 instead of 10 000, so that 5% and 50%, the
limits of `min_junior_bps`, and the 50% limit of the rate are whole; a year is 2 or
3 seconds so that terms of one or two seconds earn interest that rounds. Two users
suffice for transfers and for the order of claims; two tokens each give a senior
tranche of three shares, whose payout after a loss does not divide. Two keepers, passes
or requests give every race between two of them; every fault needs one or two
steps to do its damage, and the budgets allow two. With two protocols there is one
before and one after any that fails, and the five worlds differ in what blocks the
first or the second; `HistoryBelow` is 3 instead of 30, above the two points an
analysis needs. A day has three parts and a window two days, so that points fall at,
before and after a day's end. Two versions of a table are an answer that is stale
and one that mixes old and new (one write suffices for the pools' four tables, two for the
others); TTLs of two ticks and one let a load end after the entry it overwrites, and loads
are told apart up to two ticks, so that one outlasts a TTL; a longer one has no bound to
keep and only has to be overcome (`EventuallyFresh`). `F` is 3, so that every percentage of
a factor rounds; three copies of a good audit reach the cap and further audits pass it; two
requests of three replies show both retry loops end.

The outage bound of `risk_refresh` is sharp: with `MaxOutage = 3` an entry may expire,
because after two missed refreshes a job that fails in the first hour of its bucket
blocks the two good hours that follow.

The bounds that cut something off are `MAX_TIME` (the clock), `MaxVersions`,
`MaxWrites`, `MaxLoad`, `MaxTxs`, `MaxNulls`, `MaxCrashes`, `MaxFaults`, `MaxOutage`, `MaxAmount`,
`MaxTerm`, `LastTime`, `Tries` and `Replies` (two and three; the code has five and three).

`keeper_settle` turns off the deadlock check: with the series settled, the
keeper has nothing to do for it.

### Where the code and its documentation disagree

Two runs are expected to end in a counterexample. Each checks one sentence of the
repository.

| Run | Says | Does |
|---|---|---|
| `risk_publisher_old` | `publishRisk.ts:24`: a stale job can't publish an old number | a submission that lands late does; the refresh repairs it only in the end |
| `indexer_order` | `indexer.ts:23`: positions are built from events, each applied exactly once | a claim applied before its deposit is lost, the position stays unclaimed |

The models show more that have no run of their own, since a neighbouring
property already states exactly what does hold:

* `README.md:87`, "cannot double-submit": a settlement that timed out is marked
  failed and sent again while it may still land. The program refuses the
  second one, and `ConfirmedMeansSettled` and `EventuallySettled` hold regardless.
* `idempotency.ts:6`, "key confirmed -> false (already done)": `fail` (line 34)
  overwrites a confirmed row, unlike `release` (line 39). `publishRisk` gets there
  when the INSERT after `confirm` throws (lines 49-60); the job then publishes
  again. `RecordsAreTrue` holds regardless.
* `indexer/src/index.ts:33`, "polling below still keeps us correct": a listed
  transaction for which `getTransaction` answers null is skipped for good.
  `CursorCovers` says that this and the cap are the only ways to lose one.
* `series.controller.ts:21`, "junior needed to back the current senior tranche":
  rounded down, it may be one unit short of the program's rule and never more
  (`JuniorNeededWithinOne`).
* `state.rs:71`, "Ok(()) only if the series may be activated right now (ignoring pause)":
  with a term so long that the maturity passes `i64::MAX`, activation fails behind an open
  gate (`lifecycle.rs:63`), and cancellation is refused because the gate is open, until
  pause or the risk entry closes it. The run reaches this state: `ExactlyOneResolution`
  names it as the only one with no way on.
* `indexer.ts:156`, "catch up on transactions we have not seen": of a gap over
  `MAX_BACKFILL` the older part is skipped for good (`CursorCovers` again).
* `004_faucet.sql:1`, at most one drip per window: a timed-out mint that lands makes a
  second one. `ExtraDripsAreUnknown` is the bound that holds.
* `keeper/src/index.ts:57`, "the on-chain gate never sees a stale score": true for at
  most two bad hours in a row (`StaysValid`).
* `jobs.ts:96`, "an unreachable doc simply contributes nothing; the scorer stays
  conservative": a document that tells of a single-key authority, of unresolved findings
  or of an incident lowers the score, so missing it raises what is published. A single
  key is worth 0.1 and silence 0.3 (`risk.py:32`). `OnlyBadNewsIsLost` is what holds.
* `README.md:78`, "invalid JSON is retried at most twice": by the service; its client
  retries the 502 that follows (`analytics.ts:41`), so one analysis may ask up to fifteen times.
* `README.md:77`, "every extracted claim must quote the source text verbatim ... or it
  is dropped": an incident only needs a source that was provided (`llm.py:122`), which
  can only lower the score (`FabricationNeverRaises`).

Two more observations that contradict no sentence of the repository. A reply that cites one
genuine audit three times gets the full audit factor (`risk.py:113` counts entries), and a
negative number of findings takes off another audit's (`risk.py:116`):
`FabricationNeverRaises` is about quotes that are not genuine, and says so. And an
entry of the cache may be as old as its load took plus the TTL: the load has no bound.

`EventuallyCurrent` is a caution as well: it needs the *recorded* publication to
turn due. An entry that an older, late submission overwrote stays wrong until
then, up to 18 hours, which is why the property is about the end.

## 4. Fairness

* `YcVault!FairSpec`: time passes; `settle` is called again and again (the keeper's
  scheduler, `keeper/src/index.ts:86`, every 30 s). No service sends `activate` or
  `cancel_series`: nothing is assumed of them, and nothing is claimed of when an open
  series is resolved, only that exactly one of the two can succeed.
* `KeeperSettle!FairSpec`: every keeper is scheduled; a submission that is not
  dropped lands; time passes. No fairness for crashes, timeouts or other callers.
* `RiskPublisher!FairSpec`: the worker takes waiting jobs (strong fairness, since it
  is busy with others in between) and makes progress; the hourly refresh runs
  (`keeper/src/index.ts:87`); buckets and due dates come. Analyses need not happen.
* `Indexer!FairSpec`: ticks keep coming (`indexer/src/index.ts:35`; strong, since a
  slot for a pass may be taken by a callback) and calls return. Notifications and
  transactions are not assumed.
* `ApiCache!CacheFairSpec`: time passes. No request has to finish, or to come.
* `Faucet!FairSpec`: someone keeps asking, calls return, cooldowns pass.
* `Ingestion!FairSpec`: a worker that has a job goes on with it (weak) and takes a
  waiting one (strong, since faults return it to the queue), the repeatable jobs are
  added (`ingestion/src/index.ts:44-47`), and the five-minute buckets of ids pass
  (strong: a restart or another job may intervene). A call that cannot succeed
  fails its job; which calls those are is the world's constant.

Every fault is bounded by a budget: the liveness properties say that the
system recovers once faults cease, not that it works while they never do.

## 5. Contract and refinement

`TrancheContract` has five variables less than half the vault's and no clock, pool or
arithmetic: principal is collected while open and frozen after; dues are fixed
once, either the principal or a payout in which junior is positive only
if senior got its principal; and what is paid never passes what is due. `YcVault`
implements it with `phase <- status` and `due <-` the principal of a cancelled
series or the payouts. It is checked as a PROPERTY of `ycvault` and proved.

## 6. Proofs

The vault's theorems hold for every set of users, every set of series parameters, scores,
time-to-live values and amounts, every width, and every `BPS >= 2` and year length:
in particular for the code's 10 000, 31 536 000 and 64 bits. Those about the services
hold for any number of processes, requests, passes, protocols, transactions and
faults. They rest on each module's assumptions on its constants (`...Assumption`), which TLC
evaluates in every run, and, where a theorem has an `ASSUME`, on the hypothesis it names:

| Hypothesis | Says | Why the code meets it |
|---|---|---|
| `MintFits` | finitely many users; the tokens they and the reserve start with are a u64 | the supply of any SPL mint is a u64 |
| `GridFits` | the most that can be owed on two principals of the enumeration is a u64 | the same, for the API's inputs: its bigints have no width |
| `MarginSuffices` | a refresh margin outlasts an outage and a bucket, and an entry the margin and a bucket | 6 > 2 + 3 and 24 >= 6 + 3 - 1 |
| `DocumentsAgree` | a protocol's documents name one authority and one oracle between them | an extraction has one field for each; without it "faithful" has no meaning |

Each of them holds in the run of its module.

`RiskRefresh`, `DocAnalysis` and `ApiCache` are proved about beside another part of the same
component: their definitions have names of their own (`HoursSpec`, `AnalysisSpec`,
`CacheSpec`), so that one proof module can extend both.

**The vault** (`YcVaultProofs`, with the arithmetic of `WaterfallProofs`).

* `TypeCorrect`: `TypeOK`; its content is that no subtraction goes below zero.
* `BooksBalance`: the inductive invariant `IInv`. `Solvent` alone is not
  inductive. A claim needs that the supply of burned shares never exceeds the
  principal and that what was paid so far fits the shares burned so far
  (`paid * principal <= payout * (principal - supply)`); a refund needs the same
  with one token per share; settlement needs that nothing was paid before. These are
  the conjuncts of `Bookkeeping` and the last one of `Solvent`. The nonlinear
  steps (a division rounded down, products against sums of shares) are lemmas of
  `WaterfallProofs`.
* `BufferAlwaysHolds`, `AlwaysSolvent` follow from it. That a junior deposit cannot
  break the ratio is the lemma `JuniorDepositKeepsRatio`, and it uses
  `min_junior_bps <= BPS / 2`.
* `ResolutionIsUnique`: activation and cancellation are complementary, but for a maturity
  that is no timestamp. Activation needs a non-empty vault (the pool rejects zero), which
  is solvency again.
* `BalancesAddUp`: no account has more shares than the supply, and the vault's balance is a
  u64. The obvious argument is a sum over the users, which needs induction over a set.
  Instead balances are *backed*: there are pairwise disjoint sets of tokens, one per user,
  whose sizes are the balances and whose union lies within the tokens issued (`Backed`). A
  mint adds fresh tokens, a burn removes some, a transfer is a burn and a mint, and each
  is a lemma about cardinalities (`BackedMint`, `BackedBurn`, `BackedAtFirst`). The
  underlying tokens are backed in the same way: free ones in wallets, the rest in the
  vault, the pool, the reserve and the sink (`TokensBacked`).
* `ExitAlwaysPossible`: `HoldersCanExit`, from `BooksBalance` and `BalancesAddUp`.
* `OnlyTermsOverflow`: a matured series is stuck only by its terms (`init_series` bounds
  the rate and not the term, `series.rs:47-62`, so it is on the administrator: at 50% a mint
  of 10^16 base units has some 3 600 years). All principal is tokens (`WithinTheMint`: open,
  it is in the vault by solvency; later it no longer changes), and what is owed grows
  with the principal (`OwedMonotone`).
* `OnlyHoldersArePaid`: every step satisfies `VaultFallsOnlyToHolders`.
* `ContractImplemented`: initial states and steps map to `TrancheContract`.

**The services.** In each, the invariant that is wanted says what the database may claim, and
the inductive one adds what the processes carry in their locals, since they write
later what they learnt earlier:

* `KeeperSettleProofs`: `ConfirmedIsSettled`. `Settlement` adds that the answers
  keepers hold (`AnswersAreTrue`) and the steps they are at (`StepsAreTrue`) agree with
  the chain. `PendingIsOwned` needs in addition that a pending row without a keeper has
  a crash as its cause.
* `RiskPublisherProofs`: `RecordsTellTheTruth`. `Publication` adds that every job names
  a version that exists and that what the worker is about to record is a version the
  entry has held (`seen`), which no later submission can take away.
* Also there, `EntryNeverExpires`, of `RiskRefresh`. The parts of `HoursInv` are the
  argument: the keeper's record is never later than the entry; a bucket whose job id
  is used up either published in this bucket or lies in the outage that its attempts
  were part of; until an outage is over only its hours are lost from the margin; and
  after it a bucket with a fresh id publishes or has hours to spare.
* `IndexerProofs`: `NothingBehindTheCursor` and `EachTransactionCountsOnce`.
  `PassesAccountForTheirs` is what each pass promises whatever the others do to the
  cursor meanwhile: it has dealt with all that lies behind the transaction it is at,
  also while it is away fetching a missing series row. `TypeCorrect` includes that a
  position has its series row; it needs that a callback which goes on to its events has
  written that row (`HandlersHaveTheRow`).
* `FaucetProofs`: `DripsAreBounded`. `CooldownIsALock` says that the cooldown row
  admits one request at a time, and that a request that may still mint, or a row that
  would let one in, has a unit of the bound left.
* `IngestionProofs`: `ListedForGood`. Replacing snapshots is harmless because only demo
  mode does it and in demo mode nothing but the seed has written any (`ModeDecides`).
* Also there, the analysis (`DocAnalysis`). `AnalysisInv`: a
  score is that of the claims that survived the checks. The rest is about the score:
  it grows with each of its seven factors (`ScoreMonotone`, through the final rounding and
  the cap), and each factor with what it looks at. `SaferIsNotLower`,
  `FabricationDoesNotPay` and `SilenceIsConservative` are three orders on inputs.

**The API** (`ApiProofs`).

* `HeadroomIsTheRule` and `NeededIsWithinOne`, for all amounts and minimums: the divisions
  of the API and the comparison of products of the vault are brought to the same product
  (`RatioRearranged`, `WithinQuotient`).
* `TargetIsWithinOne`, `SplitsNeverGain`, `JuniorIsFirstLoss`: one truncation against two
  (`PartOfInterest` and its neighbours); payouts grow with the assets.
* `OrderIsDeterministic`: `Before` is a strict total order, nulls included.
  `ListMatchesFigures`: descending figures, flags and omissions agree.
* `ChartNeedsOneWindowMore`: the newest point before a moment is the same in both sets of
  rows. That there is a newest one is the least element of a set of naturals (`WFMin`), the
  form of induction that takes a set and not an operator.
* `AnswersAreRecent`, of `ApiCache`. `CacheInv` says how old what a request has read may be,
  by the ticks of its load, and how old what is in Redis, by the ticks of the load that
  stored it and the time it has left.

Every safety property of a passing run, invariants and action properties alike, is stated
by a theorem. Only model-checked: liveness, which is out of the prover's reach
(`EventuallySettled` of the vault and the keeper, `EventuallyCurrent`,
`EventuallyIndexed`, `EventuallyMirrors`, `EventuallyClaimable`, `EventuallyAnalysed`,
`EventuallyFresh`, `KeepsServing`). `NeverPublishesOldNumber` and `PositionFollowsChain`
are false.

## 7. Not modelled

* Arithmetic in doubles: realized and sustainable APY (`apy.py`, the figures of
  `pipeline.py`), annualised returns of a quote, risk-adjusted yield. Rankings and scores
  are modelled with exact numbers; at a tie the doubles may differ.
* Conversions: DefiLlama's and the seed's formats, amounts and dates as text, HTML to
  text, normalisation of quotes and the 25-word limit (a quote is in a document or not).
* Of the analytics service, the cached extractions of the demo mode and the explanations.
* Of the vault, account rent and bumps; of `RiskEntry` the realized APY and emissions
  fields, which no code on chain reads. The performance fee is required to be zero.
* Of the indexer, the risk columns and their cache, and the second tranche of a wallet.
  Shares that are transferred or burned outside the program are not seen by the
  indexer: the wallet's figure is about deposits.
* `keeper/src/demo.ts` sends instructions one after another: `YcVault` lets anyone send
  any of them at any time. The faucet's forwarding controller, health servers,
  configuration, deployment, scripts, seed data and the test kit keep no state.

## 8. Plan

Done, in this order: what holds money (`Waterfall`, `YcVault`, `TrancheContract` and their
proofs); what drives the vault and can fail halfway (`TxLog`, `KeeperSettle`,
`RiskPublisher`, `RiskRefresh`); what users see (`Indexer`, `Quote`, `Pools`, `ApiCache`,
`Faucet`); what feeds them (`Ingestion`, `DocAnalysis`); proofs of all their safety properties.

Left:

1. `Indexer` with both tranches and transfers of shares, to state by how much a
   wallet's figure can differ from what its shares would be paid.
2. Composition of `RiskPublisher` with `RiskRefresh`, so that a due date is an hour, and
   the proof that the step-by-step module implements the one in hours.
3. More abstract specifications to refine: what the idempotency keys promise their users,
   for `KeeperSettle` and `RiskPublisher` alike; an exactly-once consumer for `Indexer`.
