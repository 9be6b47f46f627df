# Verification of investment_assistant

TLA+ models of the stateful core of `src/src/investment_assistant`, checked with
TLC on small instances and, for the theorems listed in section 5, proved with
TLAPS for every value of the constants. File names below are relative to that
directory unless they begin with `src/`.

## 1. The system

A local investment assistant: a command line (`cli.py`, `cli_market.py`), a
threaded HTTP server (`webapi/server.py`, a `ThreadingHTTPServer`, with
`webapi/service.py` as its router), scripts run by hand, and a browser client.
Its state is kept in SQLite files, in CSV and JSON files, and in a few
process-local dictionaries. Hardly anything is locked: one lock guards the
handlers that change the virtual book; everything else relies on the transactions
of SQLite, or on nothing.

| Component | State | Operations | How it interacts, and what is hard |
|---|---|---|---|
| Virtual trading (`papertrade/virtual.py`, `account.py`, `mechanics.py`) | `vt_trades` (append only), `vt_meta` | order, reset, replay, portfolio, performance | one store, two accounts (`user`, `ai`); every book is rebuilt by replaying its rows; each call opens a transaction of its own |
| Autopilot (`papertrade/autopilot.py`) | `autopilot:*` in `vt_meta` | `catch_up`, `run_cycle` | called lazily by GET requests; a cycle is a dozen transactions and may be stopped between any two |
| Virtual trading API (`webapi/virtual_trade.py`) | `_MUTATION_LOCK`, cache of parsed bars | the `/api/vtrade/*` handlers | writers take the lock after they have read the price file; readers do not |
| Guarded LLM access (`llm/`) | `llm_cache`, `gemini_usage`, `llm_cooldown` | `generate`, `generate_grounded`, purge | no lock: check, call, store and count are separate transactions of concurrent threads |
| Orchestration (`orchestration/`) | the shared `llm_cache`, switch of the real provider | drafts, critique, synthesis, fallbacks | the offline client writes to the cache of the real one |
| Jobs and saved simulations (`webapi/jobs.py`, `webapi/service.py`) | job table; `simulations/saved.json` | start, poll; save, delete, list | read, change and write of a JSON file without a lock |
| EDINET ingest (`edinet/`, `maintenance.py`) | text, sidecar and history files | `ingest_targets`, `prune_local_docs` | jobs side by side; the file that marks a filing as done is written before the one that holds its data |
| RAG store (`rag/`) | documents, chunks, vectors, meta | chunk, index, prune, backfill, search | directory, store and embedder may disagree; runs over nested directories |
| Fetching (`ingestion/`, `portfolio/_market_common.py`) | HTTP cache in SQLite, limiter and robots rules per fetcher | `fetch`, `fetch_once` | lookup, wait, request and store are separate; errors are cached as well |
| Market files (`cli_market.py`, `webapi/market.py`) | `daily_bars.csv`, `yahoo_financials.csv` | refresh, universe, backfill | long fetches, then read, merge and rewrite in place, by several processes |
| Quotes and scores (`data/`, `webapi/sprint_api.py`) | `stock_quotes` (append only), `sprint_scores` | collect, update, import, rescore | partial failure per ticker; a score is written long after its row was read |
| Data-quality gates (`webapi/daily_bars_*.py`, `data_quality_sprint_review.py`) | a dozen CSV and JSON artifacts | five scripts; a person edits between them | stale artifacts; a stop leaves files of two builds |
| Portfolio simulator (`portfolio/simulator.py`) | none | split of a budget into lots | rounding, caps, a knapsack |
| Forecasting, scoring, analysis; reports and dashboards | none | functions of series; pages built from files | floating point; read only |

What makes each correct:

* **Books**: never overdrawn, tax equal to the tax on the net profit, money
  conserved.
* **Store and broker**: the log replays, every row records the cash its account
  really had, an order takes effect in one step whatever other threads do.
* **Autopilot**: goes forward in time, runs a date once, never buys back what it
  just sold, keeps its preset's limits, and finishes what it began.
* **LLM guard**: the budget is overshot only by requests checked together, all
  that spends quota is counted, a cooldown holds, an answer in the cache stops
  further requests for it, every request ends.
* **Chat**: ends with an answer; a chat that asked for the real provider is
  answered by it.
* **Simulations, history, index**: no acknowledged change is lost, the figures of
  a filing reach the history, the newest filing wins, the newest dividend table
  holds for all the years it covers, the index matches the disk.
* **Market files, quotes**: a merge takes no ticker away; the bars a request is
  handed are no older than the file was when it came; no listed stock stays stale;
  a score is made of the newest row.
* **Fetching**: a burst on one page costs each client one request at most; a
  throttled fetch asks again.
* **Gates**: evidence stands beside the prices it was reviewed for, the summaries
  agree, nothing a person typed is lost.
* **Allocation, chunker**: within the budget and the cap; every character is
  indexed; cutting a text comes to an end.

`PROJECT.json` lists 40 hazards at their lines, each with the properties that
speak of it. Not all of them are caught: some are mistakes the code makes, of
which a property can only say that nothing else goes wrong. These carry a note on
what is excused: a reset between two transactions of a read, simulations and jobs
that overlap or are cut off in a write, a filing between its text and its sidecar,
a history that cannot be read, a file that cannot be read while it is indexed, a
note without front matter, a score written after another run's, a stop between the
artifacts of a gate, a market file that is overtaken or cut, a `KeyError` of the
cache of bars, an ingest of filings older than the history. Each of these happens
in a run of its model. One hazard has no property: which filings
`prune_local_docs` leaves after it has forced downloads, since the code promises a
number per directory only.

## 2. Modules

| Module | Models | Composed in |
|---|---|---|
| `Mechanics` | tick and price-limit tables, rounding, fill price, lots, withholding tax | all books |
| `Account` | one book: refusals, buy, sell, average cost, tax | `Ledger`, `VirtualTrade` |
| `Ledger` | abstract specification: books changed by orders and resets only | `MCBooks`; refined by `VirtualTrade` |
| `MarketOnOpen` | the fill of one market-on-open order | `MCBooks` |
| `Allocation` | splits of a budget, knapsack, purchase up to a target | `MCBooks` |
| `Chunker` | the cutting of a text into chunks | `MCBooks` |
| `Collector` | quotes, scores, the pipeline, its threads and its schedule | `MCBooks` |
| `VirtualTrade` | log, meta table, lock, handlers, autopilot, price file, restarts | `MCVirtualTrade` |
| `LlmGuard` | cache, budget, cooldown and retries of concurrent requests | `MCRequests` |
| `Orchestration` | chats over a shared cache and a switched provider | `MCRequests` |
| `EdinetIngest` | jobs that ingest filings, the history, prune | `MCDocuments` |
| `RagIndex` | index runs over files that change, the vectors of a store, their backfill | `MCDocuments` |
| `Simulations` | the JSON file of saved simulations | `MCDocuments` |
| `SliceGates` | the five scripts of a slice and the person between them | `MCServices` |
| `MarketFiles` | runs that fetch, merge and rewrite the market files | `MCServices` |
| `BarsCache` | the cache of parsed bars that request threads share without a lock | `MCServices` |
| `Fetch` | robots, cache, limiter, transport, market retries | `MCServices` |
| `AccountProofs` | lemmas on orders, tax, the lowest and highest of a set | all proofs about books |
| `BooksProofs` | theorems about `Ledger`, `MarketOnOpen`, `Allocation`, `Collector`; sums over a finite set | |
| `VirtualTradeProofs` | lock, order of dates, what a cycle knows | `ReplayProofs` |
| `ReplayProofs` | what a replay of the log computes; the refinement of `Ledger` | |
| `LlmGuardProofs`, `EdinetIngestProofs` | theorems about the modules of that name | |
| `DocumentsProofs` | theorems about `Chunker`, `RagIndex`, `Simulations` | |
| `MarketDataProofs` | theorems about `MarketFiles`, `BarsCache`, `Fetch`, `SliceGates` | |

The `MC` modules of several parts run each part on its own: a variable `part` says
which, and the others rest. A part has its own actions and its own bounds, so one
run of TLC explores the union, not the product, of their states.

### Mechanics, Account, Ledger, MarketOnOpen

Prices are integers in thousandths of a yen, so that slippage and the fifth of a
reference price are exact; cash, profit and tax are whole yen, since the smallest
tick is one yen. The position of the code is an average cost times a number of
shares; the model keeps the product (`basis`). A partial sale takes its share of
it rounded down, where the code keeps a binary fraction: the two can differ by
less than a yen per sale. The tax is `TaxLedger.record_realized_pnl`: the tax on
the cumulative profit less what has been withheld, which may be a refund.
`fill_price`, `clamp_to_limit` and `apply_slippage` are modelled and checked, but
in the package only the batch simulator uses them: the virtual book fills at a
close rounded to a tick.

### VirtualTrade

| Action | Code |
|---|---|
| `RequestOrder`, `LoadOrder`, `AppendOrder` | `vtrade_order`: read the bars; take the lock, load the account, decide; append the row in a later transaction and release the lock |
| `RequestTick`, `BeginCatchUp` | `vtrade_ai_portfolio`, `vtrade_ai_performance` (bars read before the lock) and `vtrade_autopilot_run` (bars read under it), then the dates of `catch_up` |
| `BeginCycle`, `SellNext`, `BeginBuys`, `BuyNext`, `FinishCycle` | `run_cycle` and the loop of `catch_up` |
| `Reset`, `Configure` | `vtrade_reset`, `vtrade_autopilot_config`: one transaction under the lock |
| `RequestRead`, `FinishRead` | the lock-free reads of `build_portfolio` and `build_performance`, two transactions |
| `RefreshBars` | a market data job replaces `daily_bars.csv` |
| `Crash` | the process stops and is restarted |

Abstracted: the score of a candidate is a constant `Ranking` per price file,
preset and date (any ranking, so any score); dates are `1 .. LastDate`;
settlement dates are display only. The load and the append of one autopilot
order are one step: both are under the lock, and a stop between them leaves
nothing behind. Candidates with a close of zero are left out because
`load_daily_bars` drops such bars. The price file is replaced in one step; a reader
of a half-written file sees one more price file, which the theorems allow for,
since they hold for any sequence of files (how the file is written is the matter
of `MarketFiles`). `ImplementsLedger` maps each account to the book its log replays
to, and every step to one order or reset of `Ledger`, or to a stutter.
History variables: `cycles[d]` counts the cycles of a date since the last reset,
`torn` says that a cycle has ended since then without recording its date.

### LlmGuard and Orchestration

A worker of `LlmGuard` is a thread in `LlmService.generate` or
`generate_grounded`, which follow the same steps: `Ask` (the key is made),
`Lookup`, `CheckDaily`, `CheckMonthly`, `CheckCooldown`, `Send`, one of the replies
of the provider (text, HTTP 200 without text, 5xx, 429, anything else), then
`Store` and `RecordCall`, or `RecordCooldown`, or a retry. The five services are
the ones the code builds: the real client and its grounded variant; the templates
that stand in for them in `run_rag_answer` and `run_web_answer`, under the label
`local_template`, on which the budget is enforced and their calls counted like real
ones; and the offline services of `build_orchestrator`, on which no budget is
enforced and which bear the label of the real client (section 6). `Key` binds the
label, and the day for the two grounded services. `DatabaseError` ends a request
whose transaction finds its database locked, also after the provider has answered.
`PurgeExpired` and `EnforceMaxRows` are the cache maintenance command. The clock is
a counter; a transaction and the reading of its time stamp are one step. A row of
the cache has the history variable `again`: the requests sent for its key since it
has had a row to serve. Left out: texts, the options no caller sets
(`count_failed_attempts`, a row limit inside `set`), cache hits in the usage table,
and the reason given with a fallback.

`Orchestration` is the chat above it: `SetRuntime` (the switch and the key of a
request), `Chat`, `Draft`/`Drafted`, `Critique`, `Synthesize`, `Finalize` with its
chain of fallbacks, and `Expire` of a row. A guarded call is one step there, with
whatever result `LlmGuard` allows; a text is who wrote it and whether it echoes the
prompt, which is what the cleaning of the answer looks at. Retrieval is found or
not found. The last resort of `service.py` that calls the provider directly is a
refusal: its task `direct_final_answer` is not among the allowed tasks of
`config/gemini.yaml`.

### EdinetIngest, RagIndex, Simulations

`EdinetIngest` follows one ticker: `StartIngest` selects the newest filings of the
list a job sees; `ReadCached`, `SkipFiling`, `Download`, `SaveText`, `SaveSidecar`
go through them; `MergeHistory` reads the history, merges and corrects the
dividends by the table of the latest period end; `OpenHistory` and `CloseHistory` are the
two halves of the write in place; `IndexTexts` and `PruneIndex` the indexing after
it; `FailJob` an exception, `StopServer` the end of the daemon threads,
`ListVictims` and `UnlinkFile` the prune command, one file at a time. A filing has a
period end, its fiscal year, a dividend or none and a table or none, each
independent of the others; a point remembers the filing it comes from and the one
whose table its dividend is taken from; the figures do not matter. `basis` is the
newest filing whose table has corrected the history. `strains` records what the code
does not guard against: jobs that overlap; a run over filings older than the one a
year shows (`lookback`) or than `basis` (`revert`); a write or a job cut off; a
prune; a table that was saved without a sidecar (`unsaved`). The properties say what
holds without them, and each exception was needed.

`RagIndex` has one action per transaction of the store and per file access of a
run; files are written, removed and become unreadable between them. `synced` is the
history variable of what an undisturbed run has left in step with the disk.
Whoever opens the store (`StartDirectory`, `StartFile`, and `OpenStore` for a search)
makes the vectors an older version left out (`Opened`, the code's
`_backfill_embeddings`), with the embedder it opens the store with.
`Simulations` splits a save into the read, the truncation and the write.

### SliceGates, MarketFiles, Fetch

`SliceGates` models `build_daily_bars_slice`, `..._readiness_backlog`,
`..._local_evidence`, `..._review_gate` and `build_data_quality_sprint_review` with
the files between them, each script with the point where it is stopped and the part
of a table it has written by then; and a person who reviews, copies and types.
`MarketFiles` gives each command its plan of steps (`DailyRefresh`, `PageRefresh`,
`Financials`, `Universe`, `Backfill`); a step fetches, reads the table, truncates and
fills it. Of the rows of a ticker it keeps whether there are any, and whether they
are enough for `find_market_gaps` (two closes; a price). A fetch returns any of
these for each ticker it asked for: what days its rows are of, and whether they are
older than those on disk because the HTTP cache served them, is left open.
`BarsCache` has a step for each line of `virtual_trade._bars` (modification time,
test, clear, load, store, index), while `WriteBars` opens or closes the file, with a
new modification time or, in the same instant of the clock, with the old one.
`Fetch` follows `SafeFetcher.fetch` and `MarketFetchRunner.fetch_once`: robots,
lookup, wait, request, store; every attempt of a market fetch makes a fetcher of its
own, so its limiter starts afresh. The maintenance of its cache is two transactions,
`PurgeExpired` and `EnforceMaxRows`.

### Allocation, Chunker, Collector

`Allocation` counts money in fractions of a yen and compares quotients by their
products; the tolerance of `1e-9` in `_weighted_floor_shares` is left out, since it
is there to undo a binary rounding the model does not have. What a lot is worth in
the choice (per yen, times the safety in the balanced mode) and what it earns
towards a target (`Dividend`, after tax if asked) are two functions, as in the code.
Each step buys one lot, as the loops do, no more often than `LoopCap` (500,000 in the
code, the constant `LoopBound` here). `Chunker` keeps a chunk as the set of its positions; one action cuts the
window, one emits the chunk. `Collector` has the runs of `update_stale`,
`collect_tickers`, imports and rescoring, each fetch and each transaction a step; an
import stores row by row, and a value that is no number ends it where it stands;
quotes are the hours they were fetched at, a score the hour of its row.

## 3. Runs

| Run | Instance | Shows |
|---|---|---|
| `vtrade` | two threads, three price files, three dates, two user orders, one reset, one restart | `RowsRecordCash`, `ReadsReplayUnlessReset` |
| `vtrade_autopilot` | two threads, two presets, one order of an odd lot, one reset, one restart | `AiDatesOrdered`, `AiAsOfReplays`, `RunOncePerDate`, `NoRoundTripUnlessStopped`, `BuysKeepLimits`; the refinement `ImplementsLedger` |
| `vtrade_live` | two threads, no reset, fairness | `CatchUpCompletes` |
| `books` | five parts: one account with two tickers; every pair of prices around each bound of the tables; three holdings; every text of up to eight characters; two collectors of two stocks, one of them delisted | `CashNonNegative`, `TaxMatchesProfit`, `MoneyConserved`; `QuotableInBand`, `NeverBetterThanOpen`; `NeverOverspends`, `CashMinimal`, `YieldCapped`; `ChunksCoverText`, `ShortLinesEnd`; `RefreshReachesScores`, `StocksRefreshed` |
| `requests` | two threads, three requests to three of the five services, three days in two months, one restart or locked database; two chats in a row with two drafts each | `BudgetOvershootBounded`, `UncountedBounded`, `CoolingSendsBounded`, `RepeatsBounded`, `EveryRequestEnds`; `EveryChatIsAnswered` |
| `documents` | two jobs, three runs over three filings of two years, one stop or prune; two indexers over three files in nested directories, one of them stored without vectors, one failure; two requests over three simulations, one stop | `HistoryKept`, `NewestTableHolds`, `SavedFilingsCounted`, `NewestWinsUnlessStrained`; `SyncedIndexMatchesDisk`, `RebuildRestoresSpace`; `SimulationsKept` |
| `services` | four runs of the five scripts, one of them stopped, two edits; two runs over two market files and two tickers, one stop; two readers of the bars, four writes, one restart; three clients and one page | `EvidenceFitsPrices`, `SummariesAgreeUnlessCut`, `InputKept`; `TickersKept`; `BarsNotOutdated`; `BurstBounded` |
| `vtrade_asof`, `vtrade_stop`, `chunk_ends`, `chat_offline`, `fetch_throttled` | as above, or as small as shows it | violations, section 6 |

**Bounds.** Two actors are enough for a race of any two sections of the code, and
all races found here are of two. The bounds of the models are the constants whose
names begin with `Max` and are said to be bounds where they are declared, `LastHour`,
and the constraints `Small`: in `MCBooks` it drops books whose profit
leaves 200 yen or whose position three lots, in `MCDocuments` a third ingest after an
overlap. They were chosen so that each case occurs:

* `vtrade*`: the three price files are an early one, a newer one that lacks a date,
  and one that fills it in, so a lagging ticker, a skipped date and two files of
  different age all occur. With `CatchUpCap = 2` and three dates the cap cuts a
  catch-up short. Closes of 2.5 and 3 yen make rounding matter, and the rise to 3.5
  passes the take-profit.
* `requests`: a limit of one call and three requests reach the overshoot; days of
  one tick and months of two let a request be checked in one and counted in the
  next. One chat client has two chats in a row, so that the second finds the rows of
  the first; two at once would differ only inside the guarded call, which
  `LlmGuard` interleaves. The three services are one of each kind the steps tell
  apart: undated and real, dated and enforced but local, not enforced under the real
  label. The theorems hold for any of the five.
* `documents`: the third filing corrects the first, is submitted after the second and
  reports on an earlier date, and has a dividend but no table, so the order of arrival,
  of periods and of tables all differ;
  `MaxPeriods = 2` of three drops one. Two ingests may overlap at any step, but a third
  is followed only where none has overlapped another (`Small`): no property speaks of
  what comes after an overlap. Every filing of the run has a dividend, so the strain
  `unsaved` does not occur in it; the theorems hold for filings with a dividend, a
  table, both or neither. In the store a directory lies inside another and holds a note without front matter;
  the vectors are of one embedder or of two. The theorems hold for a store that begins
  empty, or as any older version left it without vectors.
* `services`: a second run may begin between any two steps of the first, and a third
  thing, a stop, between any two of both. Four writes are two whole ones, each of which
  may share its instant with the one before; two readers clear and fill the cache under
  different or equal keys meanwhile. A row stays fresh for two ticks and a retry waits,
  so it may expire meanwhile.
* `books`: texts of eight characters with windows of five and an overlap of two have
  every order of cuts; a cap of two fifths on three holdings binds one and then
  another; budgets below the cheapest lot, with a remainder, and of several lots; a
  holding that earns twice its worth, and a target that more than the eight lots of
  `LoopBound` would be needed for; the delisted stock comes first.

Handlers, jobs and indexers are interchangeable, so `vtrade`, `vtrade_autopilot`
and `documents`, which check no liveness, use symmetry. Deadlock is checked in the runs of
the virtual book and switched off where everything the bounds allow comes to an end.

**Fairness.** `VirtualTrade`: the thread that holds the lock runs on; the guarded
section has no wait in it. Nothing is assumed of threads waiting for the lock, which
is not a fair lock, nor of new requests. `LlmGuard`, `Orchestration`, `Chunker`: a
thread that has begun runs on, and the provider answers each request somehow; which
answer comes is not constrained. `Collector`: threads run on; the daily update that
the docstring of `flick_collector` schedules does come (strong fairness, since
other requests may hold all threads meanwhile), and the page of a listed stock can be
fetched and stored infinitely often if it is tried infinitely often. `StocksRefreshed`
holds because fewer stocks are delisted than `max_errors`; with as many at the head of
the list it does not (section 6).

**Mutants.** Each property of a passing run has a mutant, a plausible mistake in
one definition (marked `Mutant` in the modules, before the definition it changes),
under which the run finds the property violated.

## 4. Abstraction that several modules share

* A SQLite transaction is one step and durable; between two transactions anything
  may happen. A file written in place is truncated in one step and filled in
  another; where a cut-off file reads as something else than empty
  (`EdinetIngest.Prefix`, `SliceGates.CutTable`) its prefixes are among the outcomes.
* A stop of the process (`Crash`, `StopServer`, `StopProcess`, `Halt`, `Stop`,
  `Restart`) loses the threads and keeps the disk.
* Texts, prices of a fetch and figures of a filing are members of small sets or the
  identity of what they were made from; history variables are marked as such where
  they are declared and guard no action of the code.

## 5. Proofs

The eight proof modules hold for every value of the constants that meets the
assumptions named in the modules; the bounds of the runs do not appear in them,
except that the counters they cap exist. 35 of the 40 properties of the runs are
theorems. Each row gives what had to be added to a property to make it inductive.

**`BooksProofs`**

| Theorem | States | Argument |
|---|---|---|
| `TypeCorrect`, `NeverOverdrawn`, `TaxIsOnNetProfit`, `PositionsAreSound` | `TypeOK`, `CashNonNegative`, `TaxMatchesProfit`, `PositionsSound` | `Inv` joins them. A sale never overdraws because the tax on a profit grows by no more than the profit (`TaxDueSlope`, with the rounding of both taxes) and the cost of what is sold is not negative (`CostOfBounds`) |
| `MoneyIsConserved` | `MoneyConserved` | `MoneyInv`: the equation for every book at once; a trade changes one term of the sum over tickers (`SumAdds`, `SumOfNothing`) by what it moves in cash, profit and tax |
| `FillsAreQuotable`, `FillsAreFair` | `QuotableInBand`, `NeverBetterThanOpen` | `FillInv` (the fill is what `FillPrice` gives for whole prices). A tick divides every bound of the tick table at which it changes (`TickSteps`), so rounding stays in its row (`RoundedFits`), and each limit band holds a tick at either end (`BandHoldsATick`) |
| `BudgetIsKept` | `NeverOverspends` | `AllocInv`: in each mode what is spent and what is left make the budget, in the money that mode counts. The weights leave something to divide by (`WeightsLeft`) and sum to one at most (`SplitFits`); whole yen, costs up and the budget down, are within full money (`YenFits`) |
| `CapIsKept` | `YieldCapped` | fixing the names over the cap leaves a positive rest (`OverLeavesRoom`), so as many rounds as there are names end with none over it (`FixedFacts`) |
| `CashIsMinimal` | `CashMinimal` | an entry of the table is the most that any choice of lots fills (`TableIsBest`, by induction over the capacity), and along the way back spent plus promised stays the best (`AllocInv`) |

| `ScoresAreOfNewestRows` | `RefreshReachesScores` | `CollectorInv`: a score is of a row of the table (`TableInv`), and `RunKnows`: what a run has stored is in the table and among what it will score; rows are only added, so the newest row it reads back is no older than either, and stays no older than the score while no other run writes |

**`VirtualTradeProofs` and `ReplayProofs`**

| Theorem | States | Argument |
|---|---|---|
| `LockExcludes`, `DatesInOrder`, `NeverRoundTrips`, `RunsADateOnce`, `NeverBack` | one handler in the guarded sections; `AiDatesOrdered`; `NoRoundTripUnlessStopped`; a date is run once unless a cycle was cut off; `LastRunMonotone` | `IInv`: mutual exclusion (`Exclusive`), what a handler inside a cycle knows (`Knows`: its dates are ahead of `lastRun`, also with an old price file), and while no cycle was cut off where the rows of the running cycle stand (`Whole`) |
| `EveryRowRecordsCash`, `ReadersReplay`, `AiBookAsOfEveryDate` | `RowsRecordCash`, `ReadsReplayUnlessReset`, `AiAsOfReplays` | `LogInv`, on top of `IInv`: what each handler holds fits the log it was read from (a decided order still fits when it is appended, since nobody else appends meanwhile). A log replays when each row fits the beginning before it; for an ordered log the rows up to a date are such a beginning |
| `RepeatsOncePerStop` | `RunOncePerDate` | `CyclesCounted`: a date that is neither done nor under way has been begun once at most for each stop |
| `LimitsKept` | `BuysKeepLimits` | `BuyKnown`: the cycle's own count is the book's, unless the autopilot holds later rows |
| `StoreIsSound`, `StoreIsLedger` | the books the logs replay to are sound; `ImplementsLedger` | the refinement, step by step: an appended row is one order of `Ledger`, a reset one reset, everything else (locks, price files, cycles, reads, restarts) a stutter |

**The other modules**

| Theorem | States | Argument |
|---|---|---|
| `DocumentsProofs!ChunkerCovers`, `ChunkerFits`, `ChunkerMovesOn` | `ChunksCoverText`; no chunk exceeds the window; with short lines each window starts behind the last one | `CoverInv`: everything before `start`, or before `end` once the window is cut, is covered |
| `DocumentsProofs!IndexMatchesDisk` | `SyncedIndexMatchesDisk` | what a calm run knows halfway (`CalmRuns`): what it has kept is in the index as it is on disk, what it has still to keep it has still to read, and no other run is under way |
| `DocumentsProofs!RebuildsRestoreSpace` | `RebuildRestoresSpace` | `SpaceInv`: what a calm run has kept has its embedder, and so has the meta table once it has kept anything; only the prune, which removes what was not kept, takes a run from its walk to rest (`WalkEndsInPrune`) |
| `DocumentsProofs!SimulationsAreKept` | `SimulationsKept` | while no writes overlap, the list in the hands of the one request that writes is the file of its begin with its change |
| `LlmGuardProofs!OvershootIsBounded` | `BudgetOvershootBounded` | `BudgetInv`: once a limit is reached no thread joins those between the check and the count, and each call counted is one of them less |
| `LlmGuardProofs!UncountedIsBounded` | `UncountedBounded` | answers are counted, empty, or still held by a worker or lost by a stop, which takes at most one from each |
| `LlmGuardProofs!CoolingSendsAreBounded` | `CoolingSendsBounded` | `CoolInv`: while a cooldown runs, the requests sent since plus the attempts still pending are no more than those of the other workers; the pending ones are counted as a set of pairs of a worker and an attempt |
| `LlmGuardProofs!RepeatsAreBounded` | `RepeatsBounded` | `RepeatInv`: while a row can be served, the requests sent for its key plus the attempts of those that have missed it (`Waiting`, pairs of a worker and an attempt) are no more than those of the other workers; a row is only stored by a worker that thereby stops waiting |
| `EdinetIngestProofs!MergedYearsStay` | `HistoryKept` | `HistoryInv`: without overlap and torn writes one job is at work, and what it has merged holds every year reported (`OneAtWork`, `MergeKeeps`) |
| `EdinetIngestProofs!NewestFilingWins` | `NewestWinsUnlessStrained` | `CalmInv`: a filing the history is drawn from is on disk with its sidecar, and a run works on filings that are newer than all of those, or takes them in again (`Forward`) |
| `EdinetIngestProofs!NewestTableStays` | `NewestTableHolds` | `BasisInv`, on top of `HistoryInv` and `CalmInv`: the filing of the newest table is on disk with its sidecar, so each run meets it again or works on nothing older (`Reaches`), and what it merges shows nothing older in the years of the newer of the two tables |
| `EdinetIngestProofs!SavedFilingsAreCounted` | `SavedFilingsCounted` | `SavedInv`: from the save of its text to the write of the history, the job at work holds the point |
| `MarketDataProofs!TickersStay` | `TickersKept` | `MarketInv`: a ticker that is owed to a table is in it, or a run that is filling it has it to write; and every run that has read the table has it to write or is known to have missed it (`Safe`) |
| `MarketDataProofs!BarsAreNotOutdated` | `BarsNotOutdated` | `CacheInv`: readers with the same key have seen the same first write of it, and no entry, nor what a reader holds for it, is from before that write; a file that is loaded later than its key was made is only newer |
| `MarketDataProofs!BurstIsBounded` | `BurstBounded` | `FetchInv`: while a row is fresh, requests made since plus clients about to send stay below the number of clients |
| `MarketDataProofs!EvidenceStaysWithPrices` | `EvidenceFitsPrices` | `EvidenceInv`: every row of every file of a slice, and of a part of one, has the source of its prices or none |
| `MarketDataProofs!TypedRowsSurvive` | `InputKept` | the build reads the typed rows before it writes, and writes them all |
| `MarketDataProofs!SummariesAgree` | `SummariesAgreeUnlessCut` | `SummaryInv`: before a stop each summary is a function of the issues of the last slice, or none has been built |

`AlwaysIInv`, `GuardInvAlways`, `HistoryInvAlways`, `CalmInvAlways`,
`IndexInvAlways`, `SimInvAlways`, `FetchInvAlways`, `CollectorInvAlways`, `AlwaysMarketInv`, `RepeatsAlways` state the invariants themselves;
they contain the types of the variables they speak of. There is one lemma per action
or group of like actions, and one (`StepIInv`, `NextKeeps`, ...) that joins them. The
longer invariants were checked by TLC on the runs before they were proved.

**Recursion and sums.** What the models compute by recursion is a recursive function,
`CHOOSE f : f = [x \in S |-> ...]`, of which nothing is known until one is shown to
exist. `BooksProofs` shows it once for the subsets of a finite set (`FoldExists`, with
`SumUnique`), for repeated steps (`IterateExists`) and for the knapsack's table
(`TableExists`); `ReplayProofs` for the rows of a log. The inductions are over sets:
the set of the numbers, or of the subsets, for which the claim holds has all of them
(`NumberInduction`, `SubsetInduction`), or a least counterexample is none. The
library's own induction theorems take an operator as a parameter, which the provers
cannot instantiate.

**Assumptions.** The named `ASSUME`s of the models, which say what configuration the
code accepts: sizes that pass the `ValueError`s of `chunk_text`, order sizes in whole
lots, closes above zero (`load_daily_bars` drops others), opens and closes in whole
yen for the fill, dates and holdings that are numbers in their order, finite sets of
tickers, holdings, workers and clients, a cap and a rounding fraction above zero, a
hashing embedder among the embedders. One theorem has a hypothesis besides:
`StoreIsLedger` takes for the order sizes of `Ledger` all whole lots
(`Lots = WholeLots`), since the autopilot sizes its orders by its cash; the run can
only give a finite set. About filings nothing is assumed but that their dates and years
are numbers: a dividend and a table may come together, alone or not at all, and a table
may have any years.

**What failed attempts showed.** Three properties held on the small instance only. Three
filings of one year refute `SavedFilingsCounted` after a prune and a download that fails,
and an order left behind by a stopped cycle on a later date lets a repeated cycle exceed
the preset (`BuysKeepLimits`); each now names its exception (`prune`, `NothingLater`).
That all years of the latest table show figures of one table is not so in the code: a
filing with a dividend and no table that is ingested later replaces the corrected figure
of its year, and a run over older filings corrects by an older table. `NewestTableHolds`
states what is left, and with it two more exceptions (`revert`, `unsaved`) came to light.

**Only model-checked.** Everything temporal under fairness (`CatchUpCompletes`,
`EveryRequestEnds`, `EveryChatIsAnswered`, `ShortLinesEnd`, `StocksRefreshed`), which is
out of the prover's reach. All other properties that a passing run checks are proved.

## 6. Where code and documentation disagree

Shown by a run:

* `vtrade_asof`: a live order is dated by the latest bar of its own ticker. With a
  ticker that lags behind, the rows are no longer in date order, the book as of a
  date between does not replay, and the performance endpoint raises from then on.
* `vtrade_stop`: a process stopped inside a cycle repeats it without knowing what
  it sold, and buys it back at the same close.
* `chunk_ends`: `chunk_text` cuts the same piece for ever when a window was cut back
  to a boundary within the overlap of its start.
* `chat_offline`: the offline client shares label, model and cache with the real one,
  and a real chat is answered by an offline draft.
* `fetch_throttled`: a throttled reply is cached, and taken for the answer or for the
  answer of every retry.

Met while modelling, without a run of their own (the models contain the behaviour,
or abstract from it as said):

* A reset between the two transactions of a lock-free read makes it raise
  (`papertrade/virtual.py:691`; `ReadsReplayUnlessReset` names the exception).
* Answers without text spend quota and are never counted (`llm/service.py:208`).
* Any request that brings a key overwrites the process-wide `GEMINI_API_KEY`. A first
  draft that is unusable throws away usable later ones. An echoed prompt stays cached
  for 30 days and makes every later chat fall back to the local provisional answer.
* A run over older filings, or a job that overlaps another, can put an older filing's
  figures over a newer one's (`lookback` and `overlap` in `EdinetIngest`), and
  re-corrects the whole history by its own, older dividend table (`revert`;
  `edinet/ingest.py:153-178`). A filing with a dividend and without a table shows its
  own, perhaps unadjusted figure beside corrected ones. A table without a dividend
  figure is in no sidecar, so only the run that downloads it corrects by it (`unsaved`;
  `edinet/ingest.py:266-272`). A prune that crosses a download can leave a text without
  its sidecar, and the filing is never read again. After a job that failed or was
  stopped its texts stay unindexed until another job indexes.
* Two threads in `_bars` may each clear the dictionary between the other's test and
  index: the request then ends in a `KeyError` (`webapi/virtual_trade.py:168-171`,
  though 110-117 says of these endpoints that they "stay lock-free"). Bars written
  in the same instant of the file system's clock as those that were loaded stay hidden
  until the next write.
* The templates of `run_rag_answer` and `run_web_answer` are throttled and counted like
  the real provider (`cli.py:882-884`, `924-926`), although `llm/service.py:125-128` says
  that local clients must not be; only the offline client of the chat is exempted
  (`orchestration/factory.py:105-108`). A usage database that is locked after the
  provider has answered leaves the call uncounted (`llm/service.py:215`).
* Opening a store without vectors makes them with whatever embedder the caller brings
  and does not name it in `rag_meta` (`rag/store.py:335-350`), so a search takes them
  for hashing ones. Vectors of two embedders stand side by side until a whole rebuild
  (`rag/store.py:111`).
* `market_bars_universe` overwrites the whole table; a refresh of one month replaces a
  longer history, and it may be served a page cached up to an hour ago
  (`portfolio/_market_common.py:186-189`; the range is part of the URL,
  `portfolio/ohlcv.py:30-33`), whose rows then replace newer ones. A row with only a
  price replaces a richer financial row, and one without a price a priced one
  (`cli_market.py:180`). Runs that overlap lose the tickers that one of them wrote
  between the read and the write of the other. Rate
  limiters belong to one fetcher each, so market fetches do not pace each other, and
  requests for `robots.txt` are not paced at all (`src/docs/market_data_runbook.md:128`
  says that rate limiting is kept).
* An import with a value that is no number ends with the rows before it stored and none
  of them scored (`webapi/stock_analysis.py:316`).
* Failed and untried tickers are reported as updated and rescored
  (`data/flick_collector.py:143`), which makes `is_stale` call their scores fresh.
  `stocks_collect` leaves the scores behind. As many delisted stocks as `max_errors` at
  the head of the list block all later ones for ever. The rank within a sector is
  computed among the batch only.
* Allocation: the mode for the highest dividend is greedy and not optimal, the budget
  for a target not minimal, the cash left may be slightly negative by rounding, and a
  loop ends silently after 500,000 lots.
* Gates: the field summary of the backlog attributes issues by substring
  (`daily_bars_slice_readiness_backlog.py:201`), `float("nan")` passes the checks of
  prices, the review gate's numbers know no thousands separators, a rerun for evidence
  replaces a queue that a person has edited, and a torn workflow file makes later
  builds raise after they have written.
* Job records are never removed (`webapi/jobs.py:35`).

## 7. Not modelled

* `llm/chain.py`: a list of providers tried in turn; only its own test builds one.
* `papertrade/store.py` and the batch simulator around it: plain inserts of finished
  results.
* `feedback.py`, `rag/history.py`: append-only logs.
* Forecasting, scoring, investment analysis, projections and risk figures of the
  simulator: functions over floating point series, without shared state. A model of
  them would be a transliteration of arithmetic that TLC cannot evaluate.
* Reports and dashboards (`webapi/data_status.py`, `reports.py`,
  `market_dashboard_entry_artifacts.py`): built from files in one pass, they write
  their own pages only.
* The routing and read-only endpoints of `webapi/service.py`; the argument parsing and
  printing of `cli.py`; the browser client; the personal scripts `src/jpx_*.py`. What
  changes state there is modelled with the component it belongs to.
* Parsing: of pages, archives, front matter and CSV dialects. A fetch returns rows
  or none, a filing a point or none.

What could follow: the safety half of `Orchestration` (which answer a chat may end with)
as an abstract specification of `LlmGuard`'s callers; and the mapping of `LlmGuard` to one
guarded call, which `Orchestration` takes as a step.

The server is taken to be one process: `_MUTATION_LOCK` is process-local, and the
command line has no command that trades. Money stays within the range in which
binary floating point holds whole yen. Bar dates sort as strings do.
