------------------------------ MODULE Collector ------------------------------
(***************************************************************************)
(* The collection of quotes: data/flick_collector.py, data/pipeline.py and *)
(* the two tables they keep in one SQLite file, the quotes of              *)
(* data/store.py, where rows are only added, and the scores of             *)
(* data/sprint_cache.py, from which a ranking is read without fetching.    *)
(*                                                                         *)
(* The handlers of webapi/sprint_api.py and webapi/stock_analysis.py run   *)
(* in a thread each and take no lock: a run looks for stale stocks,        *)
(* fetches them one after the other, adds a row for each, reads the newest *)
(* rows back and writes the scores made of them, each step by itself.      *)
(* Quality flags, which are stored and only displayed, are left out.       *)
(***************************************************************************)
EXTENDS Integers, FiniteSets, FiniteSetsExt, Sequences, SequencesExt

CONSTANTS
  Collectors,       \* request threads
  LastStock,        \* stocks are numbered in the order of their tickers
  Delisted,         \* stocks whose page has no price any more
  MaxErrors,        \* PipelineConfig.max_errors
  MaxAge,           \* max_age_hours, in ticks of the clock
  LastHour, MaxManual, MaxHangs    \* bounds of the model

Stocks == 1 .. LastStock
Hours  == 0 .. LastHour
Unscored == -1      \* neither a row nor a score has this time

ASSUME CollectorAssumption ==
  /\ LastStock \in Nat /\ LastHour \in Nat /\ MaxAge \in Nat
  /\ MaxErrors \in Nat \ {0}

VARIABLES
  hour,       \* the clock
  quotes,     \* stock_quotes: the times at which each stock was fetched
  scores,     \* sprint_scores: the time of the quote each score was made of
  run,        \* where each thread is, and its local variables
  manual, hangs    \* requests of a person, and stops of the process, so far

collectorVars == <<hour, quotes, scores, run, manual, hangs>>

Resting == [at |-> "idle"]

CollectorInit ==
  /\ hour = 0
  /\ quotes = [t \in Stocks |-> {}]
  /\ scores = [t \in Stocks |-> Unscored]
  /\ run = [c \in Collectors |-> Resting]
  /\ manual = 0
  /\ hangs = 0

-----------------------------------------------------------------------------
Known == {t \in Stocks : quotes[t] # {}}

(* Mutant: the rows are not sorted by the time of the fetch.               *)
OldestQuote(t) == Min(quotes[t])

LatestQuote(t) == Max(quotes[t])

StaleQuote(t) == t \in Known /\ LatestQuote(t) < hour - MaxAge

(* The lists of stocks a request can bear, without duplicates.             *)
Watchlists == UNION {SetToSeqs(some) : some \in SUBSET Stocks \ {{}}}

(* Some of the stocks of a list, in its order.                             *)
Parts(list, some) ==
  {part \in SetToSeqs(some \cap ToSet(list)) :
     \A i, j \in DOMAIN part :
       i < j => \E m, n \in DOMAIN list : m < n /\ list[m] = part[i] /\ list[n] = part[j]}

Stale == {t \in Stocks : StaleQuote(t)}

Move(c, to) == run' = [run EXCEPT ![c] = to]

(* A run of the pipeline over a list of stocks.  rescore tells which of    *)
(* them are scored afterwards: all, those stored, or none.                 *)
Pipeline(list, rescore) ==
  [at |-> "fetch", list |-> ToSet(list), todo |-> list, errors |-> 0, rescore |-> rescore,
   got |-> Unscored, stored |-> {}]

Scoring(tickers, stored) == [at |-> "score", list |-> tickers, stored |-> stored]

Importing(given, stored) == [at |-> "import", todo |-> given, stored |-> stored]

-----------------------------------------------------------------------------
(* What starts a run.                                                      *)

(* flick_update and update_stale: the stale stocks of the list, then those *)
(* never fetched.  The rows are read one stock after the other, and only   *)
(* ever get newer.  Every stock that was to be updated counts as updated,  *)
(* whether its fetch succeeded or not: the errors are kept as              *)
(* "TICKER: message", and the test for membership compares them with the   *)
(* ticker alone.                                                           *)
Update(c, watched) ==
  /\ run[c] = Resting
  /\ \E stale \in Parts(watched, Stale), missing \in Parts(watched, Stocks \ Known) :
       /\ stale \o missing # <<>>
       /\ Move(c, Pipeline(stale \o missing, "all"))
  /\ UNCHANGED <<hour, quotes, scores, hangs>>

(* The daily run over the whole table, and a run over a watchlist.         *)
ScheduledUpdate(c) ==
  /\ \E table \in Parts([t \in Stocks |-> t], Known) : Update(c, table)
  /\ UNCHANGED manual

ByHand(c) ==
  /\ run[c] = Resting
  /\ manual < MaxManual
  /\ manual' = manual + 1

WatchlistUpdate(c, watched) == ByHand(c) /\ Update(c, watched)

(* stocks_collect makes no scores.                                         *)
Collect(c, wanted) ==
  /\ ByHand(c)
  /\ Move(c, Pipeline(wanted, "none"))
  /\ UNCHANGED <<hour, quotes, scores, hangs>>

(* flick_append and append_ticker: one stock, fresh or not.                *)
AppendTicker(c, t) ==
  /\ ByHand(c)
  /\ Move(c, Pipeline(<<t>>, "stored"))
  /\ UNCHANGED <<hour, quotes, scores, hangs>>

(* stocks_import: rows a person supplies, one after the other.             *)
Import(c, given) ==
  /\ ByHand(c)
  /\ Move(c, Importing(given, {}))
  /\ UNCHANGED <<hour, quotes, scores, hangs>>

(* flick_score_all.                                                        *)
ScoreAll(c) ==
  /\ ByHand(c)
  /\ Known # {}
  /\ Move(c, Scoring(Known, {}))
  /\ UNCHANGED <<hour, quotes, scores, hangs>>

-----------------------------------------------------------------------------
(* collect_tickers, one stock at a time, until the list is empty or too    *)
(* many fetches in a row have failed.                                      *)

(* Mutant: the run gives up one failure too early.                         *)
GivesUpEarly(c) == run[c].errors >= MaxErrors - 1

GivesUp(c) == run[c].errors >= MaxErrors

Fetching(c) == run[c].at = "fetch" /\ run[c].todo # <<>> /\ ~GivesUp(c)

FetchQuote(c) ==
  /\ Fetching(c)
  /\ Head(run[c].todo) \notin Delisted
  /\ Move(c, [run[c] EXCEPT !.at = "store", !.got = hour])
  /\ UNCHANGED <<hour, quotes, scores, manual, hangs>>

(* The next stock, after a failure or with the row of this one stored.     *)
Onward(c, errors, stored) ==
  Move(c, [run[c] EXCEPT !.at = "fetch", !.todo = Tail(@), !.errors = errors,
                         !.got = Unscored, !.stored = stored])

Failed(c) == Onward(c, run[c].errors + 1, run[c].stored)

FetchFails(c) ==
  /\ Fetching(c)
  /\ Failed(c)
  /\ UNCHANGED <<hour, quotes, scores, manual, hangs>>

(* upsert_quote only ever inserts; the row bears the time of the fetch.    *)
StoreQuote(c) ==
  /\ run[c].at = "store"
  /\ LET t == Head(run[c].todo)
     IN  /\ quotes' = [quotes EXCEPT ![t] = @ \cup {run[c].got}]
         /\ Onward(c, 0, run[c].stored \cup {<<t, run[c].got>>})
  /\ UNCHANGED <<hour, scores, manual, hangs>>

StoreFails(c) ==
  /\ run[c].at = "store"
  /\ Failed(c)
  /\ UNCHANGED <<hour, quotes, scores, manual, hangs>>

ToScore(c) ==
  CASE run[c].rescore = "all"    -> run[c].list
    [] run[c].rescore = "stored" -> {row[1] : row \in run[c].stored}
    [] run[c].rescore = "none"   -> {}

PipelineDone(c) ==
  /\ run[c].at = "fetch"
  /\ run[c].todo = <<>> \/ GivesUp(c)
  /\ Move(c, IF ToScore(c) = {} THEN Resting ELSE Scoring(ToScore(c), run[c].stored))
  /\ UNCHANGED <<hour, quotes, scores, manual, hangs>>

-----------------------------------------------------------------------------
(* stocks_import writes each row by itself, at its own time.              *)

ImportRow(c) ==
  /\ run[c].at = "import"
  /\ \E t \in run[c].todo :
       /\ quotes' = [quotes EXCEPT ![t] = @ \cup {hour}]
       /\ Move(c, Importing(run[c].todo \ {t}, run[c].stored \cup {<<t, hour>>}))
  /\ UNCHANGED <<hour, scores, manual, hangs>>

(* A row without a price, or one that cannot be written.                   *)
ImportSkips(c) ==
  /\ run[c].at = "import"
  /\ \E t \in run[c].todo : Move(c, Importing(run[c].todo \ {t}, run[c].stored))
  /\ UNCHANGED <<hour, quotes, scores, manual, hangs>>

ImportScored(c) ==
  /\ run[c].at = "import"
  /\ run[c].todo = {}
  /\ run[c].stored # {}
  /\ Move(c, Scoring({row[1] : row \in run[c].stored}, run[c].stored))
  /\ UNCHANGED <<hour, quotes, scores, manual, hangs>>

(* No score is asked for, nothing was stored, or a value that is no number *)
(* ends the request where it stands.                                       *)
ImportEnds(c) ==
  /\ run[c].at = "import"
  /\ Move(c, Resting)
  /\ UNCHANGED <<hour, quotes, scores, manual, hangs>>

-----------------------------------------------------------------------------
(* _refresh_sprint_cache: the newest quotes are read, one stock after the  *)
(* other, and the scores made of them are written in one transaction.      *)
(* alone tells whether no other run wrote scores between the two.          *)

ReadQuotes(c) ==
  /\ run[c].at = "score"
  /\ LET read == run[c].list \cap Known
     IN  Move(c, IF read = {} THEN Resting
                 ELSE [at |-> "save", made |-> [t \in read |-> LatestQuote(t)],
                       stored |-> run[c].stored, alone |-> TRUE])
  /\ UNCHANGED <<hour, quotes, scores, manual, hangs>>

SaveScores(c) ==
  /\ run[c].at = "save"
  /\ scores' = [t \in Stocks |-> IF t \in DOMAIN run[c].made THEN run[c].made[t] ELSE scores[t]]
  /\ run' = [d \in Collectors |->
              IF d = c THEN Resting
              ELSE IF run[d].at = "save" THEN [run[d] EXCEPT !.alone = FALSE]
              ELSE run[d]]
  /\ UNCHANGED <<hour, quotes, manual, hangs>>

(* A refresh that fails is logged, and the run ends well.                  *)
SaveFails(c) ==
  /\ run[c].at = "save"
  /\ Move(c, Resting)
  /\ UNCHANGED <<hour, quotes, scores, manual, hangs>>

HourPasses ==
  /\ hour < LastHour
  /\ hour' = hour + 1
  /\ UNCHANGED <<quotes, scores, run, manual, hangs>>

Restart ==
  /\ hangs < MaxHangs
  /\ hangs' = hangs + 1
  /\ run' = [c \in Collectors |-> Resting]
  /\ UNCHANGED <<hour, quotes, scores, manual>>

CollectorStep(c) ==
  \/ FetchQuote(c) \/ FetchFails(c) \/ StoreQuote(c) \/ StoreFails(c)
  \/ PipelineDone(c)
  \/ ImportRow(c) \/ ImportSkips(c) \/ ImportScored(c) \/ ImportEnds(c)
  \/ ReadQuotes(c) \/ SaveScores(c) \/ SaveFails(c)

CollectorNext ==
  \/ \E c \in Collectors :
       \/ ScheduledUpdate(c) \/ ScoreAll(c) \/ CollectorStep(c)
       \/ \E list \in Watchlists : WatchlistUpdate(c, list) \/ Collect(c, list)
       \/ \E given \in SUBSET Stocks \ {{}} : Import(c, given)
       \/ \E t \in Stocks : AppendTicker(c, t)
  \/ HourPasses \/ Restart

(* A thread runs on.  The daily run is started again and again, and now    *)
(* and then the page of a stock that is still listed answers and its row   *)
(* is written.                                                             *)
Refreshing(t) ==
  \E c \in Collectors :
    run[c].at = "fetch" /\ run[c].todo # <<>> /\ Head(run[c].todo) = t /\ FetchQuote(c)

StoringOf(t) == \E c \in Collectors : run[c].at = "store" /\ Head(run[c].todo) = t /\ StoreQuote(c)

CollectorFairness ==
  /\ \A c \in Collectors : WF_collectorVars(CollectorStep(c))
  /\ SF_collectorVars(\E c \in Collectors : ScheduledUpdate(c))
  /\ \A t \in Stocks \ Delisted : SF_collectorVars(Refreshing(t)) /\ SF_collectorVars(StoringOf(t))

CollectorSpec == CollectorInit /\ [][CollectorNext]_collectorVars /\ CollectorFairness

-----------------------------------------------------------------------------
(* Properties.                                                             *)

(* When a run writes its scores, each stock whose row it stored has a      *)
(* score of that row or of a newer one, and unless another run has written *)
(* scores since it read the rows, no score is made of an older row than    *)
(* the one it replaces: _refresh_sprint_cache reads back the newest row,   *)
(* whoever stored it.                                                      *)
RefreshReachesScores ==
  [][ \A c \in Collectors :
        SaveScores(c) =>
          /\ \A row \in run[c].stored : scores'[row[1]] >= row[2]
          /\ run[c].alone => \A t \in Stocks : scores'[t] >= scores[t] ]_collectorVars

(* A stock that is still listed does not stay stale, as long as fewer than *)
(* max_errors stocks are not: update_stale tries the stocks in a fixed     *)
(* order, and a run of collect_tickers passes those that fail.             *)
StocksRefreshed == \A t \in Stocks \ Delisted : StaleQuote(t) ~> ~StaleQuote(t)

=============================================================================
