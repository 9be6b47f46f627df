---------------------------- MODULE MarketFiles ----------------------------
(***************************************************************************)
(* The two market files, daily_bars.csv and yahoo_financials.csv: the runs *)
(* of cli_market.py and webapi/market.py that fetch and rewrite them, each *)
(* in a thread or a process of its own.                                    *)
(*                                                                         *)
(* Of the rows of a ticker only what the code looks at is kept: there are  *)
(* none; they are enough for find_market_gaps (two closes, a price); or    *)
(* they are not.  What days they are of is left open: a fetch returns what *)
(* the server, or the HTTP cache of the fetcher, has.                      *)
(***************************************************************************)
EXTENDS Integers, Sequences

CONSTANTS
  Stocks,
  Runs,
  MaxFetches, MaxHalts    \* bounds of the model: runs begun, stops

ASSUME BoundsAssumption == {MaxFetches, MaxHalts} \subseteq Nat

Tables == {"bars", "prices"}
Rows   == {"none", "scant", "enough"}

VARIABLES
  disk,          \* the two tables, from tickers to their rows
  run,
  fetches, halts,
  owed           \* tickers that must be in a table (history)

marketVars == <<disk, run, fetches, halts, owed>>

NoRows == [t \in Stocks |-> "none"]

RestingRun == [pc |-> "rest", plan |-> <<>>, got |-> NoRows, merged |-> NoRows, missed |-> {}]

MarketInit ==
  /\ disk = [f \in Tables |-> NoRows]
  /\ run = [r \in Runs |-> RestingRun]
  /\ fetches = 0 /\ halts = 0
  /\ owed = [f \in Tables |-> {}]

Present(rows) == {t \in Stocks : rows[t] # "none"}

-----------------------------------------------------------------------------
(* What a run still has to do: the table it writes, the tickers it asks    *)
(* for, and whether it merges.  A run that is asked for some of the        *)
(* tickers only is one that gets nothing for the others.                   *)
Step(table, asked, merge) == [table |-> table, asked |-> asked, merge |-> merge]

BarsStep(asked)   == Step("bars", asked, TRUE)
PricesStep(asked) == Step("prices", asked, TRUE)

DailyRefresh == <<BarsStep(Stocks), PricesStep(Stocks)>>
PageRefresh  == <<PricesStep(Stocks), BarsStep(Stocks)>>
Financials   == <<PricesStep(Stocks)>>

(* market_bars_universe, and market_ohlcv when it saves, replace the file. *)
Universe == <<Step("bars", Stocks, FALSE)>>

(* market_backfill asks find_market_gaps once, before it fetches anything. *)
MissingPrice == {t \in Stocks : disk["prices"][t] # "enough"}
MissingBars  == {t \in Stocks : disk["bars"][t] # "enough"}

Backfill ==
  (IF MissingPrice = {} THEN <<>> ELSE <<PricesStep(MissingPrice)>>) \o
  (IF MissingBars = {} THEN <<>> ELSE <<BarsStep(MissingBars)>>)

Plans == {DailyRefresh, PageRefresh, Financials, Universe, Backfill}

StartRun(r, plan) ==
  /\ run[r].pc = "rest"
  /\ plan # <<>>
  /\ fetches < MaxFetches
  /\ fetches' = fetches + 1
  /\ run' = [run EXCEPT ![r] = [RestingRun EXCEPT !.pc = "fetch", !.plan = plan]]
  /\ UNCHANGED <<disk, halts, owed>>

Now(r) == Head(run[r].plan)

(* What fetch_ohlcv and fetch_yahoo_financials return: any rows, or none,  *)
(* for each ticker asked for; one that fails never aborts the batch.       *)
Results(step) == {got \in [Stocks -> Rows] : Present(got) \subseteq step.asked}

FetchRows(r) ==
  /\ run[r].pc = "fetch"
  /\ \E got \in Results(Now(r)) : run' = [run EXCEPT ![r].pc = "read", ![r].got = got]
  /\ UNCHANGED <<disk, fetches, halts, owed>>

(* Mutant: the rows fetched replace the table.                             *)
MergedAway(old, got) == got

(* Only tickers that returned rows replace their history, with whatever    *)
(* they returned.                                                          *)
MergedWith(old, got) == [t \in Stocks |-> IF got[t] = "none" THEN old[t] ELSE got[t]]

(* What a run that replaces the table does not know of it is all of it.    *)
ReadTable(r) ==
  /\ run[r].pc = "read"
  /\ run' = [run EXCEPT ![r].pc = "open", ![r].got = NoRows,
       ![r].merged = IF Now(r).merge THEN MergedWith(disk[Now(r).table], run[r].got) ELSE run[r].got,
       ![r].missed = IF Now(r).merge THEN {} ELSE Stocks]
  /\ UNCHANGED <<disk, fetches, halts, owed>>

(* What may have reached the file of the rows of a ticker.                 *)
PartOf(rows) == IF rows = "none" THEN {"none"} ELSE {"none", "scant", rows}

(* The file is emptied, and until it is closed it holds a part of what is  *)
(* written.                                                                *)
OpenTable(r) ==
  /\ run[r].pc = "open"
  /\ \E part \in [Stocks -> Rows] :
       /\ \A t \in Stocks : part[t] \in PartOf(run[r].merged[t])
       /\ disk' = [disk EXCEPT ![Now(r).table] = part]
  /\ run' = [run EXCEPT ![r].pc = "fill"]
  /\ UNCHANGED <<fetches, halts, owed>>

Onward(r) ==
  IF Tail(run[r].plan) = <<>> THEN RestingRun
  ELSE [RestingRun EXCEPT !.pc = "fetch", !.plan = Tail(run[r].plan)]

(* The other runs that have read the table miss what is new in it.         *)
Overtaken(q, f, rows) ==
  IF run[q].pc \in {"open", "fill"} /\ Now(q).table = f
    THEN [run[q] EXCEPT !.missed = @ \cup Present(rows)]
    ELSE run[q]

CloseTable(r) ==
  /\ run[r].pc = "fill"
  /\ LET f    == Now(r).table
         rows == run[r].merged
     IN  /\ disk' = [disk EXCEPT ![f] = rows]
         /\ owed' = [owed EXCEPT ![f] = (@ \ run[r].missed) \cup Present(rows)]
         /\ run' = [q \in Runs |-> IF q = r THEN Onward(r) ELSE Overtaken(q, f, rows)]
  /\ UNCHANGED <<fetches, halts>>

(* The runs that are filling a table.                                      *)
Filling(r, f) == run[r].pc = "fill" /\ Now(r).table = f

(* Processes with some of the runs are stopped.                            *)
Halt(stopped) ==
  /\ halts < MaxHalts
  /\ stopped # {} /\ \A r \in stopped : run[r].pc # "rest"
  /\ halts' = halts + 1
  /\ run' = [r \in Runs |-> IF r \in stopped THEN RestingRun ELSE run[r]]
  /\ owed' = [f \in Tables |-> IF \E r \in stopped : Filling(r, f) THEN {} ELSE owed[f]]
  /\ UNCHANGED <<disk, fetches>>

MarketNext ==
  \/ \E r \in Runs, plan \in Plans : StartRun(r, plan)
  \/ \E r \in Runs : FetchRows(r) \/ ReadTable(r) \/ OpenTable(r) \/ CloseTable(r)
  \/ \E stopped \in SUBSET Runs : Halt(stopped)

MarketSpec == MarketInit /\ [][MarketNext]_marketVars

-----------------------------------------------------------------------------
(* A fetch that returns nothing, or one ticker, "never discards tickers    *)
(* scraped earlier", also when runs overlap: a ticker that a whole write   *)
(* has left in a table stays in it.  A run takes away no other tickers     *)
(* than those another run has written between its read and its write (or   *)
(* all that it did not fetch, when it replaces the table); and a table may *)
(* lose any of them when a process is stopped while it fills it.           *)
TickersKept ==
  \A f \in Tables :
    (\A r \in Runs : ~Filling(r, f)) => owed[f] \subseteq Present(disk[f])

=============================================================================
