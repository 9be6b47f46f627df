---------------------------- MODULE VirtualTrade ----------------------------
(***************************************************************************)
(* The virtual trading book behind /api/vtrade/*: the SQLite trade log of  *)
(* papertrade/virtual.py, the autopilot of papertrade/autopilot.py and the *)
(* request handlers of webapi/virtual_trade.py.                            *)
(*                                                                         *)
(* The handlers are threads of one process.  Every handler that writes     *)
(* holds one process-local lock while it does; but a handler reads the     *)
(* price file before it asks for the lock, readers never take it, an       *)
(* autopilot cycle is many small transactions, and the process can be      *)
(* stopped between any two of them.  Each action below is one transaction  *)
(* or one step between two.                                                *)
(***************************************************************************)
EXTENDS Account, SequencesExt, TLC

CONSTANTS
  Handlers,        \* request handler threads
  NoHandler,       \* the value of the lock when nobody holds it
  TickerOrder,     \* the tickers in the order of their codes
  LastDate,        \* bar dates are 1 .. LastDate
  BarFiles,        \* the successive contents of daily_bars.csv:
                   \* BarFiles[f][t] maps the dates t has a bar on to its
                   \* closes, in mills
  Sector,          \* Sector[t]: the 33-industry sector of t
  Presets, DefaultPreset,
  TargetPositions, \* TargetPositions[p], and likewise the next four
  MaxPerSector,
  StopLoss,        \* in percent, negative
  TakeProfit,      \* in percent
  Ranking,         \* Ranking[f][p][d]: the tickers of file f that pass the
                   \* history, sector and turnover filters of preset p on d,
                   \* best score first
  CatchUpCap,      \* cycles one catch-up runs at most
  DefaultCash,     \* opening cash of a new store, in yen
  Funds,           \* what a reset may set it to
  OrderSizes,      \* share counts users ask for
  Lots,            \* share counts of the ledger the store implements
  MaxUserTrades, MaxResets, MaxCrashes   \* bounds of the model

Accounts == {"user", "ai"}
Dates    == 1 .. LastDate
NoDate   == 0                            \* an absent date, or a live order
Files    == 1 .. Len(BarFiles)
WholeLots == {n \in Nat \ {0} : n % Lot = 0}

ASSUME HandlersAssumption == NoHandler \notin Handlers
ASSUME DatesAssumption    == LastDate \in Nat
ASSUME CapAssumption      == CatchUpCap \in Nat \ {0}
ASSUME FilesAssumption    ==
  /\ Len(BarFiles) \in Nat \ {0}
  /\ \A f \in Files, t \in Tickers :
       /\ DOMAIN BarFiles[f][t] \subseteq Dates
       /\ Range(BarFiles[f][t]) \subseteq Nat \ {0}
ASSUME TickersAssumption  ==
  /\ IsFiniteSet(Tickers)
  /\ TickerOrder \in Seq(Tickers)
  /\ IsInjective(TickerOrder)
ASSUME PresetsAssumption  ==
  /\ DefaultPreset \in Presets
  /\ TargetPositions \in [Presets -> Nat \ {0}]
  /\ MaxPerSector \in [Presets -> Nat]
  /\ Ranking \in [Files -> [Presets -> [Dates -> Seq(Tickers)]]]
ASSUME LotsAssumption     == Lots \subseteq WholeLots
ASSUME FundsAssumption    == Funds \subseteq Nat \ {0} /\ DefaultCash \in Funds

VARIABLES
  file,      \* which of BarFiles is on disk
  trades,    \* vt_trades, in id order
  initial,   \* vt_meta initial_cash:<account>
  preset,    \* vt_meta autopilot:preset
  lastRun,   \* vt_meta autopilot:last_run_date, NoDate when absent
  lock,      \* the holder of _MUTATION_LOCK
  pc,        \* pc[h]: where handler h is
  work,      \* work[h]: the local variables of handler h
  resets, crashes,   \* how many of each so far
  cycles,    \* cycles[d]: autopilot cycles begun at date d since the last reset
  torn       \* whether a cycle has ended, since then, without recording its date

storeVars == <<trades, initial, preset, lastRun>>
ghostVars == <<resets, crashes, cycles, torn>>
vars == <<file, trades, initial, preset, lastRun, lock, pc, work,
          resets, crashes, cycles, torn>>

-----------------------------------------------------------------------------
(* Replay: a book is rebuilt from the rows of its account in id order.  A  *)
(* row that cannot be executed again raises RuntimeError: ok is then FALSE *)
(* and nothing after it is executed.  The rows of a query are a function   *)
(* from their ids; Replayed[n] is the account after those with ids up to n.*)

ReplayRow(acc, row) ==
  IF acc.ok /\ Refusal(acc.book, row) = "none"
    THEN [acc EXCEPT !.book = Execute(@, row)]
    ELSE [acc EXCEPT !.ok = FALSE]

Replayed(rows, cash) ==
  LET account[n \in Nat] ==
        IF n = 0 THEN [ok |-> TRUE, book |-> EmptyBook(cash)]
        ELSE IF n \in DOMAIN rows THEN ReplayRow(account[n - 1], rows[n])
        ELSE account[n - 1]
  IN  account

Replay(rows, cash) ==
  Replayed(rows, cash)[IF DOMAIN rows = {} THEN 0 ELSE Max(DOMAIN rows)]

RowsOf(a)      == RestrictValues(trades, LAMBDA row : row.account = a)
RowsAsOf(a, d) == RestrictValues(trades, LAMBDA row : row.account = a /\ row.date <= d)

LoadAccount(a)    == Replay(RowsOf(a), initial[a])
AccountAsOf(a, d) == Replay(RowsAsOf(a, d), initial[a])

Held(book) == {t \in Tickers : book.shares[t] > 0}

BarDates(f, t) == DOMAIN BarFiles[f][t]

-----------------------------------------------------------------------------
(* Orders.  A live order (no date) fills at the latest bar its ticker has, *)
(* an autopilot order at the bar of its cycle date; the close is rounded   *)
(* to a tick against the order.  An order for an odd lot, or without a     *)
(* bar, is turned down before the account is loaded.                       *)

Order(a, t, side, n, d) ==
  [account |-> a, ticker |-> t, side |-> side, shares |-> n, date |-> d]

Orderable(f, order) ==
  LET dates == BarDates(f, order.ticker)
  IN  /\ order.shares \in WholeLots
      /\ IF order.date = NoDate THEN dates # {} ELSE order.date \in dates

PricedOrder(f, order) ==
  LET dates == BarDates(f, order.ticker)
      date  == IF order.date = NoDate THEN Max(dates) ELSE order.date
      close == BarFiles[f][order.ticker][date]
  IN  [account |-> order.account, ticker |-> order.ticker, side |-> order.side,
       shares  |-> order.shares, date |-> date,
       price   |-> RoundToTick(close, order.side) \div Yen]

Accepted(f, order) ==
  /\ Orderable(f, order)
  /\ LET account == LoadAccount(order.account)
     IN  account.ok /\ Refusal(account.book, PricedOrder(f, order)) = "none"

(* The row appended for an accepted order; cash_after is what the handler  *)
(* computed from the log it loaded.                                        *)
FillRow(f, order) ==
  LET priced == PricedOrder(f, order)
      after  == Execute(LoadAccount(order.account).book, priced)
  IN  [account |-> priced.account, ticker |-> priced.ticker, side |-> priced.side,
       shares  |-> priced.shares, date |-> priced.date, price |-> priced.price,
       cashAfter |-> after.cash]

-----------------------------------------------------------------------------
(* The autopilot's decisions.                                              *)

AllDates(f) == UNION {BarDates(f, t) : t \in Tickers}

(* The dates one catch-up runs: the latest only on the first activation,   *)
(* otherwise the dates after the last one run, oldest first, up to the cap.*)
FirstOf(dates, cap) == {d \in dates : Cardinality({e \in dates : e <= d}) <= cap}

(* Mutants: the dates already run are not left out; the last one is not.   *)
PendingDatesAll(f, last) ==
  IF last = NoDate /\ AllDates(f) # {} THEN {Max(AllDates(f))}
                                       ELSE FirstOf(AllDates(f), CatchUpCap)
PendingDatesFromLast(f, last) ==
  IF last = NoDate /\ AllDates(f) # {}
    THEN {Max(AllDates(f))}
    ELSE FirstOf({d \in AllDates(f) : d >= last}, CatchUpCap)

PendingDates(f, last) ==
  IF last = NoDate /\ AllDates(f) # {}
    THEN {Max(AllDates(f))}
    ELSE FirstOf({d \in AllDates(f) : d > last}, CatchUpCap)

(* Candidates must have a bar on the cycle date itself; the function is    *)
(* from their ranks.                                                       *)
Candidates(f, p, d) == RestrictValues(Ranking[f][p][d], LAMBDA t : d \in BarDates(f, t))

(* A held ticker is sold when it is no longer a candidate, or when its     *)
(* close has moved past the stop-loss or the take-profit of the preset.    *)
ShouldSell(f, p, d, book, t) ==
  LET cost  == book.basis[t] * Yen
      gain  == book.shares[t] * BarFiles[f][t][d] - cost
  IN  \/ t \notin Range(Candidates(f, p, d))
      \/ cost > 0 /\ (100 * gain <= StopLoss[p] * cost \/ 100 * gain >= TakeProfit[p] * cost)

(* Sales are tried in the order of the codes: SellList has their places.   *)
SellList(f, p, d, book) ==
  {i \in DOMAIN TickerOrder :
     /\ TickerOrder[i] \in Held(book)
     /\ ShouldSell(f, p, d, book, TickerOrder[i])}

(* The equity of the book at date d, in mills: positions are marked at     *)
(* their latest close on or before d, or at cost when they have none.      *)
Equity(f, book, d) ==
  LET Mark(t) == LET known == {e \in BarDates(f, t) : e <= d}
                 IN  IF known = {} THEN book.basis[t] * Yen
                                   ELSE book.shares[t] * BarFiles[f][t][Max(known)]
  IN  book.cash * Yen + MapThenSumSet(Mark, Held(book))

(* An equal slice of the equity, in whole lots at the close.               *)
SlotShares(equity, p, close) ==
  IF equity <= 0 THEN 0 ELSE RoundLot(equity \div (TargetPositions[p] * close))

SectorCount(held, s) == Cardinality({t \in held : Sector[t] = s})

(* Mutant: what this cycle sold is forgotten.                              *)
WantedAgain(p, held, sold, t) ==
  /\ t \notin held
  /\ SectorCount(held, Sector[t]) < MaxPerSector[p]

(* Whether the next candidate is bought, given what this cycle knows to be *)
(* held and what it sold.                                                  *)
Wanted(p, held, sold, t) ==
  /\ t \notin held \cup sold
  /\ SectorCount(held, Sector[t]) < MaxPerSector[p]

-----------------------------------------------------------------------------
(* Handlers.  An idle handler keeps no local state.                        *)

Idle == [kind |-> "none"]

Init ==
  /\ file = 1
  /\ trades = <<>>
  /\ initial = [a \in Accounts |-> DefaultCash]
  /\ preset = DefaultPreset
  /\ lastRun = NoDate
  /\ lock = NoHandler
  /\ pc = [h \in Handlers |-> "idle"]
  /\ work = [h \in Handlers |-> Idle]
  /\ resets = 0
  /\ crashes = 0
  /\ cycles = [d \in Dates |-> 0]
  /\ torn = FALSE

Become(h, at, local) ==
  /\ pc'   = [pc EXCEPT ![h] = at]
  /\ work' = [work EXCEPT ![h] = local]

(* Mutant: the handlers do not take the lock.                              *)
LockIgnored == TRUE

LockFree == lock = NoHandler

-----------------------------------------------------------------------------
(* POST /api/vtrade/order.  The broker is built, with the bars of that     *)
(* moment, before the lock is asked for; the account is loaded and the row *)
(* appended under it.                                                      *)

UserTrades == Cardinality(DOMAIN RowsOf("user")) + Cardinality({h \in Handlers : pc[h] \in {"order", "append"}})

RequestOrder(h, t, side, n) ==
  /\ pc[h] = "idle"
  /\ UserTrades < MaxUserTrades
  /\ Become(h, "order", [kind |-> "order", file |-> file, order |-> Order("user", t, side, n, NoDate)])
  /\ UNCHANGED <<file, storeVars, lock, ghostVars>>

LoadOrder(h) ==
  /\ pc[h] = "order"
  /\ LockFree
  /\ \/ /\ Accepted(work[h].file, work[h].order)
        /\ lock' = h
        /\ Become(h, "append", [kind |-> "fill", row |-> FillRow(work[h].file, work[h].order)])
     \/ /\ ~Accepted(work[h].file, work[h].order)
        /\ Become(h, "idle", Idle)
        /\ UNCHANGED lock
  /\ UNCHANGED <<file, storeVars, ghostVars>>

AppendOrder(h) ==
  /\ pc[h] = "append"
  /\ trades' = Append(trades, work[h].row)
  /\ lock' = NoHandler
  /\ Become(h, "idle", Idle)
  /\ UNCHANGED <<file, initial, preset, lastRun, ghostVars>>

-----------------------------------------------------------------------------
(* GET /api/vtrade/ai/*, which read the bars before they ask for the lock, *)
(* and POST /api/vtrade/autopilot/run, which reads them under it.          *)

RequestTick(h) ==
  /\ pc[h] = "idle"
  /\ \E f \in {file, 0} : Become(h, "tick", [kind |-> "tick", file |-> f])
  /\ UNCHANGED <<file, storeVars, lock, ghostVars>>

(* The local state at the start of the cycle of the first of `dates`.      *)
Cycle(f, dates, p) ==
  [kind |-> "cycle", file |-> f, dates |-> dates, preset |-> p,
   sells |-> {}, shares |-> <<>>, sold |-> {}, rank |-> {}, held |-> {}, equity |-> 0]

BeginCatchUp(h) ==
  /\ pc[h] = "tick"
  /\ LockFree
  /\ LET f     == IF work[h].file = 0 THEN file ELSE work[h].file
         dates == PendingDates(f, lastRun)
     IN  IF dates = {}
           THEN Become(h, "idle", Idle) /\ UNCHANGED lock
           ELSE /\ lock' = h
                /\ Become(h, "cycle", Cycle(f, dates, preset))
  /\ UNCHANGED <<file, storeVars, ghostVars>>

CycleDate(h) == Min(work[h].dates)
AiAccount(h) == AccountAsOf("ai", CycleDate(h))

(* A replay that fails raises: the request ends and the lock is released.  *)
Abort(h) == Become(h, "idle", Idle) /\ lock' = NoHandler /\ torn' = TRUE

(* The book as of the date decides the sales.                              *)
BeginCycle(h) ==
  /\ pc[h] = "cycle"
  /\ IF AiAccount(h).ok
       THEN LET w == work[h] IN
            /\ Become(h, "sell", [w EXCEPT
                 !.sells  = SellList(w.file, w.preset, CycleDate(h), AiAccount(h).book),
                 !.shares = AiAccount(h).book.shares])
            /\ cycles' = [cycles EXCEPT ![CycleDate(h)] = @ + 1]
            /\ UNCHANGED <<lock, torn>>
       ELSE Abort(h) /\ UNCHANGED cycles
  /\ UNCHANGED <<file, storeVars, resets, crashes>>

(* Mutant: a sale the broker turns down is tried again.                    *)
SellAgain(h) ==
  /\ pc[h] = "sell"
  /\ work[h].sells # {}
  /\ LET w     == work[h]
         next  == Min(w.sells)
         t     == TickerOrder[next]
         order == Order("ai", t, "sell", w.shares[t], CycleDate(h))
         sells == Accepted(w.file, order)
     IN  /\ Become(h, "sell", IF sells THEN [w EXCEPT !.sells = @ \ {next}, !.sold = @ \cup {t}] ELSE w)
         /\ trades' = IF sells THEN Append(trades, FillRow(w.file, order)) ELSE trades
  /\ UNCHANGED <<file, initial, preset, lastRun, lock, ghostVars>>

(* The next sale: loaded, checked and appended by the broker; a sale it    *)
(* turns down is passed over.                                              *)
SellNext(h) ==
  /\ pc[h] = "sell"
  /\ work[h].sells # {}
  /\ LET w     == work[h]
         next  == Min(w.sells)
         t     == TickerOrder[next]
         order == Order("ai", t, "sell", w.shares[t], CycleDate(h))
         sells == Accepted(w.file, order)
     IN  /\ IF Orderable(w.file, order) => LoadAccount("ai").ok
              THEN /\ Become(h, "sell", [w EXCEPT
                        !.sells = @ \ {next},
                        !.sold  = IF sells THEN @ \cup {t} ELSE @])
                   /\ UNCHANGED <<lock, torn>>
              ELSE Abort(h)
         /\ trades' = IF sells THEN Append(trades, FillRow(w.file, order)) ELSE trades
  /\ UNCHANGED <<file, initial, preset, lastRun, resets, crashes, cycles>>

(* After the sales the book is read once more, the equity is taken from    *)
(* it, and the candidates are walked in rank order.                        *)
BeginBuys(h) ==
  /\ pc[h] = "sell"
  /\ work[h].sells = {}
  /\ IF AiAccount(h).ok
       THEN LET w == work[h] IN
            /\ Become(h, "buy", [w EXCEPT
                 !.rank   = DOMAIN Candidates(w.file, w.preset, CycleDate(h)),
                 !.held   = Held(AiAccount(h).book),
                 !.equity = Equity(w.file, AiAccount(h).book, CycleDate(h))])
            /\ UNCHANGED <<lock, torn>>
       ELSE Abort(h)
  /\ UNCHANGED <<file, storeVars, resets, crashes, cycles>>

(* Mutant: the number of positions is not looked at.                       *)
BuysDoneWhenRankedOut(w) == w.rank = {}

BuysDone(w) ==
  \/ w.rank = {}
  \/ Cardinality(w.held) >= TargetPositions[w.preset]

BuyNext(h) ==
  /\ pc[h] = "buy"
  /\ ~BuysDone(work[h])
  /\ LET w     == work[h]
         next  == Min(w.rank)
         t     == Ranking[w.file][w.preset][CycleDate(h)][next]
         size  == SlotShares(w.equity, w.preset, BarFiles[w.file][t][CycleDate(h)])
         order == Order("ai", t, "buy", size, CycleDate(h))
         wants == Wanted(w.preset, w.held, w.sold, t) /\ size > 0
         buys  == wants /\ Accepted(w.file, order)
     IN  /\ IF wants => LoadAccount("ai").ok
              THEN /\ Become(h, "buy", [w EXCEPT
                        !.rank = @ \ {next},
                        !.held = IF buys THEN @ \cup {t} ELSE @])
                   /\ UNCHANGED <<lock, torn>>
              ELSE Abort(h)
         /\ trades' = IF buys THEN Append(trades, FillRow(w.file, order)) ELSE trades
  /\ UNCHANGED <<file, initial, preset, lastRun, resets, crashes, cycles>>

(* The date is recorded as run in a transaction of its own, after the      *)
(* orders of the cycle.                                                    *)
FinishCycle(h) ==
  /\ pc[h] = "buy"
  /\ BuysDone(work[h])
  /\ lastRun' = CycleDate(h)
  /\ LET left == work[h].dates \ {CycleDate(h)}
     IN  IF left = {}
           THEN Become(h, "idle", Idle) /\ lock' = NoHandler
           ELSE Become(h, "cycle", Cycle(work[h].file, left, work[h].preset)) /\ UNCHANGED lock
  /\ UNCHANGED <<file, trades, initial, preset, ghostVars>>

-----------------------------------------------------------------------------
(* Requests of one transaction under the lock.                             *)

(* Mutant: a reset forgets the trade log.                                  *)
ResetMetaOnly(cash) ==
  /\ LockFree
  /\ resets < MaxResets
  /\ trades'  = trades
  /\ initial' = [a \in Accounts |-> cash]
  /\ preset'  = DefaultPreset
  /\ lastRun' = NoDate
  /\ resets'  = resets + 1
  /\ cycles'  = [d \in Dates |-> 0]
  /\ torn'    = FALSE
  /\ UNCHANGED <<file, lock, pc, work, crashes>>

(* POST /api/vtrade/reset wipes trades and meta of both accounts.          *)
Reset(cash) ==
  /\ LockFree
  /\ resets < MaxResets
  /\ trades'  = <<>>
  /\ initial' = [a \in Accounts |-> cash]
  /\ preset'  = DefaultPreset
  /\ lastRun' = NoDate
  /\ resets'  = resets + 1
  /\ cycles'  = [d \in Dates |-> 0]
  /\ torn'    = FALSE
  /\ UNCHANGED <<file, lock, pc, work, crashes>>

(* POST /api/vtrade/autopilot/config.                                      *)
Configure(p) ==
  /\ LockFree
  /\ preset' = p
  /\ UNCHANGED <<file, trades, initial, lastRun, lock, pc, work, ghostVars>>

-----------------------------------------------------------------------------
(* Readers take no lock: build_portfolio and build_performance read the    *)
(* rows in one transaction and the opening cash in the next.               *)

RequestRead(h, a) ==
  /\ pc[h] = "idle"
  /\ Become(h, "read", [kind |-> "read", account |-> a, rows |-> RowsOf(a), resets |-> resets])
  /\ UNCHANGED <<file, storeVars, lock, ghostVars>>

FinishRead(h) ==
  /\ pc[h] = "read"
  /\ Become(h, "idle", Idle)
  /\ UNCHANGED <<file, storeVars, lock, ghostVars>>

-----------------------------------------------------------------------------
(* A market data job replaces daily_bars.csv.                              *)
RefreshBars ==
  /\ file < Len(BarFiles)
  /\ file' = file + 1
  /\ UNCHANGED <<storeVars, lock, pc, work, ghostVars>>

(* The process stops and is started again: the store survives, the lock    *)
(* and the handlers do not.                                                *)
Crash ==
  /\ crashes < MaxCrashes
  /\ crashes' = crashes + 1
  /\ torn'    = (torn \/ \E h \in Handlers : pc[h] \in {"sell", "buy"})
  /\ lock' = NoHandler
  /\ pc'   = [h \in Handlers |-> "idle"]
  /\ work' = [h \in Handlers |-> Idle]
  /\ UNCHANGED <<file, storeVars, resets, cycles>>

CycleStep(h) ==
  BeginCycle(h) \/ SellNext(h) \/ BeginBuys(h) \/ BuyNext(h) \/ FinishCycle(h)

Request(h) ==
  \/ \E t \in Tickers, side \in Sides, n \in OrderSizes : RequestOrder(h, t, side, n)
  \/ RequestTick(h)
  \/ \E a \in Accounts : RequestRead(h, a)

Next ==
  \/ \E h \in Handlers :
       \/ Request(h)
       \/ LoadOrder(h) \/ AppendOrder(h)
       \/ BeginCatchUp(h) \/ CycleStep(h)
       \/ FinishRead(h)
  \/ \E cash \in Funds : Reset(cash)
  \/ \E p \in Presets : Configure(p)
  \/ RefreshBars
  \/ Crash

Spec == Init /\ [][Next]_vars

(* The thread that holds the lock runs on: nothing in the guarded section  *)
(* blocks.  Nothing is assumed of the threads that wait for the lock, for  *)
(* it is not a fair one.                                                   *)
Fairness == WF_<<pc, work>>(\E h \in Handlers : AppendOrder(h) \/ CycleStep(h))

FairSpec == Spec /\ Fairness

-----------------------------------------------------------------------------
(* Properties.                                                             *)

Requests == {"idle", "order", "append", "tick", "cycle", "sell", "buy", "read"}

(* Every row records the cash its account really had after it: replaying   *)
(* the rows of an account up to any row of it succeeds and ends with that  *)
(* row's cash_after.  submit_order computes a row from the log it loaded   *)
(* and appends it in a later transaction; _replay raises RuntimeError when *)
(* the two have diverged.                                                  *)
RowsRecordCash ==
  \A a \in Accounts : \A i \in DOMAIN RowsOf(a) :
    LET replayed == Replayed(RowsOf(a), initial[a])[i]
    IN  replayed.ok /\ replayed.book.cash = trades[i].cashAfter

(* The autopilot trades forward in time: catch_up never goes back behind a *)
(* date it has traded on, whichever price file each request read, so the   *)
(* "ai" rows are in date order.  (A process stopped in the middle of a     *)
(* cycle may go back: the date was not recorded, and the next price file   *)
(* may fill in an earlier one.)                                            *)
AiDatesOrdered ==
  ~torn =>
    \A i, j \in DOMAIN trades :
      i < j /\ trades[i].account = "ai" /\ trades[j].account = "ai"
        => trades[i].date <= trades[j].date

(* The autopilot's book can be rebuilt as of every date, which             *)
(* account_as_of does at the start of each cycle and build_performance for *)
(* each point of the AI's equity curve, under the same condition.          *)
AiAsOfReplays == ~torn => \A d \in Dates : AccountAsOf("ai", d).ok

(* The same of the user's book, which build_performance rebuilds for each  *)
(* date: what _replay promises of every trade already accepted.            *)
UserAsOfReplays == \A d \in Dates : AccountAsOf("user", d).ok

(* A catch-up never runs the same bar date twice, unless the process was   *)
(* stopped between a cycle's orders and the record of its date: each stop  *)
(* can repeat at most one cycle of a date.                                 *)
RunOncePerDate == \A d \in Dates : cycles[d] <= IF torn THEN 1 + crashes ELSE 1

RoundTrip(i, j) ==
  /\ i < j
  /\ trades[i].account = "ai" /\ trades[j].account = "ai"
  /\ trades[i].ticker = trades[j].ticker /\ trades[i].date = trades[j].date
  /\ trades[i].side = "sell" /\ trades[j].side = "buy"

(* run_cycle: a ticker the autopilot sold on a date is never bought back   *)
(* at the same close.                                                      *)
NoSameDayRoundTrip == \A i, j \in DOMAIN trades : ~RoundTrip(i, j)

(* The same, while the process is not stopped in the middle of a cycle.    *)
NoRoundTripUnlessStopped == ~torn => NoSameDayRoundTrip

(* An autopilot purchase leaves the book within the limits of the preset   *)
(* the catch-up started with, although the cycle counts positions in its   *)
(* own variables, the preset may have been changed since, and a stopped    *)
(* cycle may have left part of its orders behind.  (Unless the autopilot   *)
(* already holds what it bought on a later date, in a cycle that was       *)
(* stopped: the count is of the book as of the cycle's date.)              *)
NothingLater(h) == \A row \in Range(RowsOf("ai")) : row.date <= CycleDate(h)

BuysKeepLimits ==
  [][ \A h \in Handlers :
        BuyNext(h) /\ trades' # trades /\ NothingLater(h) =>
          LET held == Held(LoadAccount("ai").book)'
              p    == work[h].preset
          IN  /\ Cardinality(held) <= TargetPositions[p]
              /\ SectorCount(held, Sector[Last(trades').ticker]) <= MaxPerSector[p] ]_vars

(* The date a catch-up has reached never moves back, except by a reset:    *)
(* two catch-ups that read different price files cannot overtake each      *)
(* other.                                                                  *)
LastRunMonotone == [][resets' = resets => lastRun' >= lastRun]_vars

(* A lock-free read of the rows and then of the opening cash makes an      *)
(* account that replays, whatever the writers do in between, as long as no *)
(* reset comes between the two.                                            *)
ReadsReplayUnlessReset ==
  \A h \in Handlers :
    pc[h] = "read" /\ work[h].resets = resets =>
      Replay(work[h].rows, initial[work[h].account]).ok

(* The store implements one ledger: the book of an account is what its log *)
(* replays to.  A log that no longer replays maps to a book of negative    *)
(* cash, which no step of the ledger reaches.                              *)
Closes     == UNION {Range(BarFiles[f][t]) : f \in Files, t \in Tickers}
FillPrices == {RoundToTick(close, side) \div Yen : close \in Closes, side \in Sides}

Books == [a \in Accounts |-> LET account == LoadAccount(a)
                             IN  IF account.ok THEN account.book ELSE EmptyBook(-1)]

L == INSTANCE Ledger WITH books <- Books, Quantities <- Lots, Prices <- FillPrices

(* Every step of the threads, the price file and the process changes the   *)
(* books as one order on one account does, or as a reset, or not at all:   *)
(* the append of a row is where an order takes effect, and a stop of the   *)
(* process never leaves half of one behind.                                *)
ImplementsLedger == L!Init /\ [][UNCHANGED <<Books, initial>> \/ L!Next]_<<Books, initial>>

(* Once the process is not stopped any more, a catch-up runs every date it *)
(* set out to run: no cycle ends early because an order was refused or     *)
(* there was nothing to trade, and none waits for a thread that waits for  *)
(* the lock.                                                               *)
CatchUpCompletes ==
  \A d \in Dates :
    (/\ crashes = MaxCrashes
     /\ \E h \in Handlers : pc[h] = "cycle" /\ d \in work[h].dates)
      ~> lastRun >= d

=============================================================================
