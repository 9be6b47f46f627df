------------------------- MODULE VirtualTradeProofs -------------------------
(***************************************************************************)
(* Proofs about VirtualTrade, for every number of threads, tickers, dates  *)
(* and price files, and every preset: the lock excludes, the date the      *)
(* autopilot has reached never moves back, and while no cycle has been cut *)
(* short the autopilot trades in date order, runs a date once and never    *)
(* buys back what it sold on the same date.                                *)
(*                                                                         *)
(* None of this depends on what a replay computes, so the proofs never     *)
(* expand it: a replay may fail at any step of a cycle, and the step that  *)
(* meets the failure sets torn.                                            *)
(***************************************************************************)
EXTENDS VirtualTrade, AccountProofs

-----------------------------------------------------------------------------
(* Sequences of rows.                                                      *)

IsRows(s) == s \in Seq({s[i] : i \in DOMAIN s})

(* Appending a row keeps the others where they are.                        *)
LEMMA AppendRow ==
  ASSUME NEW s, IsRows(s), NEW row
  PROVE  /\ IsRows(Append(s, row))
         /\ Len(s) \in Nat /\ DOMAIN s = 1 .. Len(s)
         /\ DOMAIN Append(s, row) = 1 .. Len(s) + 1
         /\ \A i \in DOMAIN s : Append(s, row)[i] = s[i]
         /\ Append(s, row)[Len(s) + 1] = row
<1> DEFINE S == {s[i] : i \in DOMAIN s}
<1>1. s \in Seq(S \cup {row})
  BY DEF IsRows
<1>2. Append(s, row) \in Seq(S \cup {row})
  BY <1>1
<1>3. /\ Len(s) \in Nat /\ DOMAIN s = 1 .. Len(s)
      /\ Len(Append(s, row)) = Len(s) + 1
      /\ \A i \in 1 .. Len(s) : Append(s, row)[i] = s[i]
      /\ Append(s, row)[Len(s) + 1] = row
  BY <1>1
<1>4. DOMAIN Append(s, row) = 1 .. Len(s) + 1
  BY <1>2, <1>3
<1>5. Append(s, row) \in Seq({Append(s, row)[i] : i \in DOMAIN Append(s, row)})
  BY <1>2, <1>4
<1>6. QED BY <1>3, <1>4, <1>5 DEF IsRows

-----------------------------------------------------------------------------
(* The dates a catch-up runs.                                              *)

(* They are dates after the last one run.                                  *)
LEMMA PendingDatesFact ==
  ASSUME NEW f \in Files, NEW last \in 0 .. LastDate
  PROVE  \A d \in PendingDates(f, last) : d \in Dates /\ d > last
<1>1. AllDates(f) \subseteq 1 .. LastDate
  BY FilesAssumption DEF AllDates, BarDates, Dates
<1>2. AllDates(f) # {} => Max(AllDates(f)) \in 1 .. LastDate
  BY <1>1, DatesAssumption, MaxFact
<1>3. QED BY <1>1, <1>2, DatesAssumption DEF PendingDates, FirstOf, Dates, NoDate

-----------------------------------------------------------------------------
(* The inductive invariant.                                                *)

Cycling == {"cycle", "sell", "buy"}      \* a catch-up is under way
Trading == {"sell", "buy"}               \* and is placing the orders of a date
Guarded == Cycling \cup {"append"}       \* what the lock guards

(* The shape of the local state of a catch-up.                             *)
IsCycle(w) ==
  w = [kind |-> w.kind, file |-> w.file, dates |-> w.dates, preset |-> w.preset,
       sells |-> w.sells, shares |-> w.shares, sold |-> w.sold, rank |-> w.rank,
       held |-> w.held, equity |-> w.equity]

Types ==
  /\ file \in Files
  /\ IsRows(trades)
  /\ lastRun \in 0 .. LastDate
  /\ lock \in Handlers \cup {NoHandler}
  /\ pc \in [Handlers -> Requests]
  /\ work = [h \in Handlers |-> work[h]]
  /\ resets \in Nat
  /\ cycles \in [Dates -> Nat]
  /\ torn \in BOOLEAN

(* The lock excludes.                                                      *)
Exclusive == \A h \in Handlers : pc[h] \in Guarded => lock = h

(* What a thread knows, wherever it is.                                    *)
Knows(h) ==
  /\ pc[h] = "order"  => work[h].order.account = "user"
  /\ pc[h] = "append" => work[h].row.account = "user"
  /\ pc[h] = "tick"   => work[h].file \in Files \cup {0}
  /\ pc[h] \in Cycling =>
       /\ IsCycle(work[h])
       /\ work[h].dates # {}
       /\ \A d \in work[h].dates : d \in Dates /\ d > lastRun

(* Where the rows of the autopilot stand, while no cycle was cut short: on *)
(* dates already run, or on the date being traded; and what was sold on    *)
(* the latter is known to the cycle.                                       *)
RowsPlaced ==
  \A i \in DOMAIN trades :
    trades[i].account = "ai" =>
      /\ trades[i].date \in Dates
      /\ \/ trades[i].date <= lastRun
         \/ \E h \in Handlers : pc[h] \in Trading /\ trades[i].date = CycleDate(h)

SalesKnown ==
  \A i \in DOMAIN trades, h \in Handlers :
    /\ trades[i].account = "ai" /\ trades[i].side = "sell"
    /\ pc[h] \in Trading /\ trades[i].date = CycleDate(h)
    => trades[i].ticker \in work[h].sold

Ordered ==
  \A i, j \in DOMAIN trades :
    i < j /\ trades[i].account = "ai" /\ trades[j].account = "ai"
      => trades[i].date <= trades[j].date

(* Cycles were begun once, at dates already run or at the one being traded.*)
CyclesPlaced ==
  \A d \in Dates :
    /\ cycles[d] <= 1
    /\ cycles[d] = 1 => \/ d <= lastRun
                        \/ \E h \in Handlers : pc[h] \in Trading /\ d = CycleDate(h)

Whole == RowsPlaced /\ SalesKnown /\ Ordered /\ NoSameDayRoundTrip /\ CyclesPlaced

IInv ==
  /\ Types
  /\ Exclusive
  /\ \A h \in Handlers : Knows(h)
  /\ ~torn => Whole

(* It holds at the start.                                                  *)
LEMMA InitIInv == Init => IInv
<1> SUFFICES ASSUME Init PROVE IInv
  OBVIOUS
<1>1. Types
  <2>1. IsRows(trades)
    <3>1. trades = <<>>
      BY DEF Init
    <3>2. <<>> \in Seq({})
      OBVIOUS
    <3>3. {<<>>[i] : i \in DOMAIN <<>>} = {}
      OBVIOUS
    <3>4. QED BY <3>1, <3>2, <3>3 DEF IsRows
  <2>2. file \in Files
    BY FilesAssumption DEF Init, Files
  <2>3. lastRun \in 0 .. LastDate
    BY DatesAssumption DEF Init, NoDate
  <2>4. work = [h \in Handlers |-> work[h]]
    BY DEF Init
  <2>5. pc \in [Handlers -> Requests] /\ cycles \in [Dates -> Nat]
    BY DEF Init, Requests
  <2>6. QED BY <2>1, <2>2, <2>3, <2>4, <2>5 DEF Init, Types
<1>2. Exclusive /\ \A h \in Handlers : Knows(h)
  BY DEF Init, Exclusive, Knows, Guarded, Cycling
<1>3. Whole
  BY DEF Init, Whole, RowsPlaced, SalesKnown, Ordered, NoSameDayRoundTrip, RoundTrip, CyclesPlaced
<1>4. QED BY <1>1, <1>2, <1>3 DEF IInv

-----------------------------------------------------------------------------
(* The steps.                                                              *)

(* The date of a cycle is one of its dates, the first of them.             *)
LEMMA CycleDateFact ==
  ASSUME IInv, NEW h \in Handlers, pc[h] \in Cycling
  PROVE  /\ CycleDate(h) \in work[h].dates
         /\ CycleDate(h) \in Dates /\ CycleDate(h) > lastRun
         /\ \A d \in work[h].dates : CycleDate(h) <= d
<1>1. work[h].dates # {} /\ \A d \in work[h].dates : d \in Dates /\ d > lastRun
  BY DEF IInv, Knows
<1>2. work[h].dates \in SUBSET Nat
  BY <1>1, DatesAssumption DEF Dates
<1>3. QED BY <1>1, <1>2, MinFact DEF CycleDate

(* A row for an order that names its date has that account and that date.  *)
LEMMA FillRowFact ==
  ASSUME NEW f, NEW order
  PROVE  /\ FillRow(f, order).account = order.account
         /\ FillRow(f, order).ticker = order.ticker
         /\ FillRow(f, order).side = order.side
         /\ order.date # NoDate => FillRow(f, order).date = order.date
  BY DEF FillRow, PricedOrder

(* What the autopilot has done stays placed when rows, dates and counts    *)
(* stay, the same threads are trading the same dates, and they forget no   *)
(* sale.                                                                   *)
LEMMA WholeKept ==
  ASSUME Whole, UNCHANGED <<trades, lastRun, cycles>>,
         \A h \in Handlers :
           /\ pc'[h] \in Trading <=> pc[h] \in Trading
           /\ pc[h] \in Trading => /\ work'[h].dates = work[h].dates
                                   /\ work[h].sold \subseteq work'[h].sold
  PROVE  Whole'
<1>1. \A h \in Handlers : pc[h] \in Trading => CycleDate(h)' = CycleDate(h)
  BY DEF CycleDate
<1>2. RowsPlaced'
  BY <1>1 DEF Whole, RowsPlaced
<1>3. SalesKnown'
  BY <1>1 DEF Whole, SalesKnown
<1>4. Ordered' /\ NoSameDayRoundTrip'
  BY DEF Whole, Ordered, NoSameDayRoundTrip, RoundTrip
<1>5. CyclesPlaced'
  BY <1>1 DEF Whole, CyclesPlaced
<1>6. QED BY <1>2, <1>3, <1>4, <1>5 DEF Whole

(* An idle or waiting thread that moves to another such place.             *)
LEMMA OutsideStep ==
  ASSUME IInv, NEW h \in Handlers,
         UNCHANGED <<file, trades, lastRun, lock, resets, cycles, torn>>,
         pc[h] \notin Cycling,
         \E at \in Requests \ Guarded : pc' = [pc EXCEPT ![h] = at],
         work' = [work EXCEPT ![h] = work'[h]],
         Knows(h)'
  PROVE  IInv'
<1>1. /\ pc' \in [Handlers -> Requests] /\ pc'[h] \notin Guarded
      /\ \A g \in Handlers \ {h} : pc'[g] = pc[g] /\ work'[g] = work[g]
      /\ work' = [g \in Handlers |-> work'[g]]
  BY DEF IInv, Types
<1>2. Types'
  BY <1>1 DEF IInv, Types
<1>3. Exclusive'
  BY <1>1 DEF IInv, Exclusive
<1>4. \A g \in Handlers : Knows(g)'
  BY <1>1 DEF IInv, Knows
<1>5. ~torn' => Whole'
  BY <1>1, WholeKept DEF IInv, Trading, Cycling, Guarded
<1>6. QED BY <1>2, <1>3, <1>4, <1>5 DEF IInv

(* An order request notes its order: it is one of the user.                *)
LEMMA RequestOrderStep ==
  ASSUME IInv, NEW h \in Handlers, NEW t, NEW side, NEW n, RequestOrder(h, t, side, n)
  PROVE  IInv'
<1>1. Knows(h)'
  BY DEF RequestOrder, Become, Order, Knows, Cycling, IInv, Types
<1>2. pc[h] \notin Cycling /\ "order" \in Requests \ Guarded
  BY DEF RequestOrder, Requests, Cycling, Guarded
<1>3. QED BY <1>1, <1>2, OutsideStep DEF RequestOrder, Become, storeVars, ghostVars, IInv, Types

(* A tick notes the price file it has read, or none.                       *)
LEMMA RequestTickStep ==
  ASSUME IInv, NEW h \in Handlers, RequestTick(h)
  PROVE  IInv'
<1>1. Knows(h)'
  BY DEF RequestTick, Become, Knows, Cycling, IInv, Types
<1>2. pc[h] \notin Cycling /\ "tick" \in Requests \ Guarded
  BY DEF RequestTick, Requests, Cycling, Guarded
<1>3. QED BY <1>1, <1>2, OutsideStep DEF RequestTick, Become, storeVars, ghostVars, IInv, Types

(* A reader notes the rows it has read; it holds nothing.                  *)
LEMMA RequestReadStep ==
  ASSUME IInv, NEW h \in Handlers, NEW a, RequestRead(h, a)
  PROVE  IInv'
<1>1. Knows(h)'
  BY DEF RequestRead, Become, Knows, Cycling, IInv, Types
<1>2. pc[h] \notin Cycling /\ "read" \in Requests \ Guarded
  BY DEF RequestRead, Requests, Cycling, Guarded
<1>3. QED BY <1>1, <1>2, OutsideStep DEF RequestRead, Become, storeVars, ghostVars, IInv, Types

(* A reader ends.                                                          *)
LEMMA FinishReadStep ==
  ASSUME IInv, NEW h \in Handlers, FinishRead(h)
  PROVE  IInv'
<1>1. Knows(h)'
  BY DEF FinishRead, Become, Knows, Cycling, IInv, Types
<1>2. pc[h] \notin Cycling /\ "idle" \in Requests \ Guarded
  BY DEF FinishRead, Requests, Cycling, Guarded
<1>3. QED BY <1>1, <1>2, OutsideStep DEF FinishRead, Become, storeVars, ghostVars, IInv, Types

(* A thread that takes the free lock.                                      *)
LEMMA AcquireStep ==
  ASSUME IInv, NEW h \in Handlers, LockFree, lock' = h,
         UNCHANGED <<file, trades, lastRun, resets, cycles, torn>>,
         \E at \in {"append", "cycle"} : pc' = [pc EXCEPT ![h] = at],
         work' = [work EXCEPT ![h] = work'[h]],
         Knows(h)'
  PROVE  IInv'
<1>1. \A g \in Handlers : pc[g] \notin Guarded
  BY HandlersAssumption DEF IInv, Exclusive, LockFree
<1>2. /\ pc' \in [Handlers -> Requests] /\ pc'[h] \in {"append", "cycle"}
      /\ \A g \in Handlers \ {h} : pc'[g] = pc[g] /\ work'[g] = work[g]
      /\ work' = [g \in Handlers |-> work'[g]]
  BY DEF IInv, Types, Requests
<1>3. Types'
  BY <1>2 DEF IInv, Types
<1>4. Exclusive'
  BY <1>1, <1>2 DEF Exclusive
<1>5. \A g \in Handlers : Knows(g)'
  BY <1>2 DEF IInv, Knows
<1>6. ~torn' => Whole'
  BY <1>1, <1>2, WholeKept DEF IInv, Trading, Cycling, Guarded
<1>7. QED BY <1>3, <1>4, <1>5, <1>6 DEF IInv

(* An accepted order takes the lock, a refused one ends; the row to        *)
(* append is one of the user.                                              *)
LEMMA LoadOrderStep ==
  ASSUME IInv, NEW h \in Handlers, LoadOrder(h)
  PROVE  IInv'
<1>1. pc[h] = "order" /\ work[h].order.account = "user"
  BY DEF LoadOrder, IInv, Knows
<1>2. CASE lock' = h /\ Become(h, "append", [kind |-> "fill", row |-> FillRow(work[h].file, work[h].order)])
  <2>1. pc'[h] = "append" /\ work'[h].row = FillRow(work[h].file, work[h].order)
    BY <1>2 DEF Become, IInv, Types
  <2>2. Knows(h)'
    BY <1>1, <2>1, FillRowFact DEF Knows, Cycling
  <2>3. QED BY <1>2, <2>1, <2>2, AcquireStep DEF LoadOrder, Become, storeVars, ghostVars, IInv, Types
<1>3. CASE Become(h, "idle", Idle) /\ UNCHANGED lock
  <2>1. Knows(h)'
    BY <1>3 DEF Become, Knows, Cycling, IInv, Types
  <2>2. pc[h] \notin Cycling /\ "idle" \in Requests \ Guarded
    BY <1>1 DEF Requests, Cycling, Guarded
  <2>3. QED BY <1>3, <2>1, <2>2, OutsideStep DEF LoadOrder, Become, storeVars, ghostVars, IInv, Types
<1>4. QED BY <1>2, <1>3 DEF LoadOrder

(* The row of an order is the user's: the rows of the autopilot stay as    *)
(* they are, and the lock is given back.                                   *)
LEMMA AppendOrderStep ==
  ASSUME IInv, NEW h \in Handlers, AppendOrder(h)
  PROVE  IInv'
<1>1. /\ pc[h] = "append" /\ lock = h /\ work[h].row.account = "user"
      /\ trades' = Append(trades, work[h].row) /\ IsRows(trades)
      /\ UNCHANGED <<file, lastRun, resets, cycles, torn>>
      /\ lock' = NoHandler
  BY DEF AppendOrder, IInv, Knows, Exclusive, Types, ghostVars, Guarded
<1>2. \A g \in Handlers \ {h} : pc[g] \notin Guarded
  BY <1>1 DEF IInv, Exclusive
<1>3. /\ pc' = [pc EXCEPT ![h] = "idle"] /\ pc' \in [Handlers -> Requests] /\ pc'[h] = "idle"
      /\ \A g \in Handlers \ {h} : pc'[g] = pc[g] /\ work'[g] = work[g]
      /\ work' = [g \in Handlers |-> work'[g]]
  BY DEF AppendOrder, Become, IInv, Types, Requests
<1>4. Types'
  BY <1>1, <1>3, AppendRow DEF IInv, Types
<1>5. Exclusive'
  BY <1>2, <1>3 DEF Exclusive, Guarded, Cycling
<1>6. \A g \in Handlers : Knows(g)'
  BY <1>1, <1>3 DEF IInv, Knows, Cycling
<1>7. ASSUME ~torn' PROVE Whole'
  <2>1. Whole
    BY <1>1, <1>7 DEF IInv
  <2>2. \A g \in Handlers : pc[g] \notin Trading /\ pc'[g] \notin Trading
    BY <1>1, <1>2, <1>3 DEF Trading, Guarded, Cycling
  <2>3. \A i \in DOMAIN trades' : trades'[i].account = "ai" => i \in DOMAIN trades /\ trades'[i] = trades[i]
    BY <1>1, AppendRow
  <2>4. RowsPlaced'
    BY <1>1, <2>1, <2>2, <2>3 DEF Whole, RowsPlaced
  <2>5. SalesKnown'
    BY <2>2 DEF SalesKnown
  <2>6. Ordered'
    BY <2>1, <2>3 DEF Whole, Ordered
  <2>7. NoSameDayRoundTrip'
    BY <2>1, <2>3 DEF Whole, NoSameDayRoundTrip, RoundTrip
  <2>8. CyclesPlaced'
    BY <1>1, <2>1, <2>2 DEF Whole, CyclesPlaced
  <2>9. QED BY <2>4, <2>5, <2>6, <2>7, <2>8 DEF Whole
<1>8. QED BY <1>4, <1>5, <1>6, <1>7 DEF IInv

(* A catch-up starts with the dates after the last one run, or not at      *)
(* all.                                                                    *)
LEMMA BeginCatchUpStep ==
  ASSUME IInv, NEW h \in Handlers, BeginCatchUp(h)
  PROVE  IInv'
<1> DEFINE f     == IF work[h].file = 0 THEN file ELSE work[h].file
           dates == PendingDates(f, lastRun)
<1>1. pc[h] = "tick" /\ LockFree /\ UNCHANGED <<file, trades, lastRun, resets, cycles, torn>>
  BY DEF BeginCatchUp, storeVars, ghostVars
<1>2. \A d \in dates : d \in Dates /\ d > lastRun
  <2>1. f \in Files /\ lastRun \in 0 .. LastDate
    BY <1>1 DEF IInv, Types, Knows
  <2>2. QED BY <2>1, PendingDatesFact
<1> HIDE DEF f, dates
<1>3. CASE Become(h, "idle", Idle) /\ UNCHANGED lock
  <2>1. Knows(h)'
    BY <1>3 DEF Become, Knows, Cycling, IInv, Types
  <2>2. pc[h] \notin Cycling /\ "idle" \in Requests \ Guarded
    BY <1>1 DEF Requests, Cycling, Guarded
  <2>3. QED BY <1>1, <1>3, <2>1, <2>2, OutsideStep DEF Become, IInv, Types
<1>4. CASE dates # {} /\ lock' = h /\ Become(h, "cycle", Cycle(f, dates, preset))
  <2>1. pc'[h] = "cycle" /\ work'[h] = Cycle(f, dates, preset)
    BY <1>4 DEF Become, IInv, Types
  <2>2. IsCycle(work'[h]) /\ work'[h].dates = dates
    BY <2>1 DEF IsCycle, Cycle
  <2>3. Knows(h)'
    BY <1>1, <1>2, <1>4, <2>1, <2>2 DEF Knows, IsCycle
  <2>4. QED BY <1>1, <1>4, <2>1, <2>3, AcquireStep DEF Become, IInv, Types
<1>5. QED BY <1>3, <1>4 DEF BeginCatchUp, f, dates

(* A request that ends because a replay failed.                            *)
LEMMA AbortStep ==
  ASSUME IInv, NEW h \in Handlers, pc[h] \in Cycling, Abort(h),
         UNCHANGED <<file, trades, lastRun, resets, cycles>>
  PROVE  IInv'
<1>1. \A g \in Handlers \ {h} : pc[g] \notin Guarded
  BY DEF IInv, Exclusive, Guarded
<1>2. /\ pc' \in [Handlers -> Requests] /\ pc'[h] = "idle" /\ lock' = NoHandler /\ torn' = TRUE
      /\ \A g \in Handlers \ {h} : pc'[g] = pc[g] /\ work'[g] = work[g]
      /\ work' = [g \in Handlers |-> work'[g]]
  BY DEF Abort, Become, IInv, Types, Requests
<1>3. Types'
  BY <1>2 DEF IInv, Types
<1>4. Exclusive'
  BY <1>1, <1>2 DEF Exclusive, Guarded, Cycling
<1>5. \A g \in Handlers : Knows(g)'
  BY <1>2 DEF IInv, Knows, Cycling
<1>6. QED BY <1>2, <1>3, <1>4, <1>5 DEF IInv

(* A step of the thread that holds the lock, within a catch-up.            *)
LEMMA HolderStep ==
  ASSUME IInv, NEW h \in Handlers, pc[h] \in Cycling,
         UNCHANGED <<file, lastRun, lock, resets, torn>>,
         \E at \in Cycling : pc' = [pc EXCEPT ![h] = at],
         work' = [work EXCEPT ![h] = work'[h]],
         IsCycle(work'[h]), work'[h].dates = work[h].dates,
         IsRows(trades'), cycles' \in [Dates -> Nat],
         ~torn => Whole'
  PROVE  IInv'
<1>1. /\ pc' \in [Handlers -> Requests] /\ pc'[h] \in Cycling
      /\ \A g \in Handlers \ {h} : pc'[g] = pc[g] /\ work'[g] = work[g]
      /\ work' = [g \in Handlers |-> work'[g]]
  BY DEF IInv, Types, Requests, Cycling
<1>2. Types'
  BY <1>1 DEF IInv, Types
<1>3. Exclusive'
  BY <1>1 DEF IInv, Exclusive, Guarded
<1>4. Knows(h)'
  BY <1>1 DEF IInv, Knows, Cycling
<1>5. \A g \in Handlers : Knows(g)'
  BY <1>1, <1>4 DEF IInv, Knows
<1>6. QED BY <1>2, <1>3, <1>5 DEF IInv

(* The thread in a catch-up is the only one trading.                       *)
LEMMA OnlyOneTrades ==
  ASSUME IInv, NEW h \in Handlers, pc[h] \in Cycling
  PROVE  \A g \in Handlers : pc[g] \in Trading => g = h
  BY DEF IInv, Exclusive, Guarded, Cycling, Trading

(* An order of the autopilot dated at its cycle keeps its rows in place,   *)
(* when what it sells is noted and what it buys was not sold.              *)
LEMMA AppendAiKept ==
  ASSUME IInv, Whole, NEW h \in Handlers, pc[h] \in Trading, pc'[h] \in Trading,
         \A g \in Handlers \ {h} : pc'[g] = pc[g] /\ work'[g] = work[g],
         work'[h].dates = work[h].dates, work[h].sold \subseteq work'[h].sold,
         UNCHANGED <<lastRun, cycles>>,
         NEW row, row.account = "ai", row.date = CycleDate(h),
         trades' = Append(trades, row),
         row.side = "sell" => row.ticker \in work'[h].sold,
         row.side = "buy" => row.ticker \notin work[h].sold
  PROVE  Whole'
<1>1. \A g \in Handlers : (pc[g] \in Trading => g = h) /\ (pc'[g] \in Trading => g = h)
  BY OnlyOneTrades DEF Trading, Cycling
<1>2. CycleDate(h)' = CycleDate(h) /\ CycleDate(h) \in Dates /\ CycleDate(h) > lastRun
  BY CycleDateFact DEF CycleDate, Trading, Cycling
<1>3. /\ Len(trades) \in Nat /\ DOMAIN trades = 1 .. Len(trades)
      /\ DOMAIN trades' = 1 .. Len(trades) + 1
      /\ \A i \in DOMAIN trades : trades'[i] = trades[i]
      /\ trades'[Len(trades) + 1] = row
  BY AppendRow DEF IInv, Types
<1>4. \A i \in DOMAIN trades' : i \in DOMAIN trades \/ trades'[i] = row
  BY <1>3
<1>5. \A i \in DOMAIN trades : trades[i].account = "ai" =>
        trades[i].date \in Dates /\ trades[i].date <= CycleDate(h)
  <2>1. \A i \in DOMAIN trades : trades[i].account = "ai" =>
          trades[i].date \in Dates /\ (trades[i].date <= lastRun \/ trades[i].date = CycleDate(h))
    BY <1>1 DEF Whole, RowsPlaced
  <2>2. lastRun \in Int /\ Dates \subseteq Int
    BY DatesAssumption DEF IInv, Types, Dates
  <2>3. TAKE i \in DOMAIN trades
  <2>4. HAVE trades[i].account = "ai"
  <2>5. trades[i].date \in Dates /\ (trades[i].date <= lastRun \/ trades[i].date = CycleDate(h))
    BY <2>1, <2>4
  <2>6. CycleDate(h) \in Int /\ trades[i].date \in Int /\ lastRun \in Int
    BY <1>2, <2>2, <2>5
  <2>7. CycleDate(h) > lastRun
    BY <1>2
  <2>8. QED BY <2>5, <2>6, <2>7
<1>6. RowsPlaced'
  <2> SUFFICES ASSUME NEW i \in DOMAIN trades', trades'[i].account = "ai"
      PROVE  /\ trades'[i].date \in Dates
             /\ trades'[i].date <= lastRun \/ trades'[i].date = CycleDate(h)
    BY <1>2 DEF RowsPlaced
  <2>1. CASE i \in DOMAIN trades
    BY <1>1, <1>3, <2>1 DEF Whole, RowsPlaced
  <2>2. CASE trades'[i] = row
    BY <1>2, <2>2
  <2>3. QED BY <1>4, <2>1, <2>2
<1>7. SalesKnown'
  <2> SUFFICES ASSUME NEW i \in DOMAIN trades', trades'[i].account = "ai",
                      trades'[i].side = "sell", trades'[i].date = CycleDate(h)
      PROVE  trades'[i].ticker \in work'[h].sold
    BY <1>1, <1>2 DEF SalesKnown
  <2>1. CASE i \in DOMAIN trades
    BY <1>3, <2>1 DEF Whole, SalesKnown
  <2>2. CASE trades'[i] = row
    BY <2>2
  <2>3. QED BY <1>4, <2>1, <2>2
<1>8. Ordered'
  <2> SUFFICES ASSUME NEW i \in DOMAIN trades', NEW j \in DOMAIN trades', i < j,
                      trades'[i].account = "ai", trades'[j].account = "ai"
      PROVE  trades'[i].date <= trades'[j].date
    BY DEF Ordered
  <2>1. i \in DOMAIN trades
    BY <1>3
  <2>2. CASE j \in DOMAIN trades
    BY <1>3, <2>1, <2>2 DEF Whole, Ordered
  <2>3. CASE trades'[j] = row
    BY <1>3, <1>5, <2>1, <2>3
  <2>4. QED BY <1>4, <2>2, <2>3
<1>9. NoSameDayRoundTrip'
  <2> SUFFICES ASSUME NEW i \in DOMAIN trades', NEW j \in DOMAIN trades', RoundTrip(i, j)'
      PROVE  FALSE
    BY DEF NoSameDayRoundTrip
  <2>1. /\ i < j /\ trades'[i].account = "ai" /\ trades'[i].side = "sell"
        /\ trades'[j].account = "ai" /\ trades'[j].side = "buy"
        /\ trades'[i].ticker = trades'[j].ticker /\ trades'[i].date = trades'[j].date
    BY DEF RoundTrip
  <2>2. i \in DOMAIN trades
    BY <1>3, <2>1
  <2>3. CASE j \in DOMAIN trades
    BY <1>3, <2>1, <2>2, <2>3 DEF Whole, NoSameDayRoundTrip, RoundTrip
  <2>4. CASE trades'[j] = row
    <3>1. trades[i].date = CycleDate(h) /\ trades[i].account = "ai" /\ trades[i].side = "sell"
      BY <1>3, <2>1, <2>2, <2>4
    <3>2. trades[i].ticker \in work[h].sold
      BY <2>2, <3>1 DEF Whole, SalesKnown
    <3>3. QED BY <1>3, <2>1, <2>2, <2>4, <3>2
  <2>5. QED BY <1>4, <2>3, <2>4
<1>10. CyclesPlaced'
  BY <1>1, <1>2 DEF Whole, CyclesPlaced
<1>11. QED BY <1>6, <1>7, <1>8, <1>9, <1>10 DEF Whole

(* A cycle begins at a date that no row and no earlier cycle has.          *)
LEMMA BeginCycleStep ==
  ASSUME IInv, NEW h \in Handlers, BeginCycle(h)
  PROVE  IInv'
<1>1. pc[h] = "cycle" /\ pc[h] \in Cycling /\ IsCycle(work[h])
  BY DEF BeginCycle, Cycling, IInv, Knows
<1>2. CASE Abort(h) /\ UNCHANGED cycles
  BY <1>1, <1>2, AbortStep DEF BeginCycle, storeVars
<1>3. CASE AiAccount(h).ok
  <2>1. /\ \E sells, shares : Become(h, "sell", [work[h] EXCEPT !.sells = sells, !.shares = shares])
        /\ cycles' = [cycles EXCEPT ![CycleDate(h)] = @ + 1]
        /\ UNCHANGED <<file, trades, lastRun, lock, resets, torn>>
    BY <1>3 DEF BeginCycle, storeVars
  <2>2. PICK sells, shares : Become(h, "sell", [work[h] EXCEPT !.sells = sells, !.shares = shares])
    BY <2>1
  <2>3. work'[h] = [work[h] EXCEPT !.sells = sells, !.shares = shares] /\ pc'[h] = "sell"
    BY <2>2 DEF Become, IInv, Types
  <2>4. IsCycle(work'[h]) /\ work'[h].dates = work[h].dates
    BY <1>1, <2>3 DEF IsCycle
  <2>5. \A g \in Handlers \ {h} : pc'[g] = pc[g] /\ work'[g] = work[g] /\ pc[g] \notin Trading
    BY <1>1, <2>2, OnlyOneTrades DEF Become, IInv, Types
  <2>6. CycleDate(h)' = CycleDate(h) /\ CycleDate(h) \in Dates /\ CycleDate(h) > lastRun
    BY <1>1, <2>4, CycleDateFact DEF CycleDate
  <2>7. /\ cycles' \in [Dates -> Nat] /\ cycles'[CycleDate(h)] = cycles[CycleDate(h)] + 1
        /\ \A d \in Dates \ {CycleDate(h)} : cycles'[d] = cycles[d]
    BY <2>1, <2>6 DEF IInv, Types
  <2>8. ASSUME ~torn PROVE Whole'
    <3>1. Whole /\ \A g \in Handlers : pc[g] \notin Trading
      BY <1>1, <2>5, <2>8 DEF IInv, Trading
    <3>2. \A i \in DOMAIN trades : trades[i].account = "ai" => trades[i].date \in Dates /\ trades[i].date <= lastRun
      BY <3>1 DEF Whole, RowsPlaced
    <3>3. RowsPlaced'
      BY <2>1, <3>2 DEF RowsPlaced
    <3>4. SalesKnown'
      <4>1. \A i \in DOMAIN trades : trades[i].account = "ai" => trades[i].date # CycleDate(h)
        <5>1. lastRun \in Int /\ Dates \subseteq Int
          BY DatesAssumption DEF IInv, Types, Dates
        <5>2. CycleDate(h) \in Int /\ CycleDate(h) > lastRun
          BY <2>6, <5>1
        <5>3. QED BY <3>2, <5>1, <5>2
      <4>2. \A g \in Handlers : pc'[g] \in Trading => g = h
        BY <2>5
      <4>3. QED BY <2>1, <2>6, <4>1, <4>2 DEF SalesKnown
    <3>5. Ordered' /\ NoSameDayRoundTrip'
      BY <2>1, <3>1 DEF Whole, Ordered, NoSameDayRoundTrip, RoundTrip
    <3>6. cycles[CycleDate(h)] = 0
      <4>1. cycles[CycleDate(h)] \in Nat /\ lastRun \in Int /\ CycleDate(h) \in Int
        BY <2>6, DatesAssumption DEF IInv, Types, Dates
      <4>2. cycles[CycleDate(h)] <= 1 /\ cycles[CycleDate(h)] # 1
        BY <2>6, <3>1, <4>1 DEF Whole, CyclesPlaced
      <4>3. QED BY <4>1, <4>2
    <3>7. CyclesPlaced'
      <4>1. pc'[h] \in Trading
        BY <2>3 DEF Trading
      <4>2. \A d \in Dates \ {CycleDate(h)} : cycles[d] <= 1 /\ (cycles[d] = 1 => d <= lastRun)
        BY <3>1 DEF Whole, CyclesPlaced
      <4>3. QED BY <2>1, <2>6, <2>7, <3>6, <4>1, <4>2 DEF CyclesPlaced
    <3>8. QED BY <3>3, <3>4, <3>5, <3>7 DEF Whole
  <2>9. \E at \in Cycling : pc' = [pc EXCEPT ![h] = at]
    BY <2>2 DEF Become, Cycling
  <2>10. work' = [work EXCEPT ![h] = work'[h]]
    BY <2>2, <2>3 DEF Become
  <2>11. IsRows(trades')
    BY <2>1 DEF IInv, Types
  <2>12. QED BY <1>1, <2>1, <2>4, <2>7, <2>8, <2>9, <2>10, <2>11, HolderStep
<1>4. QED BY <1>2, <1>3 DEF BeginCycle

(* The purchases begin: what was sold is still known.                      *)
LEMMA BeginBuysStep ==
  ASSUME IInv, NEW h \in Handlers, BeginBuys(h)
  PROVE  IInv'
<1>1. pc[h] = "sell" /\ pc[h] \in Cycling /\ IsCycle(work[h])
  BY DEF BeginBuys, Cycling, IInv, Knows
<1>2. CASE Abort(h)
  BY <1>1, <1>2, AbortStep DEF BeginBuys, storeVars
<1>3. CASE AiAccount(h).ok
  <2>1. /\ \E rank, held, equity :
             Become(h, "buy", [work[h] EXCEPT !.rank = rank, !.held = held, !.equity = equity])
        /\ UNCHANGED <<file, trades, lastRun, lock, resets, cycles, torn>>
    BY <1>3 DEF BeginBuys, storeVars
  <2>2. PICK rank, held, equity :
             Become(h, "buy", [work[h] EXCEPT !.rank = rank, !.held = held, !.equity = equity])
    BY <2>1
  <2>3. work'[h] = [work[h] EXCEPT !.rank = rank, !.held = held, !.equity = equity] /\ pc'[h] = "buy"
    BY <2>2 DEF Become, IInv, Types
  <2>4. IsCycle(work'[h]) /\ work'[h].dates = work[h].dates /\ work'[h].sold = work[h].sold
    BY <1>1, <2>3 DEF IsCycle
  <2>5. \A g \in Handlers \ {h} : pc'[g] = pc[g] /\ work'[g] = work[g]
    BY <2>2 DEF Become, IInv, Types
  <2>6. ~torn => Whole'
    BY <1>1, <2>1, <2>3, <2>4, <2>5, WholeKept DEF IInv, Trading
  <2>7. \E at \in Cycling : pc' = [pc EXCEPT ![h] = at]
    BY <2>2 DEF Become, Cycling
  <2>8. work' = [work EXCEPT ![h] = work'[h]]
    BY <2>2, <2>3 DEF Become
  <2>9. IsRows(trades') /\ cycles' \in [Dates -> Nat]
    BY <2>1 DEF IInv, Types
  <2>10. QED BY <1>1, <2>1, <2>4, <2>6, <2>7, <2>8, <2>9, HolderStep
<1>4. QED BY <1>2, <1>3 DEF BeginBuys

(* An order of the autopilot that the broker accepts is one whose account  *)
(* replayed.                                                               *)
LEMMA AcceptedReplays ==
  ASSUME NEW f, NEW order, order.account = "ai", Accepted(f, order)
  PROVE  LoadAccount("ai").ok
  BY DEF Accepted

(* A sale is noted as it is appended.                                      *)
LEMMA SellNextStep ==
  ASSUME IInv, NEW h \in Handlers, SellNext(h)
  PROVE  IInv'
<1> DEFINE t     == TickerOrder[Min(work[h].sells)]
           order == Order("ai", t, "sell", work[h].shares[t], CycleDate(h))
           row   == FillRow(work[h].file, order)
           sells == Accepted(work[h].file, order)
<1>1. /\ pc[h] = "sell" /\ pc[h] \in Cycling /\ pc[h] \in Trading /\ IsCycle(work[h])
      /\ UNCHANGED <<file, lastRun, resets, cycles>>
      /\ trades' = IF sells THEN Append(trades, row) ELSE trades
  BY DEF SellNext, Cycling, Trading, IInv, Knows
<1>2. order.account = "ai" /\ order.ticker = t /\ order.side = "sell" /\ order.date = CycleDate(h)
  BY DEF Order
<1>3. CASE Abort(h) /\ ~LoadAccount("ai").ok
  <2>1. ~sells
    BY <1>2, <1>3, AcceptedReplays
  <2>2. QED BY <1>1, <1>3, <2>1, AbortStep
<1>4. CASE Orderable(work[h].file, order) => LoadAccount("ai").ok
  <2>1. /\ Become(h, "sell", [work[h] EXCEPT
             !.sells = @ \ {Min(work[h].sells)}, !.sold = IF sells THEN @ \cup {t} ELSE @])
        /\ UNCHANGED <<lock, torn>>
    BY <1>4 DEF SellNext
  <2>2. /\ pc'[h] = "sell"
        /\ work'[h] = [work[h] EXCEPT !.sells = @ \ {Min(work[h].sells)}, !.sold = IF sells THEN @ \cup {t} ELSE @]
    BY <2>1 DEF Become, IInv, Types
  <2> HIDE DEF sells, t, order
  <2>3. /\ IsCycle(work'[h]) /\ work'[h].dates = work[h].dates
        /\ work'[h].sold = IF sells THEN work[h].sold \cup {t} ELSE work[h].sold
    BY <1>1, <2>2 DEF IsCycle
  <2>4. \A g \in Handlers \ {h} : pc'[g] = pc[g] /\ work'[g] = work[g]
    BY <2>1 DEF Become, IInv, Types
  <2>5. IsRows(trades')
    <3>1. IsRows(trades)
      BY DEF IInv, Types
    <3>2. IsRows(Append(trades, row))
      BY <3>1, AppendRow
    <3>3. QED BY <1>1, <3>1, <3>2
  <2>6. ASSUME ~torn PROVE Whole'
    <3>1. Whole
      BY <2>6 DEF IInv
    <3>2. CASE ~sells
      <4>1. UNCHANGED <<trades, lastRun, cycles>>
        BY <1>1, <3>2
      <4>2. work'[h].sold = work[h].sold /\ pc'[h] \in Trading
        BY <2>2, <2>3, <3>2 DEF Trading
      <4>3. QED BY <1>1, <2>3, <2>4, <3>1, <4>1, <4>2, WholeKept
    <3>3. CASE sells
      <4>1. CycleDate(h) # NoDate
        BY <1>1, CycleDateFact DEF Dates, NoDate
      <4>2. row.account = "ai" /\ row.ticker = t /\ row.side = "sell" /\ row.date = CycleDate(h)
        BY <1>2, <4>1, FillRowFact
      <4>3. trades' = Append(trades, row) /\ UNCHANGED <<lastRun, cycles>>
        BY <1>1, <3>3
      <4>4. /\ work[h].sold \subseteq work'[h].sold /\ row.ticker \in work'[h].sold
            /\ pc'[h] \in Trading /\ row.side # "buy"
        BY <2>2, <2>3, <3>3, <4>2 DEF Trading
      <4> HIDE DEF row
      <4>5. QED BY <1>1, <2>3, <2>4, <3>1, <4>2, <4>3, <4>4, AppendAiKept
    <3>4. QED BY <3>2, <3>3
  <2>7. \E at \in Cycling : pc' = [pc EXCEPT ![h] = at]
    BY <2>1 DEF Become, Cycling
  <2>8. work' = [work EXCEPT ![h] = work'[h]]
    BY <2>1, <2>2 DEF Become
  <2>9. cycles' \in [Dates -> Nat]
    BY <1>1 DEF IInv, Types
  <2>10. QED BY <1>1, <2>1, <2>3, <2>5, <2>6, <2>7, <2>8, <2>9, HolderStep
<1>5. QED BY <1>3, <1>4 DEF SellNext

(* What is bought is not among what was sold.                              *)
LEMMA BuyNextStep ==
  ASSUME IInv, NEW h \in Handlers, BuyNext(h)
  PROVE  IInv'
<1> DEFINE t     == Ranking[work[h].file][work[h].preset][CycleDate(h)][Min(work[h].rank)]
           size  == SlotShares(work[h].equity, work[h].preset, BarFiles[work[h].file][t][CycleDate(h)])
           order == Order("ai", t, "buy", size, CycleDate(h))
           row   == FillRow(work[h].file, order)
           wants == Wanted(work[h].preset, work[h].held, work[h].sold, t) /\ size > 0
           buys  == wants /\ Accepted(work[h].file, order)
<1>1. /\ pc[h] = "buy" /\ pc[h] \in Cycling /\ pc[h] \in Trading /\ IsCycle(work[h])
      /\ UNCHANGED <<file, lastRun, resets, cycles>>
      /\ trades' = IF buys THEN Append(trades, row) ELSE trades
  BY DEF BuyNext, Cycling, Trading, IInv, Knows
<1>2. order.account = "ai" /\ order.ticker = t /\ order.side = "buy" /\ order.date = CycleDate(h)
  BY DEF Order
<1>3. CASE Abort(h) /\ ~LoadAccount("ai").ok
  <2>1. ~buys
    BY <1>2, <1>3, AcceptedReplays
  <2>2. QED BY <1>1, <1>3, <2>1, AbortStep
<1>4. CASE wants => LoadAccount("ai").ok
  <2>1. /\ Become(h, "buy", [work[h] EXCEPT
             !.rank = @ \ {Min(work[h].rank)}, !.held = IF buys THEN @ \cup {t} ELSE @])
        /\ UNCHANGED <<lock, torn>>
    BY <1>4 DEF BuyNext
  <2>2. /\ pc'[h] = "buy"
        /\ work'[h] = [work[h] EXCEPT !.rank = @ \ {Min(work[h].rank)}, !.held = IF buys THEN @ \cup {t} ELSE @]
    BY <2>1 DEF Become, IInv, Types
  <2>3. buys => t \notin work[h].sold
    BY DEF Wanted
  <2> HIDE DEF buys, wants, size, t, order
  <2>4. /\ IsCycle(work'[h]) /\ work'[h].dates = work[h].dates
        /\ work'[h].sold = work[h].sold
    BY <1>1, <2>2 DEF IsCycle
  <2>5. \A g \in Handlers \ {h} : pc'[g] = pc[g] /\ work'[g] = work[g]
    BY <2>1 DEF Become, IInv, Types
  <2>6. IsRows(trades')
    <3>1. IsRows(trades)
      BY DEF IInv, Types
    <3>2. IsRows(Append(trades, row))
      BY <3>1, AppendRow
    <3>3. QED BY <1>1, <3>1, <3>2
  <2>7. ASSUME ~torn PROVE Whole'
    <3>1. Whole
      BY <2>7 DEF IInv
    <3>2. CASE ~buys
      <4>1. UNCHANGED <<trades, lastRun, cycles>>
        BY <1>1, <3>2
      <4>2. pc'[h] \in Trading
        BY <2>2 DEF Trading
      <4>3. QED BY <1>1, <2>4, <2>5, <3>1, <4>1, <4>2, WholeKept
    <3>3. CASE buys
      <4>1. CycleDate(h) # NoDate
        BY <1>1, CycleDateFact DEF Dates, NoDate
      <4>2. row.account = "ai" /\ row.ticker = t /\ row.side = "buy" /\ row.date = CycleDate(h)
        BY <1>2, <4>1, FillRowFact
      <4>3. trades' = Append(trades, row) /\ UNCHANGED <<lastRun, cycles>>
        BY <1>1, <3>3
      <4>4. row.ticker \notin work[h].sold /\ pc'[h] \in Trading /\ row.side # "sell"
        BY <2>2, <2>3, <3>3, <4>2 DEF Trading
      <4> HIDE DEF row
      <4>5. QED BY <1>1, <2>4, <2>5, <3>1, <4>2, <4>3, <4>4, AppendAiKept
    <3>4. QED BY <3>2, <3>3
  <2>8. \E at \in Cycling : pc' = [pc EXCEPT ![h] = at]
    BY <2>1 DEF Become, Cycling
  <2>9. work' = [work EXCEPT ![h] = work'[h]]
    BY <2>1, <2>2 DEF Become
  <2>10. cycles' \in [Dates -> Nat]
    BY <1>1 DEF IInv, Types
  <2>11. QED BY <1>1, <2>1, <2>4, <2>6, <2>7, <2>8, <2>9, <2>10, HolderStep
<1>5. QED BY <1>3, <1>4 DEF BuyNext

(* The date of the cycle becomes the last one run, and what is left to     *)
(* run lies after it.                                                      *)
LEMMA FinishCycleStep ==
  ASSUME IInv, NEW h \in Handlers, FinishCycle(h)
  PROVE  IInv'
<1> DEFINE left == work[h].dates \ {CycleDate(h)}
<1>1. /\ pc[h] = "buy" /\ pc[h] \in Cycling /\ pc[h] \in Trading /\ lastRun' = CycleDate(h)
      /\ UNCHANGED <<file, trades, resets, cycles, torn>>
  BY DEF FinishCycle, ghostVars, Cycling, Trading
<1>2. /\ CycleDate(h) \in Dates /\ CycleDate(h) \in 0 .. LastDate /\ CycleDate(h) > lastRun
      /\ CycleDate(h) \in Int /\ lastRun \in Int /\ Dates \subseteq Int
      /\ \A d \in left : d \in Dates /\ d > CycleDate(h)
  <2>1. CycleDate(h) \in Dates /\ CycleDate(h) > lastRun /\ \A d \in work[h].dates : CycleDate(h) <= d
    BY <1>1, CycleDateFact
  <2>2. \A d \in work[h].dates : d \in Dates
    BY <1>1 DEF IInv, Knows
  <2>3. Dates \subseteq Int /\ CycleDate(h) \in Int /\ CycleDate(h) \in 0 .. LastDate /\ lastRun \in Int
    BY <2>1, DatesAssumption DEF Dates, IInv, Types
  <2>4. \A d \in left : d \in Dates /\ d > CycleDate(h)
    <3>1. TAKE d \in left
    <3>2. d \in Dates /\ d \in Int /\ CycleDate(h) <= d /\ d # CycleDate(h)
      BY <2>1, <2>2, <2>3
    <3>3. QED BY <2>3, <3>2
  <2>5. QED BY <2>1, <2>3, <2>4
<1>3. \A g \in Handlers \ {h} : pc[g] \notin Guarded
  BY <1>1 DEF IInv, Exclusive, Guarded
<1>4. \/ Become(h, "idle", Idle) /\ lock' = NoHandler
      \/ left # {} /\ Become(h, "cycle", Cycle(work[h].file, left, work[h].preset)) /\ UNCHANGED lock
  BY DEF FinishCycle
<1> HIDE DEF left
<1>5. /\ pc' \in [Handlers -> Requests] /\ pc'[h] \in {"idle", "cycle"}
      /\ \A g \in Handlers \ {h} : pc'[g] = pc[g] /\ work'[g] = work[g]
      /\ work' = [g \in Handlers |-> work'[g]]
  BY <1>4 DEF Become, IInv, Types, Requests
<1>6. Types'
  <2>1. lock' \in Handlers \cup {NoHandler} /\ lastRun' \in 0 .. LastDate
    BY <1>1, <1>2, <1>4 DEF IInv, Types
  <2>2. IsRows(trades')
    BY <1>1 DEF IInv, Types
  <2>3. QED BY <1>1, <1>5, <2>1, <2>2 DEF IInv, Types
<1>7. Exclusive'
  <2>1. pc'[h] \in Guarded => lock' = h
    <3>1. pc'[h] = "idle" => pc'[h] \notin Guarded
      BY DEF Guarded, Cycling
    <3>2. lock = h
      BY <1>1 DEF IInv, Exclusive, Guarded
    <3>3. CASE Become(h, "idle", Idle)
      BY <3>1, <3>3 DEF Become, IInv, Types
    <3>4. CASE UNCHANGED lock
      BY <3>2, <3>4
    <3>5. QED BY <1>4, <3>3, <3>4
  <2>2. QED BY <1>3, <1>5, <2>1 DEF Exclusive
<1>8. Knows(h)'
  <2>1. CASE Become(h, "idle", Idle)
    BY <2>1 DEF Become, Knows, Cycling, IInv, Types
  <2>2. CASE left # {} /\ Become(h, "cycle", Cycle(work[h].file, left, work[h].preset))
    <3>1. pc'[h] = "cycle" /\ work'[h] = Cycle(work[h].file, left, work[h].preset)
      BY <2>2 DEF Become, IInv, Types
    <3>2. IsCycle(work'[h]) /\ work'[h].dates = left
      BY <3>1 DEF IsCycle, Cycle
    <3>3. QED BY <1>1, <1>2, <2>2, <3>1, <3>2 DEF Knows
  <2>3. QED BY <1>4, <2>1, <2>2
<1>9. \A g \in Handlers : Knows(g)'
  <2>1. \A g \in Handlers \ {h} : pc'[g] \notin Cycling
    BY <1>3, <1>5 DEF Guarded
  <2>2. \A g \in Handlers \ {h} : Knows(g)'
    BY <1>1, <1>5, <2>1 DEF IInv, Knows
  <2>3. QED BY <1>8, <2>2
<1>10. ASSUME ~torn' PROVE Whole'
  <2>1. Whole
    BY <1>1, <1>10 DEF IInv
  <2>2. \A g \in Handlers : pc'[g] \notin Trading /\ (pc[g] \in Trading => g = h)
    BY <1>3, <1>5 DEF Trading, Guarded, Cycling
  <2>3. RowsPlaced'
    <3> SUFFICES ASSUME NEW i \in DOMAIN trades, trades[i].account = "ai"
        PROVE  trades[i].date \in Dates /\ trades[i].date <= CycleDate(h)
      BY <1>1 DEF RowsPlaced
    <3>1. trades[i].date \in Dates /\ (trades[i].date <= lastRun \/ trades[i].date = CycleDate(h))
      BY <2>1, <2>2 DEF Whole, RowsPlaced
    <3>2. trades[i].date \in Int
      BY <1>2, <3>1
    <3>3. QED BY <1>2, <3>1, <3>2
  <2>4. SalesKnown'
    BY <2>2 DEF SalesKnown
  <2>5. Ordered' /\ NoSameDayRoundTrip'
    BY <1>1, <2>1 DEF Whole, Ordered, NoSameDayRoundTrip, RoundTrip
  <2>6. CyclesPlaced'
    <3> SUFFICES ASSUME NEW d \in Dates
        PROVE  cycles[d] <= 1 /\ (cycles[d] = 1 => d <= CycleDate(h))
      BY <1>1 DEF CyclesPlaced
    <3>1. cycles[d] <= 1 /\ (cycles[d] = 1 => d <= lastRun \/ d = CycleDate(h))
      BY <2>1, <2>2 DEF Whole, CyclesPlaced
    <3>2. d \in Int
      BY <1>2
    <3>3. QED BY <1>2, <3>1, <3>2
  <2>7. QED BY <2>3, <2>4, <2>5, <2>6 DEF Whole
<1>11. QED BY <1>6, <1>7, <1>9, <1>10 DEF IInv

(* A reset finds nobody inside the guarded sections and leaves no row.     *)
LEMMA ResetStep ==
  ASSUME IInv, NEW cash, Reset(cash)
  PROVE  IInv'
<1>1. \A h \in Handlers : pc[h] \notin Guarded
  BY HandlersAssumption DEF IInv, Exclusive, Reset, LockFree
<1>2. /\ trades' = <<>> /\ lastRun' = 0 /\ cycles' = [d \in Dates |-> 0] /\ torn' = FALSE
      /\ resets' = resets + 1 /\ UNCHANGED <<file, lock, pc, work>>
  BY DEF Reset, NoDate
<1>3. IsRows(trades')
  <2>1. <<>> \in Seq({}) /\ {<<>>[i] : i \in DOMAIN <<>>} = {}
    OBVIOUS
  <2>2. QED BY <1>2, <2>1 DEF IsRows
<1>4. Types'
  <2>1. lastRun' \in 0 .. LastDate /\ cycles' \in [Dates -> Nat]
    BY <1>2, DatesAssumption
  <2>2. resets' \in Nat
    BY <1>2 DEF IInv, Types
  <2>3. torn' \in BOOLEAN
    BY <1>2
  <2>4. file' \in Files /\ lock' \in Handlers \cup {NoHandler} /\ pc' \in [Handlers -> Requests]
    BY <1>2 DEF IInv, Types
  <2>5. work' = [h \in Handlers |-> work'[h]]
    BY <1>2 DEF IInv, Types
  <2>6. QED BY <1>3, <2>1, <2>2, <2>3, <2>4, <2>5 DEF Types
<1>5. Exclusive' /\ \A h \in Handlers : Knows(h)'
  BY <1>1, <1>2 DEF IInv, Exclusive, Knows, Guarded
<1>6. Whole'
  BY <1>2 DEF Whole, RowsPlaced, SalesKnown, Ordered, NoSameDayRoundTrip, RoundTrip, CyclesPlaced
<1>7. QED BY <1>4, <1>5, <1>6 DEF IInv

(* Steps that leave the threads, the rows and the dates alone.             *)
LEMMA QuietStep ==
  ASSUME IInv, file' \in Files, UNCHANGED <<trades, lastRun, lock, pc, work, resets, cycles, torn>>
  PROVE  IInv'
<1>1. Types'
  BY DEF IInv, Types
<1>2. Exclusive' /\ \A h \in Handlers : Knows(h)'
  BY DEF IInv, Exclusive, Knows
<1>3. ~torn' => Whole'
  BY WholeKept DEF IInv
<1>4. QED BY <1>1, <1>2, <1>3 DEF IInv

(* A stop of the process frees the lock; it cuts a cycle short exactly     *)
(* when a thread was trading.                                              *)
LEMMA CrashStep ==
  ASSUME IInv, Crash
  PROVE  IInv'
<1>1. /\ torn' = (torn \/ \E h \in Handlers : pc[h] \in Trading) /\ lock' = NoHandler
      /\ pc' = [h \in Handlers |-> "idle"] /\ work' = [h \in Handlers |-> Idle]
      /\ UNCHANGED <<file, trades, lastRun, resets, cycles>>
  BY DEF Crash, Trading, storeVars
<1>2. Types'
  <2>1. pc' \in [Handlers -> Requests] /\ work' = [h \in Handlers |-> work'[h]]
    BY <1>1 DEF Requests
  <2>2. torn' \in BOOLEAN
    BY <1>1
  <2>3. QED BY <1>1, <2>1, <2>2 DEF IInv, Types
<1>3. Exclusive' /\ \A h \in Handlers : Knows(h)'
  BY <1>1 DEF Exclusive, Knows, Guarded, Cycling
<1>4. ASSUME ~torn' PROVE Whole'
  <2>1. Whole /\ \A h \in Handlers : pc[h] \notin Trading
    BY <1>1, <1>4 DEF IInv
  <2>2. \A h \in Handlers : pc'[h] \notin Trading
    BY <1>1 DEF Trading
  <2>3. QED BY <1>1, <2>1, <2>2, WholeKept
<1>5. QED BY <1>2, <1>3, <1>4 DEF IInv

-----------------------------------------------------------------------------
(* The inductive step, and the theorems.                                   *)

(* No step breaks the invariant.                                           *)
LEMMA StepIInv == IInv /\ [Next]_vars => IInv'
<1> SUFFICES ASSUME IInv, [Next]_vars PROVE IInv'
  OBVIOUS
<1>1. ASSUME NEW h \in Handlers, Request(h) PROVE IInv'
  BY <1>1, RequestOrderStep, RequestTickStep, RequestReadStep DEF Request
<1>2. ASSUME NEW h \in Handlers, LoadOrder(h) \/ AppendOrder(h) \/ BeginCatchUp(h) \/ FinishRead(h)
      PROVE  IInv'
  BY <1>2, LoadOrderStep, AppendOrderStep, BeginCatchUpStep, FinishReadStep
<1>3. ASSUME NEW h \in Handlers, CycleStep(h) PROVE IInv'
  BY <1>3, BeginCycleStep, SellNextStep, BeginBuysStep, BuyNextStep, FinishCycleStep DEF CycleStep
<1>4. ASSUME NEW cash \in Funds, Reset(cash) PROVE IInv'
  BY <1>4, ResetStep
<1>5. ASSUME NEW p \in Presets, Configure(p) PROVE IInv'
  BY <1>5, QuietStep DEF Configure, ghostVars, IInv, Types
<1>6. CASE RefreshBars
  <2>1. file' \in Files
    BY <1>6, FilesAssumption DEF RefreshBars, Files, IInv, Types
  <2>2. QED BY <1>6, <2>1, QuietStep DEF RefreshBars, storeVars, ghostVars
<1>7. CASE Crash
  BY <1>7, CrashStep
<1>8. CASE UNCHANGED vars
  BY <1>8, QuietStep DEF vars, IInv, Types
<1>9. QED BY <1>1, <1>2, <1>3, <1>4, <1>5, <1>6, <1>7, <1>8 DEF Next

(* The invariant holds in every behaviour.                                 *)
THEOREM AlwaysIInv == Spec => []IInv
  BY InitIInv, StepIInv, PTL DEF Spec

(* At most one thread is inside what _MUTATION_LOCK guards, and it is the  *)
(* holder: no early return, failed replay or restart leaves two.           *)
THEOREM LockExcludes ==
  Spec => [](\A g, h \in Handlers : pc[g] \in Guarded /\ pc[h] \in Guarded => g = h)
<1>1. IInv => \A g, h \in Handlers : pc[g] \in Guarded /\ pc[h] \in Guarded => g = h
  BY DEF IInv, Exclusive
<1>2. QED BY <1>1, AlwaysIInv, PTL

(* catch_up and run_cycle append the rows of the autopilot in date order,  *)
(* whichever price file each request has read, while no cycle was cut      *)
(* short.                                                                  *)
THEOREM DatesInOrder == Spec => []AiDatesOrdered
<1>1. IInv => AiDatesOrdered
  BY DEF IInv, Whole, Ordered, AiDatesOrdered
<1>2. QED BY <1>1, AlwaysIInv, PTL

(* run_cycle never buys back, on the same date, a ticker it has sold,      *)
(* while no cycle was cut short.                                           *)
THEOREM NeverRoundTrips == Spec => []NoRoundTripUnlessStopped
<1>1. IInv => NoRoundTripUnlessStopped
  BY DEF IInv, Whole, NoRoundTripUnlessStopped
<1>2. QED BY <1>1, AlwaysIInv, PTL

(* catch_up runs no bar date twice, while no cycle was cut short: the      *)
(* first half of RunOncePerDate.                                           *)
THEOREM RunsADateOnce == Spec => [](torn \/ \A d \in Dates : cycles[d] <= 1)
<1>1. IInv => (torn \/ \A d \in Dates : cycles[d] <= 1)
  BY DEF IInv, Types, Whole, CyclesPlaced
<1>2. QED BY <1>1, AlwaysIInv, PTL

(* The date the autopilot has reached moves back by a reset only.  This    *)
(* needs no exception for stopped cycles.                                  *)
LEMMA StepLastRun == IInv /\ [Next]_vars => (resets' = resets => lastRun' >= lastRun)
<1> SUFFICES ASSUME IInv, [Next]_vars, resets' = resets PROVE lastRun' >= lastRun
  OBVIOUS
<1>1. lastRun \in Int
  BY DatesAssumption DEF IInv, Types
<1>2. CASE UNCHANGED lastRun
  BY <1>1, <1>2
<1>3. ASSUME NEW h \in Handlers, Request(h) PROVE UNCHANGED lastRun
  BY <1>3 DEF Request, RequestOrder, RequestTick, RequestRead, storeVars
<1>4. ASSUME NEW h \in Handlers, LoadOrder(h) \/ AppendOrder(h) \/ BeginCatchUp(h) \/ FinishRead(h)
      PROVE  UNCHANGED lastRun
  BY <1>4 DEF LoadOrder, AppendOrder, BeginCatchUp, FinishRead, storeVars
<1>5. ASSUME NEW h \in Handlers, CycleStep(h) PROVE lastRun' >= lastRun
  <2>1. CASE BeginCycle(h) \/ SellNext(h) \/ BeginBuys(h) \/ BuyNext(h)
    BY <1>2, <2>1 DEF BeginCycle, SellNext, BeginBuys, BuyNext, storeVars
  <2>2. CASE FinishCycle(h)
    <3>1. lastRun' = CycleDate(h) /\ pc[h] \in Cycling
      BY <2>2 DEF FinishCycle, Cycling
    <3>2. CycleDate(h) > lastRun /\ CycleDate(h) \in Int
      BY <3>1, CycleDateFact, DatesAssumption DEF Dates
    <3>3. QED BY <1>1, <3>1, <3>2
  <2>3. QED BY <1>5, <2>1, <2>2 DEF CycleStep
<1>6. ASSUME NEW cash \in Funds, Reset(cash) PROVE FALSE
  BY <1>6 DEF Reset, IInv, Types
<1>7. ASSUME NEW p \in Presets, Configure(p) PROVE UNCHANGED lastRun
  BY <1>7 DEF Configure
<1>8. CASE RefreshBars \/ Crash \/ UNCHANGED vars
  BY <1>2, <1>8 DEF RefreshBars, Crash, vars, storeVars
<1>9. QED BY <1>2, <1>3, <1>4, <1>5, <1>6, <1>7, <1>8 DEF Next

(* LastRunMonotone, for every number of threads and price files.           *)
THEOREM NeverBack == Spec => LastRunMonotone
  BY AlwaysIInv, StepLastRun, PTL DEF Spec, LastRunMonotone

=============================================================================
