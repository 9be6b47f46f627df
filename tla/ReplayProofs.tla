---------------------------- MODULE ReplayProofs ----------------------------
(***************************************************************************)
(* Proofs about what a replay of the trade log computes, for every number  *)
(* of threads, tickers, dates and price files: every row records the cash  *)
(* its account had, so that no account ever fails to replay, whoever reads *)
(* it; the autopilot's book can be rebuilt as of every date; a catch-up    *)
(* repeats a date once for each stop of the process at most; a purchase    *)
(* keeps the limits of the preset; and the store implements Ledger.        *)
(***************************************************************************)
EXTENDS VirtualTradeProofs, FiniteSetTheorems

(* Induction on the natural numbers, as a fact about sets of them.         *)
LEMMA Induction ==
  ASSUME NEW S \in SUBSET Nat, 0 \in S, \A n \in S : n + 1 \in S
  PROVE  \A n \in Nat : n \in S
<1> SUFFICES ASSUME Nat \ S # {} PROVE FALSE
  OBVIOUS
<1>1. /\ Min(Nat \ S) \in Nat \ S
      /\ \A n \in Nat \ S : Min(Nat \ S) <= n
  BY MinFact
<1>2. PICK m \in Nat \ S : \A n \in Nat \ S : m <= n
  BY <1>1
<1>3. m # 0 /\ m - 1 \in Nat /\ m - 1 \notin Nat \ S
  BY <1>2
<1>4. m - 1 \in S
  BY <1>3
<1>5. QED BY <1>2, <1>4

Fresh(cash) == [ok |-> TRUE, book |-> EmptyBook(cash)]
ReplayId(rows, acc, n) == IF n \in DOMAIN rows THEN ReplayRow(acc, rows[n]) ELSE acc

(* What the recursive definition of Replayed stands for: such a function   *)
(* exists.                                                                 *)
LEMMA ReplayedDef ==
  ASSUME NEW rows, NEW cash
  PROVE  LET account == Replayed(rows, cash)
         IN  account = [n \in Nat |-> IF n = 0 THEN Fresh(cash) ELSE ReplayId(rows, account[n - 1], n)]
<1> DEFINE Step(acc, n) == ReplayId(rows, acc, n)
           Is(g, m) == g = [n \in 0 .. m |-> IF n = 0 THEN Fresh(cash) ELSE Step(g[n - 1], n)]
           S == {m \in Nat : \E g : Is(g, m)}
           F == [n \in Nat |-> (CHOOSE g : Is(g, n))[n]]
<1> HIDE DEF Step
<1>1. 0 \in S
  <2>1. Is([n \in 0 .. 0 |-> Fresh(cash)], 0)
    OBVIOUS
  <2>2. QED BY <2>1
<1>2. ASSUME NEW m \in S PROVE m + 1 \in S
  <2>1. PICK g : Is(g, m)
    OBVIOUS
  <2> DEFINE k == [n \in 0 .. m + 1 |-> IF n = m + 1 THEN Step(g[m], m + 1) ELSE g[n]]
  <2>2. k[m] = g[m] /\ \A n \in 0 .. m : k[n] = g[n]
    OBVIOUS
  <2>3. \A n \in 0 .. m + 1 : k[n] = IF n = 0 THEN Fresh(cash) ELSE Step(k[n - 1], n)
    <3>1. TAKE n \in 0 .. m + 1
    <3>2. CASE n = m + 1
      BY <2>2, <3>2
    <3>3. CASE n \in 0 .. m
      <4>1. g[n] = IF n = 0 THEN Fresh(cash) ELSE Step(g[n - 1], n)
        BY <2>1, <3>3
      <4>2. n # 0 => n - 1 \in 0 .. m
        BY <3>3
      <4>3. QED BY <2>2, <3>3, <4>1, <4>2
    <3>4. QED BY <3>2, <3>3
  <2>4. k = [n \in 0 .. m + 1 |-> k[n]]
    OBVIOUS
  <2> HIDE DEF k
  <2>5. Is(k, m + 1)
    BY <2>3, <2>4
  <2>6. QED BY <2>5
<1>3. \A m \in Nat : m \in S
  <2> HIDE DEF S
  <2>1. S \in SUBSET Nat
    BY DEF S
  <2>2. QED BY <1>1, <1>2, <2>1, Induction
<1>4. \A m \in Nat : Is(CHOOSE g : Is(g, m), m)
  BY <1>3
<1>5. ASSUME NEW g, NEW k, NEW m \in Nat, NEW l \in Nat, m <= l, Is(g, m), Is(k, l)
      PROVE  g[m] = k[m]
  <2> DEFINE T == {n \in Nat : n <= m => g[n] = k[n]}
  <2>1. 0 \in T
    BY <1>5
  <2>2. ASSUME NEW n \in T PROVE n + 1 \in T
    <3> SUFFICES ASSUME n + 1 <= m PROVE g[n + 1] = k[n + 1]
      OBVIOUS
    <3>1. n \in Nat /\ g[n] = k[n] /\ n + 1 \in 0 .. m /\ n + 1 \in 0 .. l /\ n + 1 # 0 /\ (n + 1) - 1 = n
      BY <1>5
    <3>2. g[n + 1] = Step(g[n], n + 1) /\ k[n + 1] = Step(k[n], n + 1)
      BY <1>5, <3>1
    <3>3. QED BY <3>1, <3>2
  <2>3. m \in T
    <3> HIDE DEF T
    <3>1. T \in SUBSET Nat
      BY DEF T
    <3>2. QED BY <2>1, <2>2, <3>1, Induction
  <2>4. QED BY <2>3
<1>6. \A n \in Nat : F[n] = IF n = 0 THEN Fresh(cash) ELSE Step(F[n - 1], n)
  <2>1. TAKE n \in Nat
  <2>2. PICK g : g = (CHOOSE k : Is(k, n)) /\ Is(g, n) /\ F[n] = g[n]
    BY <1>4
  <2>3. CASE n = 0
    BY <2>2, <2>3
  <2>4. CASE n # 0
    <3>0. n - 1 \in Nat /\ F[n - 1] = (CHOOSE k : Is(k, n - 1))[n - 1]
      BY <2>4
    <3>1. PICK k : k = (CHOOSE j : Is(j, n - 1)) /\ Is(k, n - 1) /\ F[n - 1] = k[n - 1]
      <4> HIDE DEF F, Is
      <4>1. QED BY <1>4, <3>0
    <3>2. k[n - 1] = g[n - 1]
      <4>1. n - 1 <= n
        OBVIOUS
      <4> HIDE DEF F, Is
      <4>2. QED BY <1>5, <2>2, <3>0, <3>1, <4>1
    <3>3. g[n] = Step(g[n - 1], n)
      <4>1. n \in 0 .. n /\ g = [i \in 0 .. n |-> IF i = 0 THEN Fresh(cash) ELSE Step(g[i - 1], i)]
        BY <2>2
      <4> HIDE DEF F, Is, S
      <4>2. QED BY <2>4, <4>1
    <3>4. QED BY <2>2, <2>4, <3>1, <3>2, <3>3
  <2>5. QED BY <2>3, <2>4
<1>7. F = [n \in Nat |-> IF n = 0 THEN Fresh(cash) ELSE Step(F[n - 1], n)]
  <2>1. F = [n \in Nat |-> F[n]]
    OBVIOUS
  <2> HIDE DEF F
  <2>2. QED BY <1>6, <2>1
<1>8. \E account : account = [n \in Nat |-> IF n = 0 THEN Fresh(cash) ELSE Step(account[n - 1], n)]
  BY <1>7
<1>9. Replayed(rows, cash) = CHOOSE account : account = [n \in Nat |-> IF n = 0 THEN Fresh(cash) ELSE Step(account[n - 1], n)]
  BY DEF Replayed, Step, ReplayId, Fresh
<1>10. QED BY <1>8, <1>9 DEF Step


(* The replay of no row, and of one row more.                              *)
LEMMA ReplayedSteps ==
  ASSUME NEW rows, NEW cash
  PROVE  /\ Replayed(rows, cash)[0] = Fresh(cash)
         /\ \A n \in Nat : Replayed(rows, cash)[n + 1] = ReplayId(rows, Replayed(rows, cash)[n], n + 1)
<1>1. PICK account : /\ account = Replayed(rows, cash)
                     /\ account = [n \in Nat |-> IF n = 0 THEN Fresh(cash) ELSE ReplayId(rows, account[n - 1], n)]
  BY ReplayedDef
<1>2. account[0] = Fresh(cash)
  BY <1>1
<1>3. ASSUME NEW n \in Nat PROVE account[n + 1] = ReplayId(rows, account[n], n + 1)
  <2>1. n + 1 \in Nat /\ n + 1 # 0 /\ (n + 1) - 1 = n
    OBVIOUS
  <2>2. QED BY <1>1, <2>1
<1>4. QED BY <1>1, <1>2, <1>3

(* Equal rows replay to equal accounts.                                    *)
LEMMA ReplayedAgree ==
  ASSUME NEW rows, NEW more, NEW cash, NEW m \in Nat,
         \A i \in 1 .. m : /\ i \in DOMAIN rows <=> i \in DOMAIN more
                           /\ i \in DOMAIN rows => rows[i] = more[i]
  PROVE  \A n \in 0 .. m : Replayed(rows, cash)[n] = Replayed(more, cash)[n]
<1> DEFINE T == {n \in Nat : n <= m => Replayed(rows, cash)[n] = Replayed(more, cash)[n]}
<1>1. 0 \in T
  BY ReplayedSteps
<1>2. ASSUME NEW n \in T PROVE n + 1 \in T
  <2> SUFFICES ASSUME n + 1 <= m PROVE Replayed(rows, cash)[n + 1] = Replayed(more, cash)[n + 1]
    OBVIOUS
  <2>1. n \in Nat /\ n + 1 \in 1 .. m /\ Replayed(rows, cash)[n] = Replayed(more, cash)[n]
    OBVIOUS
  <2>2. \A acc : ReplayId(rows, acc, n + 1) = ReplayId(more, acc, n + 1)
    BY <2>1 DEF ReplayId
  <2>3. QED BY <2>1, <2>2, ReplayedSteps
<1>3. \A n \in Nat : n \in T
  <2> HIDE DEF T
  <2>1. T \in SUBSET Nat
    BY DEF T
  <2>2. QED BY <1>1, <1>2, <2>1, Induction
<1>4. QED BY <1>3

(* Ids without a row change nothing.                                       *)
LEMMA ReplayedGap ==
  ASSUME NEW rows, NEW cash, NEW m \in Nat, NEW n \in Nat, m <= n,
         \A i \in m + 1 .. n : i \notin DOMAIN rows
  PROVE  Replayed(rows, cash)[n] = Replayed(rows, cash)[m]
<1> DEFINE T == {k \in Nat : m <= k /\ k <= n => Replayed(rows, cash)[k] = Replayed(rows, cash)[m]}
<1>1. 0 \in T
  OBVIOUS
<1>2. ASSUME NEW k \in T PROVE k + 1 \in T
  <2> SUFFICES ASSUME m <= k + 1, k + 1 <= n PROVE Replayed(rows, cash)[k + 1] = Replayed(rows, cash)[m]
    OBVIOUS
  <2>1. CASE m = k + 1
    BY <2>1
  <2>2. CASE m <= k
    <3>1. k \in Nat /\ Replayed(rows, cash)[k] = Replayed(rows, cash)[m] /\ k + 1 \notin DOMAIN rows
      BY <2>2
    <3>2. QED BY <3>1, ReplayedSteps DEF ReplayId
  <2>3. QED BY <2>1, <2>2
<1>3. \A k \in Nat : k \in T
  <2> HIDE DEF T
  <2>1. T \in SUBSET Nat
    BY DEF T
  <2>2. QED BY <1>1, <1>2, <2>1, Induction
<1>4. QED BY <1>3

(* The account of some rows is the one after any id from the last on.      *)
LEMMA ReplayAt ==
  ASSUME NEW rows, NEW cash, NEW n \in Nat, DOMAIN rows \subseteq 1 .. n
  PROVE  Replay(rows, cash) = Replayed(rows, cash)[n]
<1>1. CASE DOMAIN rows = {}
  <2>1. Replayed(rows, cash)[n] = Replayed(rows, cash)[0]
    BY <1>1, ReplayedGap
  <2>2. QED BY <1>1, <2>1 DEF Replay
<1>2. CASE DOMAIN rows # {}
  <2>1. Max(DOMAIN rows) \in DOMAIN rows /\ \A i \in DOMAIN rows : i <= Max(DOMAIN rows)
    BY <1>2, MaxFact
  <2>2. PICK m \in 1 .. n : m = Max(DOMAIN rows)
    BY <2>1
  <2>3. \A i \in m + 1 .. n : i \notin DOMAIN rows
    BY <2>1, <2>2
  <2>4. Replayed(rows, cash)[n] = Replayed(rows, cash)[m]
    BY <2>2, <2>3, ReplayedGap
  <2>5. QED BY <1>2, <2>2, <2>4 DEF Replay
<1>3. QED BY <1>1, <1>2

(* Rows that have been extended after id n, by one row at most.            *)
Extended(rows, more, n) ==
  /\ DOMAIN rows \subseteq 1 .. n /\ DOMAIN more \subseteq 1 .. n + 1
  /\ \A i \in 1 .. n : /\ i \in DOMAIN rows <=> i \in DOMAIN more
                       /\ i \in DOMAIN rows => rows[i] = more[i]

(* One more row is executed on the account of the rows before it.          *)
LEMMA ReplayMore ==
  ASSUME NEW rows, NEW more, NEW cash, NEW n \in Nat, Extended(rows, more, n)
  PROVE  /\ \A i \in 0 .. n : Replayed(more, cash)[i] = Replayed(rows, cash)[i]
         /\ Replayed(more, cash)[n + 1] = ReplayId(more, Replay(rows, cash), n + 1)
         /\ Replay(more, cash) = ReplayId(more, Replay(rows, cash), n + 1)
<1>1. \A i \in 0 .. n : Replayed(rows, cash)[i] = Replayed(more, cash)[i]
  BY ReplayedAgree DEF Extended
<1>2. Replay(rows, cash) = Replayed(rows, cash)[n] /\ Replay(more, cash) = Replayed(more, cash)[n + 1]
  BY ReplayAt DEF Extended
<1>3. QED BY <1>1, <1>2, ReplayedSteps

(* An account that failed to replay stays failed.                          *)
LEMMA ReplayedForm ==
  ASSUME NEW rows, NEW cash
  PROVE  \A n \in Nat : /\ Replayed(rows, cash)[n] = [ok   |-> Replayed(rows, cash)[n].ok,
                                                      book |-> Replayed(rows, cash)[n].book]
                        /\ Replayed(rows, cash)[n].ok \in BOOLEAN
<1> DEFINE IsAccount(acc) == acc = [ok |-> acc.ok, book |-> acc.book] /\ acc.ok \in BOOLEAN
           T == {n \in Nat : IsAccount(Replayed(rows, cash)[n])}
<1>1. 0 \in T
  <2>1. IsAccount(Fresh(cash))
    BY DEF Fresh
  <2> HIDE DEF IsAccount
  <2>2. QED BY <2>1, ReplayedSteps
<1>2. ASSUME NEW n \in T PROVE n + 1 \in T
  <2>1. ASSUME NEW acc, IsAccount(acc) PROVE IsAccount(ReplayId(rows, acc, n + 1))
    BY <2>1 DEF ReplayId, ReplayRow
  <2>2. QED BY <2>1, ReplayedSteps
<1>3. \A n \in Nat : n \in T
  <2> HIDE DEF T
  <2>1. T \in SUBSET Nat
    BY DEF T
  <2>2. QED BY <1>1, <1>2, <2>1, Induction
<1>4. QED BY <1>3

-----------------------------------------------------------------------------
(* The rows of the log.                                                    *)

(* The rows of an account, and those up to a date, under their ids.        *)
LEMMA RowsOfFact ==
  ASSUME IsRows(trades), NEW a
  PROVE  /\ DOMAIN RowsOf(a) = {i \in 1 .. Len(trades) : trades[i].account = a}
         /\ \A i \in DOMAIN RowsOf(a) : RowsOf(a)[i] = trades[i]
         /\ Len(trades) \in Nat
<1>1. DOMAIN trades = 1 .. Len(trades) /\ Len(trades) \in Nat
  BY AppendRow
<1>2. RowsOf(a) = [i \in {j \in DOMAIN trades : trades[j].account = a} |-> trades[i]]
  BY DEF RowsOf, RestrictValues, Restrict
<1>3. QED BY <1>1, <1>2

(* The rows of an account up to a date, by their places in the log.        *)
LEMMA RowsAsOfFact ==
  ASSUME IsRows(trades), NEW a, NEW d
  PROVE  /\ \A i : i \in DOMAIN RowsAsOf(a, d) <=> i \in 1 .. Len(trades) /\ trades[i].account = a /\ trades[i].date <= d
         /\ \A i \in DOMAIN RowsAsOf(a, d) : RowsAsOf(a, d)[i] = trades[i]
         /\ Len(trades) \in Nat
<1>1. DOMAIN trades = 1 .. Len(trades) /\ Len(trades) \in Nat
  BY AppendRow
<1>2. RowsAsOf(a, d) = [i \in {j \in DOMAIN trades : trades[j].account = a /\ trades[j].date <= d} |-> trades[i]]
  BY DEF RowsAsOf, RestrictValues, Restrict
<1>3. QED BY <1>1, <1>2

(* While every row records the cash of its account, every account replays. *)
LEMMA LoadsOk ==
  ASSUME IsRows(trades), RowsRecordCash, NEW a \in Accounts
  PROVE  LoadAccount(a).ok
<1>1. CASE DOMAIN RowsOf(a) = {}
  <2>1. LoadAccount(a) = Replayed(RowsOf(a), initial[a])[0]
    BY <1>1 DEF LoadAccount, Replay
  <2>2. LoadAccount(a) = Fresh(initial[a])
    BY <2>1, ReplayedSteps
  <2>3. QED BY <2>2 DEF Fresh
<1>2. CASE DOMAIN RowsOf(a) # {}
  <2>1. Max(DOMAIN RowsOf(a)) \in DOMAIN RowsOf(a)
    <3>1. DOMAIN RowsOf(a) \in SUBSET (1 .. Len(trades)) /\ Len(trades) \in Nat
      BY RowsOfFact
    <3>2. QED BY <1>2, <3>1, MaxFact
  <2>2. PICK m : m = Max(DOMAIN RowsOf(a)) /\ m \in DOMAIN RowsOf(a)
    BY <2>1
  <2>3. LoadAccount(a) = Replayed(RowsOf(a), initial[a])[m]
    BY <1>2, <2>2 DEF LoadAccount, Replay
  <2>4. QED BY <2>2, <2>3 DEF RowsRecordCash
<1>3. QED BY <1>1, <1>2

-----------------------------------------------------------------------------
(* The invariant.                                                          *)

(* The rows an order may leave.                                            *)
IsRow(row) ==
  /\ row.account \in Accounts /\ row.ticker \in Tickers /\ row.side \in Sides
  /\ row.shares \in WholeLots /\ row.price \in FillPrices

(* A row that fits the log as it is: the broker accepts it, and the cash   *)
(* it records is what the account has after it.                            *)
Fits(row) ==
  LET account == LoadAccount(row.account)
  IN  /\ IsRow(row)
      /\ account.ok /\ Refusal(account.book, row) = "none"
      /\ row.cashAfter = Execute(account.book, row).cash

(* What a thread has read of the log is the log up to some id.             *)
Snapshot(a, rows) ==
  \E n \in 0 .. Len(trades) :
    /\ DOMAIN rows = {i \in DOMAIN RowsOf(a) : i <= n}
    /\ \A i \in DOMAIN rows : rows[i] = trades[i]

(* What a thread knows of the log and of the bars, wherever it is.         *)
OrderKnown(h) ==
  pc[h] = "order" =>
    /\ work[h].file \in Files
    /\ work[h].order.ticker \in Tickers /\ work[h].order.side \in Sides
    /\ work[h].order.date = NoDate

AppendKnown(h) == pc[h] = "append" => Fits(work[h].row)

ReadKnown(h) ==
  pc[h] = "read" =>
    /\ work[h].resets \in 0 .. resets
    /\ work[h].resets = resets =>
         work[h].account \in Accounts /\ Snapshot(work[h].account, work[h].rows)

CycleKnown(h) == pc[h] \in Cycling => work[h].file \in Files /\ work[h].preset \in Presets

(* Every sale a cycle still has to try can be replayed as of its date.     *)
SellKnown(h) ==
  pc[h] = "sell" =>
    /\ AiAccount(h).ok
    /\ work[h].sells \subseteq DOMAIN TickerOrder
    /\ \A i \in work[h].sells :
         work[h].shares[TickerOrder[i]] <= AiAccount(h).book.shares[TickerOrder[i]]

(* What a cycle takes to be held is what the book holds.                   *)
BuyKnown(h) ==
  pc[h] = "buy" =>
    /\ work[h].rank \subseteq DOMAIN Candidates(work[h].file, work[h].preset, CycleDate(h))
    /\ work[h].held \subseteq Tickers
    /\ NothingLater(h) => work[h].held = Held(LoadAccount("ai").book)

LogKnown(h) ==
  OrderKnown(h) /\ AppendKnown(h) /\ ReadKnown(h) /\ CycleKnown(h) /\ SellKnown(h) /\ BuyKnown(h)

(* A date that is neither run nor being run was begun at most once for     *)
(* each stop of the process.                                               *)
CyclesCounted ==
  \A d \in Dates :
    \/ cycles[d] <= crashes
    \/ /\ cycles[d] <= crashes + 1
       /\ d <= lastRun \/ \E h \in Handlers : pc[h] \in Trading /\ d = CycleDate(h)

LogInv ==
  /\ \A i \in DOMAIN trades : IsRow(trades[i])
  /\ RowsRecordCash
  /\ preset \in Presets /\ crashes \in Nat
  /\ \A h \in Handlers : LogKnown(h)
  /\ CyclesCounted

-----------------------------------------------------------------------------
(* Orders and rows.                                                        *)

(* The broker accepts an order exactly when the row it would leave fits.   *)
LEMMA AcceptedFits ==
  ASSUME NEW f \in Files, NEW order, Accepted(f, order),
         order.account \in Accounts, order.ticker \in Tickers, order.side \in Sides
  PROVE  Fits(FillRow(f, order))
<1> DEFINE dates  == BarDates(f, order.ticker)
           date   == IF order.date = NoDate THEN Max(dates) ELSE order.date
           bars   == BarFiles[f][order.ticker]
           priced == PricedOrder(f, order)
           row    == FillRow(f, order)
           before == LoadAccount(order.account)
<1>1. date \in dates /\ order.shares \in WholeLots
  <2>1. order.shares \in WholeLots /\ (IF order.date = NoDate THEN dates # {} ELSE order.date \in dates)
    BY DEF Accepted, Orderable
  <2>2. dates \in SUBSET (1 .. LastDate)
    BY FilesAssumption DEF BarDates, Dates
  <2>3. dates # {} => Max(dates) \in dates
    BY <2>2, DatesAssumption, MaxFact
  <2>4. QED BY <2>1, <2>3
<1>2. /\ priced.account = order.account /\ priced.ticker = order.ticker /\ priced.side = order.side
      /\ priced.shares = order.shares /\ priced.price = RoundToTick(bars[date], order.side) \div Yen
  BY DEF PricedOrder
<1>3. /\ row.account = priced.account /\ row.ticker = priced.ticker /\ row.side = priced.side
      /\ row.shares = priced.shares /\ row.price = priced.price
      /\ row.cashAfter = Execute(before.book, priced).cash
  BY <1>2 DEF FillRow
<1>4. priced.price \in FillPrices
  <2>1. bars[date] \in Range(bars)
    BY <1>1 DEF Range, BarDates
  <2>2. PICK t \in Tickers : t = order.ticker
    OBVIOUS
  <2>3. bars[date] \in Range(BarFiles[f][t])
    BY <2>1, <2>2
  <2>4. bars[date] \in Closes
    BY <2>3 DEF Closes
  <2>5. RoundToTick(bars[date], order.side) \div Yen \in FillPrices
    BY <2>4 DEF FillPrices
  <2>6. QED BY <1>2, <2>2, <2>5
<1>5. before.ok /\ Refusal(before.book, priced) = "none"
  BY DEF Accepted
<1> HIDE DEF priced, row, before
<1>6. Refusal(before.book, row) = Refusal(before.book, priced)
  BY <1>3 DEF Refusal
<1>7. Execute(before.book, row) = Execute(before.book, priced)
  BY <1>3 DEF Execute
<1>8. IsRow(row)
  BY <1>1, <1>2, <1>3, <1>4 DEF IsRow
<1>9. row.account = order.account /\ before = LoadAccount(order.account)
  BY <1>2, <1>3 DEF before
<1>10. QED BY <1>3, <1>5, <1>6, <1>7, <1>8, <1>9 DEF Fits, row

(* Appending a row that fits leaves a log that replays: the account of the *)
(* row has executed it, the others are as they were.                       *)
LEMMA AppendFits ==
  ASSUME IsRows(trades), RowsRecordCash, NEW row, Fits(row),
         trades' = Append(trades, row), initial' = initial
  PROVE  /\ IsRows(trades') /\ RowsRecordCash'
         /\ LoadAccount(row.account)' = [ok |-> TRUE, book |-> Execute(LoadAccount(row.account).book, row)]
         /\ \A a : a # row.account => LoadAccount(a)' = LoadAccount(a)
<1> DEFINE n == Len(trades)
<1>1. /\ IsRows(trades') /\ n \in Nat /\ DOMAIN trades = 1 .. n /\ DOMAIN trades' = 1 .. n + 1
      /\ Len(trades') = n + 1
      /\ \A i \in 1 .. n : trades'[i] = trades[i]
      /\ trades'[n + 1] = row
  BY AppendRow
<1>2. ASSUME NEW a
      PROVE  /\ DOMAIN RowsOf(a) \subseteq 1 .. n /\ DOMAIN RowsOf(a)' \subseteq 1 .. n + 1
             /\ \A i \in 1 .. n : /\ i \in DOMAIN RowsOf(a) <=> i \in DOMAIN RowsOf(a)'
                                  /\ i \in DOMAIN RowsOf(a) => RowsOf(a)[i] = RowsOf(a)'[i]
             /\ n + 1 \in DOMAIN RowsOf(a)' <=> row.account = a
             /\ row.account = a => RowsOf(a)'[n + 1] = row
  <2>1. /\ DOMAIN RowsOf(a)' = {i \in 1 .. n + 1 : trades'[i].account = a}
        /\ \A i \in DOMAIN RowsOf(a)' : RowsOf(a)'[i] = trades'[i]
    <3>1. RowsOf(a)' = [i \in {j \in DOMAIN trades' : trades'[j].account = a} |-> trades'[i]]
      BY DEF RowsOf, RestrictValues, Restrict
    <3>2. QED BY <1>1, <3>1
  <2>2. /\ DOMAIN RowsOf(a) = {i \in 1 .. n : trades[i].account = a}
        /\ \A i \in DOMAIN RowsOf(a) : RowsOf(a)[i] = trades[i]
    BY RowsOfFact
  <2>3. PICK rows, more : rows = RowsOf(a) /\ more = RowsOf(a)'
    OBVIOUS
  <2>4. /\ DOMAIN rows = {i \in 1 .. n : trades[i].account = a}
        /\ DOMAIN more = {i \in 1 .. n + 1 : trades'[i].account = a}
        /\ \A i \in DOMAIN rows : rows[i] = trades[i]
        /\ \A i \in DOMAIN more : more[i] = trades'[i]
    BY <2>1, <2>2, <2>3
  <2>5. /\ DOMAIN rows \subseteq 1 .. n /\ DOMAIN more \subseteq 1 .. n + 1
        /\ \A i \in 1 .. n : /\ i \in DOMAIN rows <=> i \in DOMAIN more
                             /\ i \in DOMAIN rows => rows[i] = more[i]
    BY <1>1, <2>4
  <2>6. n + 1 \in DOMAIN more <=> row.account = a
    BY <1>1, <2>4
  <2>7. row.account = a => more[n + 1] = row
    BY <1>1, <2>4, <2>6
  <2>8. QED BY <2>3, <2>5, <2>6, <2>7
<1>3. ASSUME NEW a
      PROVE  /\ \A i \in 0 .. n : Replayed(RowsOf(a)', initial[a])[i] = Replayed(RowsOf(a), initial[a])[i]
             /\ Replayed(RowsOf(a)', initial[a])[n + 1] = ReplayId(RowsOf(a)', LoadAccount(a), n + 1)
             /\ LoadAccount(a)' = ReplayId(RowsOf(a)', LoadAccount(a), n + 1)
  <2>1. PICK rows, more : rows = RowsOf(a) /\ more = RowsOf(a)'
    OBVIOUS
  <2>2. /\ \A i \in 0 .. n : Replayed(more, initial[a])[i] = Replayed(rows, initial[a])[i]
        /\ Replayed(more, initial[a])[n + 1] = ReplayId(more, Replay(rows, initial[a]), n + 1)
        /\ Replay(more, initial[a]) = ReplayId(more, Replay(rows, initial[a]), n + 1)
    <3>1. Extended(rows, more, n)
      BY <1>2, <2>1 DEF Extended
    <3> HIDE DEF n
    <3>2. QED BY <1>1, <3>1, ReplayMore
  <2>3. LoadAccount(a) = Replay(rows, initial[a]) /\ LoadAccount(a)' = Replay(more, initial[a])
    BY <2>1 DEF LoadAccount
  <2>4. QED BY <2>1, <2>2, <2>3
<1>4. \A a : a # row.account => LoadAccount(a)' = LoadAccount(a)
  BY <1>2, <1>3 DEF ReplayId
<1>5. PICK b : b = row.account
  OBVIOUS
<1>6. LoadAccount(b)' = [ok |-> TRUE, book |-> Execute(LoadAccount(b).book, row)]
  <2>1. LoadAccount(b).ok /\ Refusal(LoadAccount(b).book, row) = "none"
    BY <1>5 DEF Fits
  <2>2. LoadAccount(b) = [ok |-> LoadAccount(b).ok, book |-> LoadAccount(b).book] /\ LoadAccount(b).ok = TRUE
    <3>1. LoadAccount(b) = Replayed(RowsOf(b), initial[b])[n]
      BY <1>1, <1>2, ReplayAt DEF LoadAccount
    <3>2. PICK acc : acc = Replayed(RowsOf(b), initial[b])[n]
      OBVIOUS
    <3>3. acc = [ok |-> acc.ok, book |-> acc.book] /\ acc.ok \in BOOLEAN
      BY <1>1, <3>2, ReplayedForm
    <3>4. QED BY <2>1, <3>1, <3>2, <3>3
  <2>3. LoadAccount(b)' = ReplayRow(LoadAccount(b), row)
    BY <1>2, <1>3, <1>5 DEF ReplayId
  <2>4. QED BY <2>1, <2>2, <2>3 DEF ReplayRow
<1>7. RowsRecordCash'
  <2>1. ASSUME NEW a \in Accounts, NEW i \in DOMAIN RowsOf(a)'
        PROVE  /\ Replayed(RowsOf(a)', initial[a])[i].ok
               /\ Replayed(RowsOf(a)', initial[a])[i].book.cash = trades'[i].cashAfter
    <3>1. CASE i \in 1 .. n
      <4>1. i \in DOMAIN RowsOf(a) /\ trades'[i] = trades[i]
        BY <1>1, <1>2, <3>1
      <4>2. /\ Replayed(RowsOf(a), initial[a])[i].ok
            /\ Replayed(RowsOf(a), initial[a])[i].book.cash = trades[i].cashAfter
        BY <4>1 DEF RowsRecordCash
      <4>3. Replayed(RowsOf(a)', initial[a])[i] = Replayed(RowsOf(a), initial[a])[i]
        BY <1>1, <1>3, <3>1
      <4>4. QED BY <4>1, <4>2, <4>3
    <3>2. CASE i = n + 1
      <4>1. trades'[i] = row /\ a = b
        BY <1>1, <1>2, <1>5, <3>2
      <4>2. Replayed(RowsOf(a)', initial[a])[i] = LoadAccount(a)'
        BY <1>3, <3>2
      <4>3. Execute(LoadAccount(b).book, row).cash = row.cashAfter
        BY <1>5 DEF Fits
      <4>4. QED BY <1>6, <4>1, <4>2, <4>3
    <3>3. QED BY <1>1, <1>2, <3>1, <3>2
  <2>2. QED BY <2>1 DEF RowsRecordCash
<1>8. QED BY <1>1, <1>4, <1>5, <1>6, <1>7

-----------------------------------------------------------------------------
(* The account as of a date.                                               *)

(* A row changes what the account is as of its date and of later dates.    *)
LEMMA AppendAsOf ==
  ASSUME IsRows(trades), NEW row, trades' = Append(trades, row), initial' = initial, NEW a, NEW d
  PROVE  AccountAsOf(a, d)' = IF row.account = a /\ row.date <= d
                                THEN ReplayRow(AccountAsOf(a, d), row)
                                ELSE AccountAsOf(a, d)
<1> DEFINE n == Len(trades)
<1>1. /\ n \in Nat /\ DOMAIN trades' = 1 .. n + 1
      /\ \A i \in 1 .. n : trades'[i] = trades[i]
      /\ trades'[n + 1] = row
  BY AppendRow
<1>2. PICK rows, more, cash : rows = RowsAsOf(a, d) /\ more = RowsAsOf(a, d)' /\ cash = initial[a]
  OBVIOUS
<1>3. /\ \A i : i \in DOMAIN rows <=> i \in 1 .. n /\ trades[i].account = a /\ trades[i].date <= d
      /\ \A i \in DOMAIN rows : rows[i] = trades[i]
  <2>1. /\ \A i : i \in DOMAIN RowsAsOf(a, d) <=> i \in 1 .. n /\ trades[i].account = a /\ trades[i].date <= d
        /\ \A i \in DOMAIN RowsAsOf(a, d) : RowsAsOf(a, d)[i] = trades[i]
    BY RowsAsOfFact
  <2>2. QED BY <1>2, <2>1
<1>4. /\ \A i : i \in DOMAIN more <=> i \in 1 .. n + 1 /\ trades'[i].account = a /\ trades'[i].date <= d
      /\ \A i \in DOMAIN more : more[i] = trades'[i]
  <2>1. more = [i \in {j \in DOMAIN trades' : trades'[j].account = a /\ trades'[j].date <= d} |-> trades'[i]]
    BY <1>2 DEF RowsAsOf, RestrictValues, Restrict
  <2>2. QED BY <1>1, <2>1
<1>5. Extended(rows, more, n)
  BY <1>1, <1>3, <1>4 DEF Extended
<1>6. /\ n + 1 \in DOMAIN more <=> row.account = a /\ row.date <= d
      /\ n + 1 \in DOMAIN more => more[n + 1] = row
  BY <1>1, <1>4
<1>7. Replay(more, cash) = ReplayId(more, Replay(rows, cash), n + 1)
  <2>1. PICK m \in Nat : m = n
    BY <1>1
  <2>2. Extended(rows, more, m)
    BY <1>5, <2>1
  <2>3. /\ \A i \in 0 .. m : Replayed(more, cash)[i] = Replayed(rows, cash)[i]
        /\ Replayed(more, cash)[m + 1] = ReplayId(more, Replay(rows, cash), m + 1)
        /\ Replay(more, cash) = ReplayId(more, Replay(rows, cash), m + 1)
    BY <2>2, ReplayMore
  <2>4. QED BY <2>1, <2>3
<1> HIDE DEF n
<1>8. AccountAsOf(a, d) = Replay(rows, cash) /\ AccountAsOf(a, d)' = Replay(more, cash)
  BY <1>2 DEF AccountAsOf
<1>9. QED BY <1>6, <1>7, <1>8 DEF ReplayId

(* As of a date none of its rows is later than, it is the account itself.  *)
LEMMA AsOfLatest ==
  ASSUME IsRows(trades), NEW d, \A row \in Range(RowsOf("ai")) : row.date <= d
  PROVE  AccountAsOf("ai", d) = LoadAccount("ai")
<1>1. \A i \in DOMAIN RowsOf("ai") : trades[i].date <= d
  BY RowsOfFact DEF Range
<1>2. RowsAsOf("ai", d) = RowsOf("ai")
  <2>1. /\ RowsOf("ai") = [i \in {j \in DOMAIN trades : trades[j].account = "ai"} |-> trades[i]]
        /\ RowsAsOf("ai", d) = [i \in {j \in DOMAIN trades : trades[j].account = "ai" /\ trades[j].date <= d} |-> trades[i]]
    BY DEF RowsOf, RowsAsOf, RestrictValues, Restrict
  <2>2. {j \in DOMAIN trades : trades[j].account = "ai" /\ trades[j].date <= d} = {j \in DOMAIN trades : trades[j].account = "ai"}
    BY <1>1, <2>1
  <2>3. QED BY <2>1, <2>2
<1>3. QED BY <1>2 DEF AccountAsOf, LoadAccount

(* While the rows of the autopilot are in date order, those up to a date   *)
(* are the first ones, and the account can be rebuilt as of every date.    *)
LEMMA AsOfOk ==
  ASSUME IsRows(trades), RowsRecordCash, Ordered, NEW d \in Dates,
         \A i \in DOMAIN trades : trades[i].account = "ai" => trades[i].date \in Dates
  PROVE  AccountAsOf("ai", d).ok
<1> DEFINE n == Len(trades)
<1>1. n \in Nat /\ DOMAIN trades = 1 .. n /\ Dates \subseteq Int
  BY AppendRow, DatesAssumption DEF Dates
<1>2. PICK rows, all, cash : rows = RowsAsOf("ai", d) /\ all = RowsOf("ai") /\ cash = initial["ai"]
  OBVIOUS
<1>3. /\ \A i : i \in DOMAIN rows <=> i \in 1 .. n /\ trades[i].account = "ai" /\ trades[i].date <= d
      /\ \A i \in DOMAIN rows : rows[i] = trades[i]
  <2>1. /\ \A i : i \in DOMAIN RowsAsOf("ai", d) <=> i \in 1 .. n /\ trades[i].account = "ai" /\ trades[i].date <= d
        /\ \A i \in DOMAIN RowsAsOf("ai", d) : RowsAsOf("ai", d)[i] = trades[i]
    BY RowsAsOfFact
  <2>2. QED BY <1>2, <2>1
<1>4. /\ DOMAIN all = {i \in 1 .. n : trades[i].account = "ai"}
      /\ \A i \in DOMAIN all : all[i] = trades[i]
  BY <1>2, RowsOfFact
<1>5. AccountAsOf("ai", d) = Replay(rows, cash)
  BY <1>2 DEF AccountAsOf
<1>6. CASE DOMAIN rows = {}
  <2>1. Replay(rows, cash) = Fresh(cash)
    BY <1>6, ReplayedSteps DEF Replay
  <2>2. QED BY <1>5, <2>1 DEF Fresh
<1>7. CASE DOMAIN rows # {}
  <2>1. Max(DOMAIN rows) \in DOMAIN rows /\ \A i \in DOMAIN rows : i <= Max(DOMAIN rows)
    <3>1. DOMAIN rows \in SUBSET (1 .. n)
      BY <1>3
    <3>2. QED BY <1>1, <1>7, <3>1, MaxFact
  <2>2. PICK m \in 1 .. n : m = Max(DOMAIN rows) /\ m \in DOMAIN rows
    BY <1>3, <2>1
  <2>3. \A i \in 1 .. m : /\ i \in DOMAIN rows <=> i \in DOMAIN all
                          /\ i \in DOMAIN rows => rows[i] = all[i]
    <3>1. TAKE i \in 1 .. m
    <3>2. i \in 1 .. n /\ i \in DOMAIN trades /\ m \in DOMAIN trades
      BY <1>1, <2>2
    <3>3. trades[m].account = "ai" /\ trades[m].date <= d /\ trades[m].date \in Int
      BY <1>1, <1>3, <2>2, <3>2
    <3>4. trades[i].account = "ai" => trades[i].date <= trades[m].date /\ trades[i].date \in Int
      <4>1. i = m \/ i < m
        BY <2>2
      <4>2. trades[i].account = "ai" /\ i < m => trades[i].date <= trades[m].date
        BY <3>2, <3>3 DEF Ordered
      <4>3. trades[i].account = "ai" => trades[i].date \in Int
        BY <1>1, <3>2
      <4>4. QED BY <3>3, <4>1, <4>2, <4>3
    <3>5. trades[i].account = "ai" => trades[i].date <= d
      BY <1>1, <3>3, <3>4
    <3>6. QED BY <1>3, <1>4, <3>2, <3>5
  <2>4. Replay(rows, cash) = Replayed(rows, cash)[m]
    BY <1>7, <2>2 DEF Replay
  <2>5. Replayed(rows, cash)[m] = Replayed(all, cash)[m]
    BY <1>1, <2>2, <2>3, ReplayedAgree
  <2>6. m \in DOMAIN RowsOf("ai") /\ "ai" \in Accounts
    BY <1>2, <1>3, <1>4, <2>2 DEF Accounts
  <2>7. Replayed(RowsOf("ai"), initial["ai"])[m].ok
    BY <2>6 DEF RowsRecordCash
  <2>8. QED BY <1>2, <1>5, <2>4, <2>5, <2>7
<1>8. QED BY <1>6, <1>7

-----------------------------------------------------------------------------
(* The shares of a replayed book.                                          *)

HasShares(acc) == acc.book.shares \in [Tickers -> Nat]

(* They are natural numbers, whatever is bought and sold.                  *)
LEMMA RowShares ==
  ASSUME NEW acc, HasShares(acc), NEW row, IsRow(row)
  PROVE  HasShares(ReplayRow(acc, row))
<1>1. row.ticker \in Tickers /\ row.side \in Sides /\ row.shares \in Nat
  BY DEF IsRow, WholeLots
<1>2. CASE acc.ok /\ Refusal(acc.book, row) = "none"
  <2>1. ReplayRow(acc, row) = [acc EXCEPT !.book = Execute(@, row)]
    BY <1>2 DEF ReplayRow
  <2>2. PICK book, shares : book = acc.book /\ shares = book.shares /\ shares \in [Tickers -> Nat]
    BY DEF HasShares
  <2>3. CASE row.side = "buy"
    <3>1. Execute(book, row).shares = [shares EXCEPT ![row.ticker] = @ + row.shares]
      BY <2>2, <2>3 DEF Execute, AfterBuy
    <3>2. [shares EXCEPT ![row.ticker] = @ + row.shares] \in [Tickers -> Nat]
      BY <1>1, <2>2
    <3>3. ReplayRow(acc, row).book.shares \in {book.shares, Execute(book, row).shares}
      BY <2>1, <2>2
    <3>4. QED BY <2>2, <3>1, <3>2, <3>3 DEF HasShares
  <2>4. CASE row.side # "buy"
    <3>1. row.side = "sell" /\ row.shares <= shares[row.ticker]
      BY <1>1, <1>2, <2>2, <2>4 DEF Refusal, CanSell, Sides
    <3>2. Execute(book, row).shares = [shares EXCEPT ![row.ticker] = @ - row.shares]
      BY <2>2, <2>4 DEF Execute, AfterSell
    <3>3. [shares EXCEPT ![row.ticker] = @ - row.shares] \in [Tickers -> Nat]
      BY <1>1, <2>2, <3>1
    <3>4. ReplayRow(acc, row).book.shares \in {book.shares, Execute(book, row).shares}
      BY <2>1, <2>2
    <3>5. QED BY <2>2, <3>2, <3>3, <3>4 DEF HasShares
  <2>5. QED BY <2>3, <2>4
<1>3. CASE ~(acc.ok /\ Refusal(acc.book, row) = "none")
  <2>1. ReplayRow(acc, row).book = acc.book
    BY <1>3 DEF ReplayRow
  <2>2. QED BY <2>1 DEF HasShares
<1>4. QED BY <1>2, <1>3

(* Every book along a replay has a count for each ticker.                  *)
LEMMA ReplayedShares ==
  ASSUME NEW rows, NEW cash, \A i \in DOMAIN rows : IsRow(rows[i])
  PROVE  \A n \in Nat : HasShares(Replayed(rows, cash)[n])
<1> DEFINE T == {n \in Nat : HasShares(Replayed(rows, cash)[n])}
<1>1. 0 \in T
  <2>1. HasShares(Fresh(cash))
    BY DEF HasShares, Fresh, EmptyBook
  <2>2. QED BY <2>1, ReplayedSteps
<1>2. ASSUME NEW n \in T PROVE n + 1 \in T
  <2>1. HasShares(ReplayId(rows, Replayed(rows, cash)[n], n + 1))
    BY RowShares DEF ReplayId
  <2>2. QED BY <2>1, ReplayedSteps
<1>3. \A n \in Nat : n \in T
  <2> HIDE DEF T
  <2>1. T \in SUBSET Nat
    BY DEF T
  <2>2. QED BY <1>1, <1>2, <2>1, Induction
<1>4. QED BY <1>3

(* So have the books that are loaded, in full or as of a date.             *)
LEMMA AccountShares ==
  ASSUME IsRows(trades), \A i \in DOMAIN trades : IsRow(trades[i]), NEW a, NEW d
  PROVE  HasShares(LoadAccount(a)) /\ HasShares(AccountAsOf(a, d))
<1>1. DOMAIN trades = 1 .. Len(trades) /\ Len(trades) \in Nat
  BY AppendRow
<1>2. PICK n \in Nat : n = Len(trades)
  BY <1>1
<1>3. HasShares(LoadAccount(a))
  <2>1. PICK rows, cash : rows = RowsOf(a) /\ cash = initial[a]
    OBVIOUS
  <2>2. DOMAIN rows \subseteq 1 .. n /\ \A i \in DOMAIN rows : IsRow(rows[i])
    BY <1>1, <1>2, <2>1, RowsOfFact
  <2>3. HasShares(Replay(rows, cash))
    BY <2>2, ReplayAt, ReplayedShares
  <2>4. QED BY <2>1, <2>3 DEF LoadAccount
<1>4. HasShares(AccountAsOf(a, d))
  <2>1. PICK rows, cash : rows = RowsAsOf(a, d) /\ cash = initial[a]
    OBVIOUS
  <2>2. DOMAIN rows \subseteq 1 .. n /\ \A i \in DOMAIN rows : IsRow(rows[i])
    <3>1. /\ \A i : i \in DOMAIN RowsAsOf(a, d) <=> i \in 1 .. Len(trades) /\ trades[i].account = a /\ trades[i].date <= d
          /\ \A i \in DOMAIN RowsAsOf(a, d) : RowsAsOf(a, d)[i] = trades[i]
      BY RowsAsOfFact
    <3>2. \A i \in DOMAIN RowsAsOf(a, d) : i \in 1 .. n /\ RowsAsOf(a, d)[i] = trades[i]
      BY <1>2, <3>1
    <3>3. QED BY <1>1, <1>2, <2>1, <3>2
  <2>3. HasShares(Replay(rows, cash))
    BY <2>2, ReplayAt, ReplayedShares
  <2>4. QED BY <2>1, <2>3 DEF AccountAsOf
<1>5. QED BY <1>3, <1>4

-----------------------------------------------------------------------------
(* The steps that leave the log alone.                                     *)

(* The rows and the accounts stay when the log and the opening cash do.    *)
LEMMA AccountsKept ==
  ASSUME trades' = trades, initial' = initial
  PROVE  /\ \A a : RowsOf(a)' = RowsOf(a) /\ LoadAccount(a)' = LoadAccount(a)
         /\ \A a, d : AccountAsOf(a, d)' = AccountAsOf(a, d)
<1>1. \A a : RowsOf(a)' = RowsOf(a)
  BY DEF RowsOf, RestrictValues, Restrict
<1>2. \A a, d : RowsAsOf(a, d)' = RowsAsOf(a, d)
  BY DEF RowsAsOf, RestrictValues, Restrict
<1>3. \A a : LoadAccount(a)' = LoadAccount(a)
  BY <1>1 DEF LoadAccount
<1>4. \A a, d : AccountAsOf(a, d)' = AccountAsOf(a, d)
  BY <1>2 DEF AccountAsOf
<1>5. QED BY <1>1, <1>3, <1>4

(* What a thread knows stays known while it stays where it is.             *)
LEMMA ThreadKept ==
  ASSUME NEW g \in Handlers, LogKnown(g), UNCHANGED <<trades, initial, resets>>,
         pc'[g] = pc[g], work'[g] = work[g]
  PROVE  LogKnown(g)'
<1>1. /\ CycleDate(g)' = CycleDate(g)
      /\ \A a : RowsOf(a)' = RowsOf(a) /\ LoadAccount(a)' = LoadAccount(a)
      /\ \A a, d : AccountAsOf(a, d)' = AccountAsOf(a, d)
  BY AccountsKept DEF CycleDate
<1>2. AiAccount(g)' = AiAccount(g) /\ (NothingLater(g)' <=> NothingLater(g))
  BY <1>1 DEF AiAccount, NothingLater
<1>3. OrderKnown(g)' /\ CycleKnown(g)'
  BY DEF LogKnown, OrderKnown, CycleKnown
<1>4. AppendKnown(g)'
  BY <1>1 DEF LogKnown, AppendKnown, Fits
<1>5. ReadKnown(g)'
  BY <1>1 DEF LogKnown, ReadKnown, Snapshot
<1>6. SellKnown(g)'
  BY <1>2 DEF LogKnown, SellKnown
<1>7. BuyKnown(g)'
  BY <1>1, <1>2 DEF LogKnown, BuyKnown
<1>8. QED BY <1>3, <1>4, <1>5, <1>6, <1>7 DEF LogKnown

(* A thread at rest, or waiting with a tick, knows nothing.                *)
LEMMA NothingKnown ==
  ASSUME NEW h, pc[h] \in {"idle", "tick"}
  PROVE  LogKnown(h)
  BY DEF LogKnown, OrderKnown, AppendKnown, ReadKnown, CycleKnown, SellKnown, BuyKnown, Cycling

(* The counts stay bounded while the same threads trade the same dates.    *)
LEMMA CountsKept ==
  ASSUME CyclesCounted, UNCHANGED <<cycles, crashes, lastRun>>,
         \A g \in Handlers : /\ pc[g] \in Trading => pc'[g] \in Trading
                             /\ pc[g] \in Trading => work'[g].dates = work[g].dates
  PROVE  CyclesCounted'
<1>1. \A g \in Handlers : pc[g] \in Trading => CycleDate(g)' = CycleDate(g)
  BY DEF CycleDate
<1>2. QED BY <1>1 DEF CyclesCounted

(* A step of one thread that leaves the log alone.                         *)
LEMMA LogLeft ==
  ASSUME LogInv, NEW h \in Handlers,
         UNCHANGED <<trades, initial, preset, resets, crashes>>,
         \A g \in Handlers \ {h} : pc'[g] = pc[g] /\ work'[g] = work[g],
         LogKnown(h)', CyclesCounted'
  PROVE  LogInv'
<1>1. \A g \in Handlers : LogKnown(g)'
  <2>1. \A g \in Handlers \ {h} : LogKnown(g)'
    BY ThreadKept DEF LogInv
  <2>2. QED BY <2>1
<1>2. RowsRecordCash'
  BY AccountsKept DEF LogInv, RowsRecordCash
<1>3. preset' \in Presets /\ crashes' \in Nat /\ \A i \in DOMAIN trades' : IsRow(trades'[i])
  BY DEF LogInv
<1>4. QED BY <1>1, <1>2, <1>3 DEF LogInv

(* A step of one thread from a place outside of the cycles to another.     *)
LEMMA LogOutside ==
  ASSUME IInv, LogInv, NEW h \in Handlers,
         UNCHANGED <<trades, initial, preset, lastRun, resets, crashes, cycles>>,
         pc[h] \notin Trading,
         \A g \in Handlers \ {h} : pc'[g] = pc[g] /\ work'[g] = work[g],
         LogKnown(h)'
  PROVE  LogInv'
<1>1. CyclesCounted'
  BY CountsKept DEF LogInv
<1>2. QED BY <1>1, LogLeft

(* A request notes its order, with the price file of that moment.          *)
LEMMA RequestOrderLog ==
  ASSUME IInv, LogInv, NEW h \in Handlers, NEW t \in Tickers, NEW side \in Sides, NEW n, RequestOrder(h, t, side, n)
  PROVE  LogInv'
<1>1. /\ pc[h] = "idle" /\ pc'[h] = "order"
      /\ work'[h] = [kind |-> "order", file |-> file, order |-> Order("user", t, side, n, NoDate)]
      /\ \A g \in Handlers \ {h} : pc'[g] = pc[g] /\ work'[g] = work[g]
  BY DEF RequestOrder, Become, IInv, Types
<1>2. file \in Files
  BY DEF IInv, Types
<1>3. OrderKnown(h)'
  BY <1>1, <1>2 DEF OrderKnown, Order
<1>4. LogKnown(h)'
  BY <1>1, <1>3 DEF LogKnown, AppendKnown, ReadKnown, CycleKnown, SellKnown, BuyKnown, Cycling
<1>5. pc[h] \notin Trading
  BY <1>1 DEF Trading
<1>6. QED BY <1>1, <1>4, <1>5, LogOutside DEF RequestOrder, storeVars, ghostVars

(* A request for a cycle appends nothing.                                  *)
LEMMA RequestTickLog ==
  ASSUME IInv, LogInv, NEW h \in Handlers, RequestTick(h)
  PROVE  LogInv'
<1>1. /\ pc[h] = "idle" /\ pc'[h] = "tick"
      /\ \A g \in Handlers \ {h} : pc'[g] = pc[g] /\ work'[g] = work[g]
  BY DEF RequestTick, Become, IInv, Types
<1>2. LogKnown(h)'
  BY <1>1, NothingKnown DEF LogKnown, OrderKnown, AppendKnown, ReadKnown, CycleKnown, SellKnown, BuyKnown, Cycling
<1>3. pc[h] \notin Trading
  BY <1>1 DEF Trading
<1>4. QED BY <1>1, <1>2, <1>3, LogOutside DEF RequestTick, storeVars, ghostVars

(* A reader takes the whole log of its account.                            *)
LEMMA RequestReadLog ==
  ASSUME IInv, LogInv, NEW h \in Handlers, NEW a \in Accounts, RequestRead(h, a)
  PROVE  LogInv'
<1>1. /\ pc[h] = "idle" /\ pc'[h] = "read" /\ UNCHANGED <<trades, resets>>
      /\ work'[h] = [kind |-> "read", account |-> a, rows |-> RowsOf(a), resets |-> resets]
      /\ \A g \in Handlers \ {h} : pc'[g] = pc[g] /\ work'[g] = work[g]
  BY DEF RequestRead, Become, IInv, Types, storeVars, ghostVars
<1>2. work'[h].account = a /\ work'[h].rows = RowsOf(a) /\ work'[h].resets = resets
  BY <1>1
<1>3. ReadKnown(h)'
  <2>1. IsRows(trades) /\ resets \in Nat
    BY DEF IInv, Types
  <2>2. /\ DOMAIN RowsOf(a) = {i \in 1 .. Len(trades) : trades[i].account = a}
        /\ \A i \in DOMAIN RowsOf(a) : RowsOf(a)[i] = trades[i]
        /\ Len(trades) \in Nat
    BY <2>1, RowsOfFact
  <2>3. DOMAIN RowsOf(a) = {i \in DOMAIN RowsOf(a) : i <= Len(trades)} /\ Len(trades) \in 0 .. Len(trades)
    BY <2>2
  <2>4. Snapshot(a, RowsOf(a))
    BY <2>2, <2>3 DEF Snapshot
  <2>5. \A r : Snapshot(a, r)' <=> Snapshot(a, r)
    <3>1. RowsOf(a)' = RowsOf(a)
      BY <1>1 DEF RowsOf, RestrictValues, Restrict
    <3>2. QED BY <1>1, <3>1 DEF Snapshot
  <2>6. QED BY <1>1, <1>2, <2>1, <2>4, <2>5 DEF ReadKnown
<1>4. LogKnown(h)'
  BY <1>1, <1>3 DEF LogKnown, OrderKnown, AppendKnown, CycleKnown, SellKnown, BuyKnown, Cycling
<1>5. pc[h] \notin Trading
  BY <1>1 DEF Trading
<1>6. QED BY <1>1, <1>4, <1>5, LogOutside DEF RequestRead, storeVars, ghostVars

(* A read that ends appends nothing.                                       *)
LEMMA FinishReadLog ==
  ASSUME IInv, LogInv, NEW h \in Handlers, FinishRead(h)
  PROVE  LogInv'
<1>1. /\ pc[h] = "read" /\ pc'[h] = "idle"
      /\ \A g \in Handlers \ {h} : pc'[g] = pc[g] /\ work'[g] = work[g]
  BY DEF FinishRead, Become, IInv, Types
<1>2. LogKnown(h)'
  BY <1>1 DEF LogKnown, OrderKnown, AppendKnown, ReadKnown, CycleKnown, SellKnown, BuyKnown, Cycling
<1>3. pc[h] \notin Trading
  BY <1>1 DEF Trading
<1>4. QED BY <1>1, <1>2, <1>3, LogOutside DEF FinishRead, storeVars, ghostVars

(* The row of an accepted order fits.                                      *)
LEMMA LoadOrderLog ==
  ASSUME IInv, LogInv, NEW h \in Handlers, LoadOrder(h)
  PROVE  LogInv'
<1>1. /\ pc[h] = "order" /\ UNCHANGED <<file, storeVars, ghostVars>>
      /\ \A g \in Handlers \ {h} : pc'[g] = pc[g] /\ work'[g] = work[g]
  BY DEF LoadOrder, Become, IInv, Types
<1>2. pc[h] \notin Trading
  BY <1>1 DEF Trading
<1>3. LogKnown(h)'
  <2>1. CASE /\ Accepted(work[h].file, work[h].order)
             /\ Become(h, "append", [kind |-> "fill", row |-> FillRow(work[h].file, work[h].order)])
    <3>1. pc'[h] = "append" /\ work'[h].row = FillRow(work[h].file, work[h].order)
      BY <2>1 DEF Become, IInv, Types
    <3>2. /\ work[h].file \in Files /\ work[h].order.account = "user"
          /\ work[h].order.ticker \in Tickers /\ work[h].order.side \in Sides
      BY <1>1 DEF IInv, Knows, LogInv, LogKnown, OrderKnown
    <3>3. PICK row, f, order :
             row = FillRow(f, order) /\ f = work[h].file /\ order = work[h].order /\ row = work'[h].row
      BY <3>1
    <3>4. Fits(row)
      BY <2>1, <3>2, <3>3, AcceptedFits DEF Accounts
    <3>5. Fits(row)'
      <4>1. LoadAccount(row.account)' = LoadAccount(row.account)
        BY <1>1, AccountsKept DEF storeVars
      <4>2. QED BY <3>4, <4>1 DEF Fits
    <3>6. AppendKnown(h)'
      BY <3>3, <3>5 DEF AppendKnown
    <3>7. QED BY <3>1, <3>6 DEF LogKnown, OrderKnown, ReadKnown, CycleKnown, SellKnown, BuyKnown, Cycling
  <2>2. CASE Become(h, "idle", Idle)
    <3>1. pc'[h] = "idle"
      BY <2>2 DEF Become, IInv, Types
    <3>2. QED BY <3>1 DEF LogKnown, OrderKnown, AppendKnown, ReadKnown, CycleKnown, SellKnown, BuyKnown, Cycling
  <2>3. QED BY <2>1, <2>2 DEF LoadOrder
<1>4. QED BY <1>1, <1>2, <1>3, LogOutside DEF storeVars, ghostVars

(* A catch-up starts with bars and a preset there are.                     *)
LEMMA BeginCatchUpLog ==
  ASSUME IInv, LogInv, NEW h \in Handlers, BeginCatchUp(h)
  PROVE  LogInv'
<1> DEFINE f == IF work[h].file = 0 THEN file ELSE work[h].file
           dates == PendingDates(f, lastRun)
<1>1. /\ pc[h] = "tick" /\ UNCHANGED <<file, storeVars, ghostVars>>
      /\ Become(h, "idle", Idle) \/ Become(h, "cycle", Cycle(f, dates, preset))
  BY DEF BeginCatchUp
<1>2. \A g \in Handlers \ {h} : pc'[g] = pc[g] /\ work'[g] = work[g]
  BY <1>1 DEF Become, IInv, Types
<1>3. pc[h] \notin Trading
  BY <1>1 DEF Trading
<1>4. f \in Files /\ preset \in Presets
  BY <1>1 DEF IInv, Types, Knows, LogInv
<1> HIDE DEF f, dates
<1>5. LogKnown(h)'
  <2>1. CASE Become(h, "idle", Idle)
    <3>1. pc'[h] = "idle"
      BY <2>1 DEF Become, IInv, Types
    <3>2. QED BY <3>1 DEF LogKnown, OrderKnown, AppendKnown, ReadKnown, CycleKnown, SellKnown, BuyKnown, Cycling
  <2>2. CASE Become(h, "cycle", Cycle(f, dates, preset))
    <3>1. pc'[h] = "cycle" /\ work'[h].file = f /\ work'[h].preset = preset
      BY <2>2 DEF Become, Cycle, IInv, Types
    <3>2. QED BY <1>4, <3>1 DEF LogKnown, OrderKnown, AppendKnown, ReadKnown, CycleKnown, SellKnown, BuyKnown, Cycling
  <2>3. QED BY <1>1, <2>1, <2>2
<1>6. QED BY <1>1, <1>2, <1>3, <1>5, LogOutside DEF storeVars, ghostVars


-----------------------------------------------------------------------------
(* The steps that append a row, under the lock.                            *)

(* What a step does to the log, when it is no reset.                       *)
LogStep == trades' = trades \/ \E row : Fits(row) /\ trades' = Append(trades, row)

(* And what a purchase of the autopilot does.                              *)
Bought(h) ==
  \/ trades' = trades
  \/ \E row : /\ Fits(row) /\ row.account = "ai" /\ row.side = "buy"
              /\ Wanted(work[h].preset, work[h].held, work[h].sold, row.ticker)
              /\ trades' = Append(trades, row)

(* What a reader has read stays the log up to some id.                     *)
LEMMA SnapshotKept ==
  ASSUME IsRows(trades), NEW a, NEW rows, Snapshot(a, rows), NEW row, trades' = Append(trades, row)
  PROVE  Snapshot(a, rows)'
<1>1. /\ IsRows(trades') /\ Len(trades) \in Nat
      /\ DOMAIN trades = 1 .. Len(trades) /\ DOMAIN trades' = 1 .. Len(trades) + 1
      /\ Len(trades') = Len(trades) + 1
      /\ \A i \in 1 .. Len(trades) : trades'[i] = trades[i]
  BY AppendRow
<1>2. PICK n \in 0 .. Len(trades) :
        /\ DOMAIN rows = {i \in DOMAIN RowsOf(a) : i <= n}
        /\ \A i \in DOMAIN rows : rows[i] = trades[i]
  BY DEF Snapshot
<1>3. DOMAIN RowsOf(a) = {i \in 1 .. Len(trades) : trades[i].account = a}
  BY RowsOfFact
<1>4. DOMAIN RowsOf(a)' = {i \in 1 .. Len(trades) + 1 : trades'[i].account = a}
  <2>1. RowsOf(a)' = [i \in {j \in DOMAIN trades' : trades'[j].account = a} |-> trades'[i]]
    BY DEF RowsOf, RestrictValues, Restrict
  <2>2. QED BY <1>1, <2>1
<1>5. n \in 0 .. Len(trades') /\ DOMAIN rows = {i \in DOMAIN RowsOf(a)' : i <= n}
  <2>1. \A i : i \in DOMAIN rows <=> i \in DOMAIN RowsOf(a)' /\ i <= n
    BY <1>1, <1>2, <1>3, <1>4
  <2>2. QED BY <1>1, <1>2, <1>3, <1>4, <2>1
<1>6. \A i \in DOMAIN rows : rows[i] = trades'[i]
  BY <1>1, <1>2, <1>3
<1>7. QED BY <1>5, <1>6 DEF Snapshot

(* The holder of the lock appends a row that fits.                         *)
LEMMA LogAppended ==
  ASSUME IInv, LogInv, NEW h \in Handlers, lock = h, NEW row, Fits(row), trades' = Append(trades, row),
         UNCHANGED <<initial, preset, lastRun, resets, crashes, cycles>>,
         \A g \in Handlers \ {h} : pc'[g] = pc[g] /\ work'[g] = work[g],
         pc[h] \in Trading => pc'[h] \in Trading /\ work'[h].dates = work[h].dates,
         LogKnown(h)'
  PROVE  LogInv'
<1>1. IsRows(trades)
  BY DEF IInv, Types
<1>2. RowsRecordCash'
  BY <1>1, AppendFits DEF LogInv
<1>3. \A i \in DOMAIN trades' : IsRow(trades'[i])
  <2>1. /\ DOMAIN trades = 1 .. Len(trades) /\ DOMAIN trades' = 1 .. Len(trades) + 1
        /\ Len(trades) \in Nat
        /\ \A i \in DOMAIN trades : trades'[i] = trades[i]
        /\ trades'[Len(trades) + 1] = row
    BY <1>1, AppendRow
  <2>2. TAKE i \in DOMAIN trades'
  <2>3. i \in DOMAIN trades \/ i = Len(trades) + 1
    BY <2>1, <2>2
  <2>4. IsRow(row)
    BY DEF Fits
  <2>5. QED BY <2>1, <2>3, <2>4 DEF LogInv
<1>4. ASSUME NEW g \in Handlers \ {h} PROVE LogKnown(g)'
  <2>1. pc[g] \notin Guarded /\ pc'[g] = pc[g] /\ work'[g] = work[g] /\ resets' = resets
    BY DEF IInv, Exclusive
  <2>2. OrderKnown(g) /\ ReadKnown(g)
    BY DEF LogInv, LogKnown
  <2>3. OrderKnown(g)'
    BY <2>1, <2>2 DEF OrderKnown
  <2>4. ReadKnown(g)'
    <3>1. PICK a, rows : a = work[g].account /\ rows = work[g].rows
      OBVIOUS
    <3>2. Snapshot(a, rows) => Snapshot(a, rows)'
      BY <1>1, SnapshotKept
    <3>3. pc[g] = "read" => /\ work[g].resets \in 0 .. resets
                            /\ work[g].resets = resets => a \in Accounts /\ Snapshot(a, rows)
      BY <2>2, <3>1 DEF ReadKnown
    <3>4. a = work'[g].account /\ rows = work'[g].rows
      BY <2>1, <3>1
    <3>5. pc'[g] = "read" => /\ work'[g].resets \in 0 .. resets'
                             /\ work'[g].resets = resets' => a \in Accounts /\ Snapshot(a, rows)'
      BY <2>1, <3>2, <3>3
    <3>6. QED BY <3>4, <3>5 DEF ReadKnown
  <2>5. AppendKnown(g)' /\ CycleKnown(g)' /\ SellKnown(g)' /\ BuyKnown(g)'
    BY <2>1 DEF AppendKnown, CycleKnown, SellKnown, BuyKnown, Guarded, Cycling
  <2>6. QED BY <2>3, <2>4, <2>5 DEF LogKnown
<1>5. CyclesCounted'
  <2>1. CyclesCounted
    BY DEF LogInv
  <2>2. \A g \in Handlers : /\ pc[g] \in Trading => pc'[g] \in Trading
                            /\ pc[g] \in Trading => work'[g].dates = work[g].dates
    OBVIOUS
  <2>3. QED BY <2>1, <2>2, CountsKept
<1>6. preset' \in Presets /\ crashes' \in Nat
  BY DEF LogInv
<1>7. QED BY <1>2, <1>3, <1>4, <1>5, <1>6 DEF LogInv

(* The row of an order is appended; its account has not changed meanwhile. *)
LEMMA AppendOrderLog ==
  ASSUME IInv, LogInv, NEW h \in Handlers, AppendOrder(h)
  PROVE  LogInv' /\ LogStep
<1>1. /\ pc[h] = "append" /\ pc'[h] = "idle" /\ trades' = Append(trades, work[h].row)
      /\ UNCHANGED <<initial, preset, lastRun, resets, crashes, cycles>>
      /\ \A g \in Handlers \ {h} : pc'[g] = pc[g] /\ work'[g] = work[g]
  BY DEF AppendOrder, Become, IInv, Types, ghostVars
<1>2. lock = h /\ Fits(work[h].row)
  BY <1>1 DEF IInv, Exclusive, Guarded, LogInv, LogKnown, AppendKnown
<1>3. LogKnown(h)'
  BY <1>1 DEF LogKnown, OrderKnown, AppendKnown, ReadKnown, CycleKnown, SellKnown, BuyKnown, Cycling
<1>4. pc[h] \notin Trading
  BY <1>1 DEF Trading
<1>5. LogInv'
  BY <1>1, <1>2, <1>3, <1>4, LogAppended
<1>6. QED BY <1>1, <1>2, <1>5 DEF LogStep

(* A row of the autopilot's cycle.                                         *)
LEMMA CycleRow ==
  ASSUME IInv, LogInv, NEW h \in Handlers, pc[h] \in Trading,
         NEW t \in Tickers, NEW side \in Sides, NEW n, NEW order, NEW row,
         order = Order("ai", t, side, n, CycleDate(h)),
         Accepted(work[h].file, order), row = FillRow(work[h].file, order)
  PROVE  /\ Fits(row) /\ n \in WholeLots
         /\ row.account = "ai" /\ row.ticker = t /\ row.side = side /\ row.shares = n
         /\ row.date = CycleDate(h)
<1>1. /\ order.account = "ai" /\ order.ticker = t /\ order.side = side /\ order.shares = n
      /\ order.date = CycleDate(h)
  BY DEF Order
<1>2. work[h].file \in Files
  BY DEF LogInv, LogKnown, CycleKnown, Trading, Cycling
<1>3. Fits(row)
  BY <1>1, <1>2, AcceptedFits DEF Accounts
<1>4. CycleDate(h) # NoDate
  BY CycleDateFact, DatesAssumption DEF NoDate, Dates, Trading, Cycling
<1>5. n \in WholeLots
  BY <1>1 DEF Accepted, Orderable
<1>6. row.shares = n
  BY <1>1 DEF FillRow, PricedOrder
<1>7. QED BY <1>1, <1>3, <1>4, <1>5, <1>6, FillRowFact

-----------------------------------------------------------------------------
(* The steps of a cycle.                                                   *)

(* The book as of the date decides the sales, if it can be rebuilt.        *)
LEMMA BeginCycleLog ==
  ASSUME IInv, LogInv, NEW h \in Handlers, BeginCycle(h)
  PROVE  LogInv'
<1>1. /\ pc[h] = "cycle" /\ UNCHANGED <<file, trades, initial, preset, lastRun, resets, crashes>>
      /\ \A g \in Handlers \ {h} : pc'[g] = pc[g] /\ work'[g] = work[g]
  BY DEF BeginCycle, Become, Abort, IInv, Types, storeVars
<1>2. pc[h] \in Cycling /\ pc[h] \notin Trading
  BY <1>1 DEF Cycling, Trading
<1>3. CASE AiAccount(h).ok
  <2> DEFINE d == CycleDate(h)
             book == AiAccount(h).book
  <2>1. /\ pc'[h] = "sell" /\ cycles' = [cycles EXCEPT ![d] = @ + 1]
        /\ work' = [work EXCEPT ![h] = [work[h] EXCEPT
                      !.sells = SellList(work[h].file, work[h].preset, d, book), !.shares = book.shares]]
    BY <1>3 DEF BeginCycle, Become, IInv, Types
  <2>2. /\ work'[h].sells = SellList(work[h].file, work[h].preset, d, book)
        /\ work'[h].shares = book.shares /\ work'[h].dates = work[h].dates
        /\ work'[h].file = work[h].file /\ work'[h].preset = work[h].preset
    <3>1. IsCycle(work[h]) /\ work = [g \in Handlers |-> work[g]]
      BY <1>2 DEF IInv, Knows, Types
    <3>2. work'[h] = [work[h] EXCEPT !.sells = SellList(work[h].file, work[h].preset, d, book), !.shares = book.shares]
      BY <2>1, <3>1
    <3>3. QED BY <3>1, <3>2 DEF IsCycle
  <2>3. CycleDate(h)' = d
    BY <2>2 DEF CycleDate
  <2>4. AiAccount(h)' = AiAccount(h)
    BY <1>1, <2>3, AccountsKept DEF AiAccount
  <2>5. SellKnown(h)'
    <3>1. book.shares \in [Tickers -> Nat]
      BY AccountShares DEF IInv, Types, LogInv, HasShares, AiAccount
    <3>2. work'[h].sells \subseteq DOMAIN TickerOrder
      BY <2>2 DEF SellList
    <3>3. \A i \in work'[h].sells : work'[h].shares[TickerOrder[i]] <= book.shares[TickerOrder[i]]
      BY <2>2, <3>1, <3>2, TickersAssumption
    <3>4. QED BY <1>3, <2>4, <3>2, <3>3 DEF SellKnown
  <2>6. CycleKnown(h)
    BY DEF LogInv, LogKnown
  <2>7. LogKnown(h)'
    BY <1>2, <2>1, <2>2, <2>5, <2>6 DEF LogKnown, OrderKnown, AppendKnown, ReadKnown, CycleKnown, BuyKnown, Cycling
  <2>8. CyclesCounted'
    <3>1. \A g \in Handlers : pc[g] \notin Trading
      BY <1>1 DEF IInv, Exclusive, Guarded, Cycling, Trading
    <3>2. d \in Dates /\ ~(d <= lastRun)
      BY <1>2, CycleDateFact, DatesAssumption DEF IInv, Types, Dates
    <3>3. \A e \in Dates : \/ cycles[e] <= crashes
                           \/ cycles[e] <= crashes + 1 /\ e <= lastRun
      BY <3>1 DEF LogInv, CyclesCounted
    <3>4. cycles \in [Dates -> Nat] /\ crashes \in Nat
      BY DEF IInv, Types, LogInv
    <3>5. \A e \in Dates \ {d} : cycles'[e] = cycles[e]
      BY <2>1, <3>4
    <3>6. cycles'[d] <= crashes + 1
      BY <2>1, <3>2, <3>3, <3>4
    <3>7. d = CycleDate(h)' /\ pc'[h] \in Trading
      BY <2>1, <2>3 DEF Trading
    <3> HIDE DEF d
    <3>8. QED BY <1>1, <3>3, <3>5, <3>6, <3>7 DEF CyclesCounted
  <2>9. QED BY <1>1, <2>7, <2>8, LogLeft
<1>4. CASE ~AiAccount(h).ok
  <2>1. pc'[h] = "idle" /\ cycles' = cycles
    BY <1>4 DEF BeginCycle, Become, Abort, IInv, Types
  <2>2. LogKnown(h)'
    BY <2>1 DEF LogKnown, OrderKnown, AppendKnown, ReadKnown, CycleKnown, SellKnown, BuyKnown, Cycling
  <2>3. QED BY <1>1, <1>2, <2>1, <2>2, LogOutside
<1>5. QED BY <1>3, <1>4

(* A sale is executed on the account as of the date as well, and takes     *)
(* nothing from the sales that follow; a refused one is passed over.       *)
LEMMA SellNextLog ==
  ASSUME IInv, LogInv, NEW h \in Handlers, SellNext(h)
  PROVE  LogInv' /\ LogStep
<1> DEFINE d     == CycleDate(h)
           next  == Min(work[h].sells)
           t     == TickerOrder[next]
           order == Order("ai", t, "sell", work[h].shares[t], d)
           row   == FillRow(work[h].file, order)
           sells == Accepted(work[h].file, order)
<1>1. pc[h] = "sell" /\ work[h].sells # {} /\ UNCHANGED <<initial, preset, lastRun, resets, crashes, cycles>>
  BY DEF SellNext
<1>2. pc[h] \in Cycling /\ pc[h] \in Trading
  BY <1>1 DEF Cycling, Trading
<1>3. LoadAccount("ai").ok
  BY LoadsOk DEF LogInv, IInv, Types, Accounts
<1>4. /\ pc' = [pc EXCEPT ![h] = "sell"]
      /\ work' = [work EXCEPT ![h] = [work[h] EXCEPT !.sells = @ \ {next},
                                                     !.sold  = IF sells THEN @ \cup {t} ELSE @]]
      /\ trades' = IF sells THEN Append(trades, row) ELSE trades
  BY <1>3 DEF SellNext, Become
<1>5. /\ pc'[h] = "sell"
      /\ work'[h].sells = work[h].sells \ {next}
      /\ work'[h].shares = work[h].shares /\ work'[h].dates = work[h].dates
      /\ work'[h].file = work[h].file /\ work'[h].preset = work[h].preset
      /\ \A g \in Handlers \ {h} : pc'[g] = pc[g] /\ work'[g] = work[g]
  <2>1. IsCycle(work[h]) /\ work = [g \in Handlers |-> work[g]] /\ pc \in [Handlers -> Requests]
    BY <1>2 DEF IInv, Knows, Types
  <2>2. work'[h] = [work[h] EXCEPT !.sells = @ \ {next}, !.sold  = IF sells THEN @ \cup {t} ELSE @]
    BY <1>4, <2>1
  <2> HIDE DEF next, t, order, row, sells
  <2>3. QED BY <1>4, <2>1, <2>2 DEF IsCycle
<1>6. /\ AiAccount(h).ok /\ work[h].sells \subseteq DOMAIN TickerOrder
      /\ \A i \in work[h].sells :
           work[h].shares[TickerOrder[i]] <= AiAccount(h).book.shares[TickerOrder[i]]
  BY <1>1 DEF LogInv, LogKnown, SellKnown
<1>7. next \in work[h].sells /\ t \in Tickers
  <2>1. DOMAIN TickerOrder \subseteq Nat
    BY TickersAssumption
  <2>2. next \in work[h].sells
    BY <1>1, <1>6, <2>1, MinFact
  <2>3. QED BY <1>6, <2>2, TickersAssumption
<1>8. CycleDate(h)' = d
  BY <1>5 DEF CycleDate
<1>9. CycleKnown(h)
  BY DEF LogInv, LogKnown
<1>10. SellKnown(h)' => LogKnown(h)'
  BY <1>2, <1>5, <1>9 DEF LogKnown, OrderKnown, AppendKnown, ReadKnown, CycleKnown, BuyKnown, Cycling
<1> HIDE DEF next, order, row, d
<1>11. CASE ~sells
  <2>1. trades' = trades
    BY <1>4, <1>11
  <2>2. AiAccount(h)' = AiAccount(h)
    BY <1>1, <1>8, <2>1, AccountsKept DEF AiAccount, d
  <2>3. SellKnown(h)'
    BY <1>5, <1>6, <2>2 DEF SellKnown
  <2>4. CyclesCounted'
    <3>1. CyclesCounted
      BY DEF LogInv
    <3>2. \A g \in Handlers : /\ pc[g] \in Trading => pc'[g] \in Trading
                              /\ pc[g] \in Trading => work'[g].dates = work[g].dates
      BY <1>5 DEF Trading
    <3>3. QED BY <1>1, <3>1, <3>2, CountsKept
  <2>5. LogInv'
    BY <1>1, <1>5, <1>10, <2>1, <2>3, <2>4, LogLeft
  <2>6. QED BY <2>1, <2>5 DEF LogStep
<1>12. CASE sells
  <2>1. trades' = Append(trades, row)
    BY <1>4, <1>12
  <2>2. /\ Fits(row) /\ work[h].shares[t] \in WholeLots
        /\ row.account = "ai" /\ row.ticker = t /\ row.side = "sell" /\ row.shares = work[h].shares[t]
        /\ row.date = d
    <3>1. "sell" \in Sides
      BY DEF Sides
    <3> HIDE DEF t
    <3>2. QED BY <1>2, <1>7, <1>12, <3>1, CycleRow DEF order, row, sells, d
  <2>3. /\ AiAccount(h)' = ReplayRow(AiAccount(h), row)
    <3>1. row.date <= d
      BY <1>2, <2>2, CycleDateFact, DatesAssumption DEF d, Dates
    <3>2. IsRows(trades)
      BY DEF IInv, Types
    <3>3. \A e : AccountAsOf("ai", e)' = IF row.account = "ai" /\ row.date <= e
                                           THEN ReplayRow(AccountAsOf("ai", e), row) ELSE AccountAsOf("ai", e)
      BY <1>1, <2>1, <3>2, AppendAsOf
    <3>4. PICK e : e = d /\ CycleDate(h)' = e /\ CycleDate(h) = e
      BY <1>8 DEF d
    <3>5. AiAccount(h) = AccountAsOf("ai", e) /\ AiAccount(h)' = AccountAsOf("ai", e)'
      BY <3>4 DEF AiAccount
    <3>6. QED BY <2>2, <3>1, <3>3, <3>4, <3>5
  <2>4. SellKnown(h)'
    <3>1. PICK acc, shares : acc = AiAccount(h) /\ shares = acc.book.shares
      OBVIOUS
    <3>2. shares \in [Tickers -> Nat]
      BY <3>1, AccountShares DEF IInv, Types, LogInv, HasShares, AiAccount
    <3>3. work[h].shares[t] <= shares[t] /\ acc.ok
      BY <1>6, <1>7, <3>1
    <3>4. Refusal(acc.book, row) = "none"
      BY <2>2, <3>1, <3>3 DEF Refusal, CanSell
    <3>5. AiAccount(h)' = [acc EXCEPT !.book = Execute(@, row)]
      BY <2>3, <3>1, <3>3, <3>4 DEF ReplayRow
    <3>6. acc = [ok |-> acc.ok, book |-> acc.book]
      <4>1. PICK rows, cash : rows = RowsAsOf("ai", d) /\ cash = initial["ai"]
        OBVIOUS
      <4>2. PICK n \in Nat : acc = Replayed(rows, cash)[n]
        <5>1. /\ \A i : i \in DOMAIN rows <=> i \in 1 .. Len(trades) /\ trades[i].account = "ai" /\ trades[i].date <= d
              /\ Len(trades) \in Nat
          <6>1. /\ \A i : i \in DOMAIN RowsAsOf("ai", d) <=> i \in 1 .. Len(trades) /\ trades[i].account = "ai" /\ trades[i].date <= d
                /\ \A i \in DOMAIN RowsAsOf("ai", d) : RowsAsOf("ai", d)[i] = trades[i]
                /\ Len(trades) \in Nat
            BY RowsAsOfFact DEF IInv, Types
          <6>2. QED BY <4>1, <6>1
        <5>2. acc = Replay(rows, cash)
          BY <3>1, <4>1 DEF AiAccount, AccountAsOf, d
        <5>3. PICK n \in Nat : n = Len(trades)
          BY <5>1
        <5>4. acc = Replayed(rows, cash)[n]
          BY <5>1, <5>2, <5>3, ReplayAt
        <5>5. QED BY <5>4
      <4>3. QED BY <4>2, ReplayedForm
    <3>7. AiAccount(h)'.ok /\ AiAccount(h)'.book.shares = [shares EXCEPT ![t] = @ - work[h].shares[t]]
      <4>1. AiAccount(h)'.ok /\ AiAccount(h)'.book = Execute(acc.book, row)
        BY <3>3, <3>5, <3>6
      <4>2. Execute(acc.book, row).shares = [shares EXCEPT ![t] = @ - work[h].shares[t]]
        BY <2>2, <3>1 DEF Execute, AfterSell
      <4>3. QED BY <4>1, <4>2
    <3>8. \A i \in work'[h].sells : i \in work[h].sells /\ TickerOrder[i] # t /\ TickerOrder[i] \in Tickers
      BY <1>5, <1>6, <1>7, TickersAssumption DEF IsInjective
    <3>9. \A i \in work'[h].sells : AiAccount(h)'.book.shares[TickerOrder[i]] = shares[TickerOrder[i]]
      BY <3>2, <3>7, <3>8
    <3>10. \A i \in work'[h].sells : work'[h].shares[TickerOrder[i]] <= AiAccount(h)'.book.shares[TickerOrder[i]]
      BY <1>5, <1>6, <3>1, <3>8, <3>9
    <3>11. QED BY <1>5, <1>6, <3>7, <3>10 DEF SellKnown
  <2>5. lock = h
    BY <1>1 DEF IInv, Exclusive, Guarded, Cycling
  <2>6. pc'[h] \in Trading /\ work'[h].dates = work[h].dates
    BY <1>5 DEF Trading
  <2>7. LogInv'
    BY <1>1, <1>5, <1>10, <2>1, <2>2, <2>4, <2>5, <2>6, LogAppended
  <2>8. QED BY <2>1, <2>2, <2>7 DEF LogStep
<1>13. QED BY <1>11, <1>12

(* After the sales, what the book holds is taken down.                     *)
LEMMA BeginBuysLog ==
  ASSUME IInv, LogInv, NEW h \in Handlers, BeginBuys(h)
  PROVE  LogInv'
<1> DEFINE d == CycleDate(h)
           w == work[h]
           book == AiAccount(h).book
<1>1. /\ pc[h] = "sell" /\ UNCHANGED <<file, trades, initial, preset, lastRun, resets, crashes, cycles>>
      /\ AiAccount(h).ok
  BY DEF BeginBuys, storeVars, LogInv, LogKnown, SellKnown
<1>2. pc[h] \in Cycling /\ pc[h] \in Trading
  BY <1>1 DEF Cycling, Trading
<1>3. /\ pc' = [pc EXCEPT ![h] = "buy"]
      /\ work' = [work EXCEPT ![h] = [w EXCEPT
                    !.rank   = DOMAIN Candidates(w.file, w.preset, d),
                    !.held   = Held(book),
                    !.equity = Equity(w.file, book, d)]]
  BY <1>1 DEF BeginBuys, Become
<1>4. /\ pc'[h] = "buy"
      /\ work'[h].rank = DOMAIN Candidates(w.file, w.preset, d) /\ work'[h].held = Held(book)
      /\ work'[h].dates = w.dates /\ work'[h].file = w.file /\ work'[h].preset = w.preset
      /\ \A g \in Handlers \ {h} : pc'[g] = pc[g] /\ work'[g] = work[g]
  <2>1. IsCycle(work[h]) /\ work = [g \in Handlers |-> work[g]] /\ pc \in [Handlers -> Requests]
    BY <1>2 DEF IInv, Knows, Types
  <2>2. work'[h] = [w EXCEPT !.rank = DOMAIN Candidates(w.file, w.preset, d), !.held = Held(book),
                             !.equity = Equity(w.file, book, d)]
    BY <1>3, <2>1
  <2> HIDE DEF d, book
  <2>3. QED BY <1>3, <2>1, <2>2 DEF IsCycle
<1>5. CycleDate(h)' = d
  BY <1>4 DEF CycleDate
<1>6. BuyKnown(h)'
  <2>1. NothingLater(h)' <=> NothingLater(h)
    BY <1>1, <1>5, AccountsKept DEF NothingLater
  <2>2. NothingLater(h) => book = LoadAccount("ai").book
    BY AsOfLatest DEF NothingLater, AiAccount, IInv, Types
  <2>3. LoadAccount("ai")' = LoadAccount("ai")
    BY <1>1, AccountsKept
  <2>4. Held(book) \subseteq Tickers
    BY DEF Held
  <2>5. work'[h].rank = DOMAIN Candidates(work'[h].file, work'[h].preset, CycleDate(h)')
    BY <1>4, <1>5
  <2> HIDE DEF book, d
  <2>6. NothingLater(h)' => work'[h].held = Held(LoadAccount("ai")'.book)
    BY <1>4, <2>1, <2>2, <2>3
  <2>7. QED BY <1>4, <2>4, <2>5, <2>6 DEF BuyKnown
<1>7. LogKnown(h)'
  <2>1. CycleKnown(h)
    BY DEF LogInv, LogKnown
  <2>2. QED BY <1>2, <1>4, <1>6, <2>1 DEF LogKnown, OrderKnown, AppendKnown, ReadKnown, CycleKnown, SellKnown, Cycling
<1>8. CyclesCounted'
  <2>1. CyclesCounted
    BY DEF LogInv
  <2>2. \A g \in Handlers : /\ pc[g] \in Trading => pc'[g] \in Trading
                            /\ pc[g] \in Trading => work'[g].dates = work[g].dates
    BY <1>4 DEF Trading
  <2>3. QED BY <1>1, <2>1, <2>2, CountsKept
<1>9. QED BY <1>1, <1>4, <1>7, <1>8, LogLeft

(* The tickers held after a purchase.                                      *)
LEMMA HeldAfterBuy ==
  ASSUME NEW book, book.shares \in [Tickers -> Nat], NEW row, row.side = "buy",
         row.ticker \in Tickers, row.shares \in WholeLots
  PROVE  Held(Execute(book, row)) = Held(book) \cup {row.ticker}
<1>1. Execute(book, row).shares = [book.shares EXCEPT ![row.ticker] = @ + row.shares]
  BY DEF Execute, AfterBuy
<1>2. PICK shares \in [Tickers -> Nat], t \in Tickers, n \in Nat \ {0} :
        shares = book.shares /\ t = row.ticker /\ n = row.shares
  BY DEF WholeLots
<1>3. \A u \in Tickers : [shares EXCEPT ![t] = @ + n][u] > 0 <=> shares[u] > 0 \/ u = t
  BY <1>2
<1>4. QED BY <1>1, <1>2, <1>3 DEF Held

(* What was held before a purchase and what it bought is held after it.    *)
LEMMA BuyNextLog ==
  ASSUME IInv, LogInv, NEW h \in Handlers, BuyNext(h)
  PROVE  LogInv' /\ Bought(h)
<1> DEFINE w     == work[h]
           d     == CycleDate(h)
           next  == Min(w.rank)
           t     == Ranking[w.file][w.preset][d][next]
           size  == SlotShares(w.equity, w.preset, BarFiles[w.file][t][d])
           order == Order("ai", t, "buy", size, d)
           row   == FillRow(w.file, order)
           buys  == Wanted(w.preset, w.held, w.sold, t) /\ size > 0 /\ Accepted(w.file, order)
<1>1. pc[h] = "buy" /\ w.rank # {} /\ UNCHANGED <<initial, preset, lastRun, resets, crashes, cycles>>
  BY DEF BuyNext, BuysDone
<1>2. pc[h] \in Cycling /\ pc[h] \in Trading
  BY <1>1 DEF Cycling, Trading
<1>3. LoadAccount("ai").ok
  BY LoadsOk DEF LogInv, IInv, Types, Accounts
<1>4. /\ pc' = [pc EXCEPT ![h] = "buy"]
      /\ work' = [work EXCEPT ![h] = [w EXCEPT !.rank = @ \ {next}, !.held = IF buys THEN @ \cup {t} ELSE @]]
      /\ trades' = IF buys THEN Append(trades, row) ELSE trades
  BY <1>3 DEF BuyNext, Become
<1>5. /\ pc'[h] = "buy"
      /\ work'[h].rank = w.rank \ {next} /\ work'[h].held = IF buys THEN w.held \cup {t} ELSE w.held
      /\ work'[h].dates = w.dates /\ work'[h].file = w.file /\ work'[h].preset = w.preset
      /\ \A g \in Handlers \ {h} : pc'[g] = pc[g] /\ work'[g] = work[g]
  <2>1. IsCycle(work[h]) /\ work = [g \in Handlers |-> work[g]] /\ pc \in [Handlers -> Requests]
    BY <1>2 DEF IInv, Knows, Types
  <2>2. work'[h] = [w EXCEPT !.rank = @ \ {next}, !.held = IF buys THEN @ \cup {t} ELSE @]
    BY <1>4, <2>1
  <2> HIDE DEF next, t, order, row, buys, size
  <2>3. QED BY <1>4, <2>1, <2>2 DEF IsCycle
<1>6. CycleDate(h)' = d
  BY <1>5 DEF CycleDate
<1>7. /\ w.rank \subseteq DOMAIN Candidates(w.file, w.preset, d)
      /\ w.held \subseteq Tickers
      /\ NothingLater(h) => w.held = Held(LoadAccount("ai").book)
      /\ w.file \in Files /\ w.preset \in Presets
  BY <1>1, <1>2 DEF LogInv, LogKnown, BuyKnown, CycleKnown
<1>8. t \in Tickers
  <2>1. d \in Dates
    BY <1>2, CycleDateFact
  <2>2. PICK ranking \in Seq(Tickers) : ranking = Ranking[w.file][w.preset][d]
    BY <1>7, <2>1, PresetsAssumption
  <2>3. w.rank \subseteq DOMAIN ranking
    BY <1>7, <2>2 DEF Candidates, RestrictValues, Restrict
  <2>4. next \in w.rank
    <3>1. w.rank \in SUBSET Nat
      BY <2>2, <2>3
    <3>2. QED BY <1>1, <3>1, MinFact
  <2>5. QED BY <2>2, <2>3, <2>4
<1>9. CycleKnown(h)
  BY DEF LogInv, LogKnown
<1>10. BuyKnown(h)' => LogKnown(h)'
  BY <1>2, <1>5, <1>9 DEF LogKnown, OrderKnown, AppendKnown, ReadKnown, CycleKnown, SellKnown, Cycling
<1>11. /\ work'[h].rank \subseteq DOMAIN Candidates(work'[h].file, work'[h].preset, CycleDate(h)')
       /\ work'[h].held \subseteq Tickers
  BY <1>5, <1>6, <1>7, <1>8
<1> HIDE DEF next, t, size, order, row, d, buys
<1>12. CASE ~buys
  <2>1. trades' = trades
    BY <1>4, <1>12
  <2>2. LoadAccount("ai")' = LoadAccount("ai") /\ (NothingLater(h)' <=> NothingLater(h))
    BY <1>1, <1>6, <2>1, AccountsKept DEF NothingLater, d
  <2>3. BuyKnown(h)'
    BY <1>5, <1>7, <1>11, <1>12, <2>2 DEF BuyKnown
  <2>4. CyclesCounted'
    <3>1. CyclesCounted
      BY DEF LogInv
    <3>2. \A g \in Handlers : /\ pc[g] \in Trading => pc'[g] \in Trading
                              /\ pc[g] \in Trading => work'[g].dates = work[g].dates
      BY <1>5 DEF Trading
    <3>3. QED BY <1>1, <3>1, <3>2, CountsKept
  <2>5. LogInv'
    BY <1>1, <1>5, <1>10, <2>1, <2>3, <2>4, LogLeft
  <2>6. QED BY <2>1, <2>5 DEF Bought
<1>13. CASE buys
  <2>1. trades' = Append(trades, row)
    BY <1>4, <1>13
  <2>2. /\ Fits(row) /\ size \in WholeLots
        /\ row.account = "ai" /\ row.ticker = t /\ row.side = "buy" /\ row.shares = size
        /\ row.date = d
    <3>1. "buy" \in Sides /\ Accepted(w.file, order)
      BY <1>13 DEF Sides, buys
    <3>2. QED BY <1>2, <1>8, <3>1, CycleRow DEF order, row, d
  <2>3. LoadAccount("ai")' = [ok |-> TRUE, book |-> Execute(LoadAccount("ai").book, row)]
    BY <1>1, <2>1, <2>2, AppendFits DEF IInv, Types, LogInv
  <2>4. NothingLater(h)' => NothingLater(h)
    <3>1. /\ DOMAIN trades' = 1 .. Len(trades) + 1 /\ Len(trades) \in Nat
          /\ \A i \in 1 .. Len(trades) : trades'[i] = trades[i]
      BY <2>1, AppendRow DEF IInv, Types
    <3>2. /\ DOMAIN RowsOf("ai") = {i \in 1 .. Len(trades) : trades[i].account = "ai"}
          /\ \A i \in DOMAIN RowsOf("ai") : RowsOf("ai")[i] = trades[i]
      BY RowsOfFact DEF IInv, Types
    <3>3. RowsOf("ai")' = [i \in {j \in DOMAIN trades' : trades'[j].account = "ai"} |-> trades'[i]]
      BY DEF RowsOf, RestrictValues, Restrict
    <3>4. \A i \in DOMAIN RowsOf("ai") : i \in DOMAIN RowsOf("ai")' /\ RowsOf("ai")'[i] = RowsOf("ai")[i]
      BY <3>1, <3>2, <3>3
    <3>5. Range(RowsOf("ai")) \subseteq Range(RowsOf("ai")')
      BY <3>4 DEF Range
    <3>6. QED BY <1>6, <3>5 DEF NothingLater, d
  <2>5. Held(LoadAccount("ai")'.book) = Held(LoadAccount("ai").book) \cup {t}
    <3>1. LoadAccount("ai").book.shares \in [Tickers -> Nat]
      BY AccountShares DEF IInv, Types, LogInv, HasShares
    <3>2. Held(Execute(LoadAccount("ai").book, row)) = Held(LoadAccount("ai").book) \cup {t}
      BY <1>8, <2>2, <3>1, HeldAfterBuy
    <3>3. QED BY <2>3, <3>2
  <2>6. BuyKnown(h)'
    BY <1>5, <1>7, <1>11, <1>13, <2>4, <2>5 DEF BuyKnown
  <2>7. lock = h
    BY <1>1 DEF IInv, Exclusive, Guarded, Cycling
  <2>8. pc'[h] \in Trading /\ work'[h].dates = work[h].dates
    BY <1>5 DEF Trading
  <2>9. LogInv'
    BY <1>1, <1>5, <1>10, <2>1, <2>2, <2>6, <2>7, <2>8, LogAppended
  <2>10. Wanted(w.preset, w.held, w.sold, t)
    BY <1>13 DEF buys
  <2>11. QED BY <2>1, <2>2, <2>9, <2>10 DEF Bought
<1>14. QED BY <1>12, <1>13

(* The date is recorded as run.                                            *)
LEMMA FinishCycleLog ==
  ASSUME IInv, LogInv, NEW h \in Handlers, FinishCycle(h)
  PROVE  LogInv'
<1> DEFINE left == work[h].dates \ {CycleDate(h)}
<1>1. /\ pc[h] = "buy" /\ lastRun' = CycleDate(h)
      /\ UNCHANGED <<file, trades, initial, preset, resets, crashes, cycles>>
      /\ Become(h, "idle", Idle) \/ Become(h, "cycle", Cycle(work[h].file, left, work[h].preset))
  BY DEF FinishCycle, ghostVars
<1>2. pc[h] \in Cycling
  BY <1>1 DEF Cycling
<1>3. \A g \in Handlers \ {h} : pc'[g] = pc[g] /\ work'[g] = work[g]
  BY <1>1 DEF Become, IInv, Types
<1>4. LogKnown(h)'
  <2>1. CASE Become(h, "idle", Idle)
    <3>1. pc'[h] = "idle"
      BY <2>1 DEF Become, IInv, Types
    <3>2. QED BY <3>1 DEF LogKnown, OrderKnown, AppendKnown, ReadKnown, CycleKnown, SellKnown, BuyKnown, Cycling
  <2>2. CASE Become(h, "cycle", Cycle(work[h].file, left, work[h].preset))
    <3>1. pc'[h] = "cycle" /\ work'[h].file = work[h].file /\ work'[h].preset = work[h].preset
      BY <2>2 DEF Become, Cycle, IInv, Types
    <3>2. CycleKnown(h)
      BY DEF LogInv, LogKnown
    <3>3. QED BY <1>2, <3>1, <3>2 DEF LogKnown, OrderKnown, AppendKnown, ReadKnown, CycleKnown, SellKnown, BuyKnown, Cycling
  <2>3. QED BY <1>1, <2>1, <2>2
<1>5. CyclesCounted'
  <2>1. \A g \in Handlers \ {h} : pc[g] \notin Trading
    BY <1>1 DEF IInv, Exclusive, Guarded, Cycling, Trading
  <2>2. lastRun' \in Dates /\ lastRun' > lastRun
    BY <1>1, <1>2, CycleDateFact
  <2>3. lastRun \in Int /\ lastRun' \in Int /\ Dates \subseteq Int
    BY <2>2, DatesAssumption DEF IInv, Types, Dates
  <2>4. \A e \in Dates : e <= lastRun \/ e = lastRun' => e <= lastRun'
    BY <2>2, <2>3
  <2>5. \A e \in Dates : \/ cycles[e] <= crashes
                         \/ cycles[e] <= crashes + 1 /\ (e <= lastRun \/ e = lastRun')
    BY <1>1, <2>1 DEF LogInv, CyclesCounted
  <2>6. QED BY <1>1, <2>4, <2>5 DEF CyclesCounted
<1>6. QED BY <1>1, <1>3, <1>4, <1>5, LogLeft

-----------------------------------------------------------------------------
(* The steps outside of the threads.                                       *)

(* A reset leaves no row, and readers that are behind it.                  *)
LEMMA ResetLog ==
  ASSUME IInv, LogInv, NEW cash \in Funds, Reset(cash)
  PROVE  LogInv'
<1>1. /\ LockFree /\ trades' = <<>> /\ preset' = DefaultPreset /\ resets' = resets + 1
      /\ cycles' = [d \in Dates |-> 0] /\ UNCHANGED <<file, lock, pc, work, crashes>>
  BY DEF Reset
<1>2. \A h \in Handlers : pc[h] \notin Guarded
  BY <1>1, HandlersAssumption DEF IInv, Exclusive, LockFree
<1>3. RowsRecordCash'
  <2>1. DOMAIN trades' = {}
    BY <1>1
  <2>2. \A a : RowsOf(a)' = [i \in {j \in DOMAIN trades' : trades'[j].account = a} |-> trades'[i]]
    BY DEF RowsOf, RestrictValues, Restrict
  <2>3. \A a : DOMAIN RowsOf(a)' = {}
    BY <2>1, <2>2
  <2>4. QED BY <2>3 DEF RowsRecordCash
<1>4. ASSUME NEW h \in Handlers PROVE LogKnown(h)'
  <2>1. pc'[h] = pc[h] /\ work'[h] = work[h] /\ pc[h] \notin Guarded /\ resets \in Nat
    BY <1>1, <1>2 DEF IInv, Types
  <2>2. OrderKnown(h) /\ ReadKnown(h)
    BY DEF LogInv, LogKnown
  <2>3. OrderKnown(h)' /\ ReadKnown(h)'
    BY <1>1, <2>1, <2>2 DEF OrderKnown, ReadKnown
  <2>4. AppendKnown(h)' /\ CycleKnown(h)' /\ SellKnown(h)' /\ BuyKnown(h)'
    BY <2>1 DEF AppendKnown, CycleKnown, SellKnown, BuyKnown, Guarded, Cycling
  <2>5. QED BY <2>3, <2>4 DEF LogKnown
<1>5. CyclesCounted'
  BY <1>1 DEF CyclesCounted, LogInv
<1>6. preset' \in Presets /\ crashes' \in Nat /\ \A i \in DOMAIN trades' : IsRow(trades'[i])
  BY <1>1, PresetsAssumption DEF LogInv
<1>7. QED BY <1>3, <1>4, <1>5, <1>6 DEF LogInv

(* A step that moves no thread, no row and no date.                        *)
LEMMA LogStill ==
  ASSUME LogInv, UNCHANGED <<trades, initial, lastRun, pc, work, resets, crashes, cycles>>, preset' \in Presets
  PROVE  LogInv'
<1>1. \A g \in Handlers : LogKnown(g)'
  BY ThreadKept DEF LogInv
<1>2. RowsRecordCash'
  BY AccountsKept DEF LogInv, RowsRecordCash
<1>3. CyclesCounted'
  BY CountsKept DEF LogInv
<1>4. crashes' \in Nat /\ \A i \in DOMAIN trades' : IsRow(trades'[i])
  BY DEF LogInv
<1>5. QED BY <1>1, <1>2, <1>3, <1>4 DEF LogInv

(* After a stop every thread is at rest, and one repetition more of each   *)
(* date is accounted for.                                                  *)
LEMMA CrashLog ==
  ASSUME IInv, LogInv, Crash
  PROVE  LogInv'
<1>1. /\ pc' = [h \in Handlers |-> "idle"] /\ crashes' = crashes + 1
      /\ UNCHANGED <<file, trades, initial, preset, lastRun, resets, cycles>>
  BY DEF Crash, storeVars
<1>2. \A h \in Handlers : LogKnown(h)'
  BY <1>1 DEF LogKnown, OrderKnown, AppendKnown, ReadKnown, CycleKnown, SellKnown, BuyKnown, Cycling
<1>3. RowsRecordCash'
  BY <1>1, AccountsKept DEF LogInv, RowsRecordCash
<1>4. CyclesCounted'
  <2>1. cycles \in [Dates -> Nat] /\ crashes \in Nat
    BY DEF IInv, Types, LogInv
  <2>2. \A d \in Dates : cycles[d] <= crashes + 1
    BY <2>1 DEF LogInv, CyclesCounted
  <2>3. QED BY <1>1, <2>2 DEF CyclesCounted
<1>5. preset' \in Presets /\ crashes' \in Nat /\ \A i \in DOMAIN trades' : IsRow(trades'[i])
  BY <1>1 DEF LogInv
<1>6. QED BY <1>2, <1>3, <1>4, <1>5 DEF LogInv

-----------------------------------------------------------------------------
(* The invariant is one.                                                   *)

(* An empty log replays.                                                   *)
LEMMA InitLogInv == Init => LogInv
<1> SUFFICES ASSUME Init PROVE LogInv
  OBVIOUS
<1>1. DOMAIN trades = {}
  BY DEF Init
<1>2. RowsRecordCash
  <2>1. \A a : RowsOf(a) = [i \in {j \in DOMAIN trades : trades[j].account = a} |-> trades[i]]
    BY DEF RowsOf, RestrictValues, Restrict
  <2>2. \A a : DOMAIN RowsOf(a) = {}
    BY <1>1, <2>1
  <2>3. QED BY <2>2 DEF RowsRecordCash
<1>3. \A h \in Handlers : LogKnown(h)
  BY NothingKnown DEF Init
<1>4. CyclesCounted
  BY DEF Init, CyclesCounted
<1>5. preset \in Presets /\ crashes \in Nat /\ \A i \in DOMAIN trades : IsRow(trades[i])
  BY <1>1, PresetsAssumption DEF Init
<1>6. QED BY <1>2, <1>3, <1>4, <1>5 DEF LogInv

(* No step appends a row that does not fit.                                *)
LEMMA StepLogInv == IInv /\ LogInv /\ [Next]_vars => LogInv'
<1> SUFFICES ASSUME IInv, LogInv, [Next]_vars PROVE LogInv'
  OBVIOUS
<1>1. ASSUME NEW h \in Handlers, Request(h) PROVE LogInv'
  BY <1>1, RequestOrderLog, RequestTickLog, RequestReadLog DEF Request
<1>2. ASSUME NEW h \in Handlers, LoadOrder(h) \/ AppendOrder(h) PROVE LogInv'
  BY <1>2, LoadOrderLog, AppendOrderLog
<1>3. ASSUME NEW h \in Handlers, BeginCatchUp(h) \/ CycleStep(h) PROVE LogInv'
  BY <1>3, BeginCatchUpLog, BeginCycleLog, SellNextLog, BeginBuysLog, BuyNextLog, FinishCycleLog DEF CycleStep
<1>4. ASSUME NEW h \in Handlers, FinishRead(h) PROVE LogInv'
  BY <1>4, FinishReadLog
<1>5. ASSUME NEW cash \in Funds, Reset(cash) PROVE LogInv'
  BY <1>5, ResetLog
<1>6. ASSUME NEW p \in Presets, Configure(p) PROVE LogInv'
  BY <1>6, LogStill DEF Configure, ghostVars
<1>7. CASE RefreshBars
  <2>1. preset' \in Presets
    BY <1>7 DEF RefreshBars, storeVars, LogInv
  <2>2. QED BY <1>7, <2>1, LogStill DEF RefreshBars, storeVars, ghostVars
<1>8. CASE Crash
  BY <1>8, CrashLog
<1>9. CASE UNCHANGED vars
  <2>1. preset' \in Presets
    BY <1>9 DEF vars, LogInv
  <2>2. QED BY <1>9, <2>1, LogStill DEF vars
<1>10. QED BY <1>1, <1>2, <1>3, <1>4, <1>5, <1>6, <1>7, <1>8, <1>9 DEF Next

(* Every row of the log fits the rows before it, and what each handler     *)
(* holds fits the log it was read from.                                    *)
LEMMA AlwaysLogInv == Spec => [](IInv /\ LogInv)
<1>1. Init => IInv /\ LogInv
  BY InitIInv, InitLogInv
<1>2. (IInv /\ LogInv) /\ [Next]_vars => (IInv /\ LogInv)'
  BY StepIInv, StepLogInv
<1>3. QED BY <1>1, <1>2, PTL DEF Spec

-----------------------------------------------------------------------------
(* What follows.                                                           *)

(* submit_order computes a row from the log it has loaded and appends it   *)
(* in a later transaction: whatever the threads do and wherever the        *)
(* process stops, every row records the cash its account had after it, and *)
(* _replay never meets a row it cannot execute.                            *)
THEOREM EveryRowRecordsCash == Spec => []RowsRecordCash
<1>1. LogInv => RowsRecordCash
  BY DEF LogInv
<1>2. QED BY <1>1, AlwaysLogInv, PTL

(* What a reader has read of an account is the first rows of its log.      *)
LEMMA SnapshotReplays ==
  ASSUME IsRows(trades), RowsRecordCash, NEW a \in Accounts, NEW rows, Snapshot(a, rows)
  PROVE  Replay(rows, initial[a]).ok
<1>1. PICK n \in 0 .. Len(trades) :
        /\ DOMAIN rows = {i \in DOMAIN RowsOf(a) : i <= n}
        /\ \A i \in DOMAIN rows : rows[i] = trades[i]
  BY DEF Snapshot
<1>2. PICK all, cash : all = RowsOf(a) /\ cash = initial[a]
  OBVIOUS
<1>3. /\ DOMAIN all = {i \in 1 .. Len(trades) : trades[i].account = a}
      /\ \A i \in DOMAIN all : all[i] = trades[i]
      /\ Len(trades) \in Nat
  BY <1>2, RowsOfFact
<1>4. CASE DOMAIN rows = {}
  <2>1. Replay(rows, cash) = Fresh(cash)
    BY <1>4, ReplayedSteps DEF Replay
  <2>2. QED BY <1>2, <2>1 DEF Fresh
<1>5. CASE DOMAIN rows # {}
  <2>1. Max(DOMAIN rows) \in DOMAIN rows /\ \A i \in DOMAIN rows : i <= Max(DOMAIN rows)
    <3>1. DOMAIN rows \in SUBSET (1 .. Len(trades))
      BY <1>1, <1>2, <1>3
    <3>2. QED BY <1>3, <1>5, <3>1, MaxFact
  <2>2. PICK m \in 1 .. Len(trades) : m = Max(DOMAIN rows) /\ m \in DOMAIN rows
    BY <1>1, <1>2, <1>3, <2>1
  <2>3. \A i \in 1 .. m : /\ i \in DOMAIN rows <=> i \in DOMAIN all
                          /\ i \in DOMAIN rows => rows[i] = all[i]
    <3>1. m <= n
      BY <1>1, <2>2
    <3>2. \A i \in 1 .. m : i <= n
      BY <1>1, <1>3, <2>2, <3>1
    <3>3. QED BY <1>1, <1>2, <1>3, <3>2
  <2>4. Replay(rows, cash) = Replayed(rows, cash)[m]
    BY <1>5, <2>2 DEF Replay
  <2>5. Replayed(rows, cash)[m] = Replayed(all, cash)[m]
    <3>1. PICK k \in Nat : k = m
      BY <1>3, <2>2
    <3>2. \A i \in 1 .. k : /\ i \in DOMAIN rows <=> i \in DOMAIN all
                            /\ i \in DOMAIN rows => rows[i] = all[i]
      BY <2>3, <3>1
    <3>3. \A i \in 0 .. k : Replayed(rows, cash)[i] = Replayed(all, cash)[i]
      BY <3>2, ReplayedAgree
    <3>4. QED BY <3>1, <3>3
  <2>6. m \in DOMAIN RowsOf(a)
    BY <1>1, <2>2
  <2>7. Replayed(RowsOf(a), initial[a])[m].ok
    BY <2>6 DEF RowsRecordCash
  <2>8. QED BY <1>2, <2>4, <2>5, <2>7
<1>6. QED BY <1>4, <1>5

(* build_portfolio and build_performance read the rows in one transaction  *)
(* and the opening cash in the next: without a reset in between, what they *)
(* have read replays, whatever was appended in between.                    *)
THEOREM ReadersReplay == Spec => []ReadsReplayUnlessReset
<1>1. IInv /\ LogInv => ReadsReplayUnlessReset
  <2> SUFFICES ASSUME IInv, LogInv, NEW h \in Handlers, pc[h] = "read", work[h].resets = resets
               PROVE  Replay(work[h].rows, initial[work[h].account]).ok
    BY DEF ReadsReplayUnlessReset
  <2>1. work[h].account \in Accounts /\ Snapshot(work[h].account, work[h].rows)
    BY DEF LogInv, LogKnown, ReadKnown
  <2>2. IsRows(trades) /\ RowsRecordCash
    BY DEF IInv, Types, LogInv
  <2>3. QED BY <2>1, <2>2, SnapshotReplays
<1>2. QED BY <1>1, AlwaysLogInv, PTL

(* account_as_of rebuilds the autopilot's book at the start of each cycle, *)
(* and build_performance for each point of its curve: it can, while no     *)
(* cycle was cut short.                                                    *)
THEOREM AiBookAsOfEveryDate == Spec => []AiAsOfReplays
<1>1. IInv /\ LogInv => AiAsOfReplays
  <2> SUFFICES ASSUME IInv, LogInv, ~torn, NEW d \in Dates PROVE AccountAsOf("ai", d).ok
    BY DEF AiAsOfReplays
  <2>1. IsRows(trades) /\ RowsRecordCash /\ Ordered /\ RowsPlaced
    BY DEF IInv, Types, LogInv, Whole
  <2>2. \A i \in DOMAIN trades : trades[i].account = "ai" => trades[i].date \in Dates
    BY <2>1 DEF RowsPlaced
  <2>3. QED BY <2>1, <2>2, AsOfOk
<1>2. QED BY <1>1, AlwaysLogInv, PTL

(* catch_up runs a date once, and once more for each stop of the process   *)
(* between the orders of a cycle and the record of its date.               *)
THEOREM RepeatsOncePerStop == Spec => []RunOncePerDate
<1>1. IInv /\ LogInv => RunOncePerDate
  <2> SUFFICES ASSUME IInv, LogInv, NEW d \in Dates PROVE cycles[d] <= IF torn THEN 1 + crashes ELSE 1
    BY DEF RunOncePerDate
  <2>1. cycles \in [Dates -> Nat] /\ crashes \in Nat /\ torn \in BOOLEAN
    BY DEF IInv, Types, LogInv
  <2>2. cycles[d] <= crashes + 1
    BY <2>1 DEF LogInv, CyclesCounted
  <2>3. ~torn => cycles[d] <= 1
    BY DEF IInv, Whole, CyclesPlaced
  <2>4. QED BY <2>1, <2>2, <2>3
<1>2. QED BY <1>1, AlwaysLogInv, PTL

(* A purchase counts as held what the book held and what it bought: the    *)
(* counts are one less before it.                                          *)
LEMMA BuyLimits ==
  ASSUME IInv, LogInv, NEW h \in Handlers, BuyNext(h), trades' # trades, NothingLater(h)
  PROVE  LET held == Held(LoadAccount("ai").book)'
             p    == work[h].preset
         IN  /\ Cardinality(held) <= TargetPositions[p]
             /\ SectorCount(held, Sector[Last(trades').ticker]) <= MaxPerSector[p]
<1> DEFINE p == work[h].preset
           before == work[h].held
<1>1. PICK row : /\ Fits(row) /\ row.account = "ai" /\ row.side = "buy"
                 /\ Wanted(p, before, work[h].sold, row.ticker)
                 /\ trades' = Append(trades, row)
  BY BuyNextLog DEF Bought
<1>2. PICK t \in Tickers : t = row.ticker
  BY <1>1 DEF Fits, IsRow
<1>3. /\ pc[h] = "buy" /\ ~(Cardinality(before) >= TargetPositions[p]) /\ initial' = initial
  BY DEF BuyNext, BuysDone
<1>4. before = Held(LoadAccount("ai").book) /\ before \subseteq Tickers
  BY <1>3 DEF LogInv, LogKnown, BuyKnown
<1>5. p \in Presets /\ TargetPositions[p] \in Nat /\ MaxPerSector[p] \in Nat
  BY <1>3, PresetsAssumption DEF LogInv, LogKnown, CycleKnown, Cycling
<1>6. Held(LoadAccount("ai").book)' = before \cup {t}
  <2>1. LoadAccount("ai")' = [ok |-> TRUE, book |-> Execute(LoadAccount("ai").book, row)]
    BY <1>1, <1>3, AppendFits DEF IInv, Types, LogInv
  <2>2. LoadAccount("ai").book.shares \in [Tickers -> Nat]
    BY AccountShares DEF IInv, Types, LogInv, HasShares
  <2>3. Held(Execute(LoadAccount("ai").book, row)) = Held(LoadAccount("ai").book) \cup {t}
    BY <1>1, <1>2, <2>2, HeldAfterBuy DEF Fits, IsRow
  <2>4. Held(LoadAccount("ai").book)' = Held(Execute(LoadAccount("ai").book, row))
    BY <2>1 DEF Held
  <2>5. QED BY <1>4, <2>3, <2>4
<1>7. Last(trades') = row
  <2>1. /\ Len(trades') = Len(trades) + 1 /\ trades'[Len(trades) + 1] = row
    BY <1>1, AppendRow DEF IInv, Types
  <2>2. QED BY <2>1 DEF Last
<1>8. /\ t \notin before /\ SectorCount(before, Sector[t]) < MaxPerSector[p]
  BY <1>1, <1>2 DEF Wanted
<1>9. IsFiniteSet(before) /\ Cardinality(before) \in Nat
  BY <1>4, TickersAssumption, FS_Subset, FS_CardinalityType
<1>10. Cardinality(before \cup {t}) <= TargetPositions[p]
  <2>1. Cardinality(before \cup {t}) = Cardinality(before) + 1
    BY <1>8, <1>9, FS_AddElement
  <2>2. QED BY <1>3, <1>5, <1>9, <2>1
<1>11. SectorCount(before \cup {t}, Sector[t]) <= MaxPerSector[p]
  <2> DEFINE S == {u \in before : Sector[u] = Sector[t]}
  <2>1. {u \in before \cup {t} : Sector[u] = Sector[t]} = S \cup {t}
    OBVIOUS
  <2>2. IsFiniteSet(S) /\ Cardinality(S) \in Nat
    BY <1>9, FS_Subset, FS_CardinalityType
  <2>3. t \notin S
    BY <1>8
  <2>4. Cardinality(S \cup {t}) = Cardinality(S) + 1
    BY <2>2, <2>3, FS_AddElement
  <2>5. SectorCount(before, Sector[t]) = Cardinality(S) /\ SectorCount(before \cup {t}, Sector[t]) = Cardinality(S \cup {t})
    BY <2>1 DEF SectorCount
  <2>6. QED BY <1>5, <1>8, <2>2, <2>4, <2>5
<1>12. QED BY <1>2, <1>6, <1>7, <1>10, <1>11

(* run_cycle keeps the number of positions and of positions per sector of  *)
(* the preset the catch-up started with, counted in the book itself.       *)
THEOREM LimitsKept == Spec => BuysKeepLimits
<1> DEFINE A == \A h \in Handlers :
                  BuyNext(h) /\ trades' # trades /\ NothingLater(h) =>
                    LET held == Held(LoadAccount("ai").book)'
                        p    == work[h].preset
                    IN  /\ Cardinality(held) <= TargetPositions[p]
                        /\ SectorCount(held, Sector[Last(trades').ticker]) <= MaxPerSector[p]
<1>1. IInv /\ LogInv => A
  BY BuyLimits
<1>2. IInv /\ LogInv /\ [Next]_vars => [A]_vars
  BY <1>1
<1>3. Spec => [][A]_vars
  BY <1>2, AlwaysLogInv, PTL DEF Spec
<1>4. QED BY <1>3 DEF BuysKeepLimits

-----------------------------------------------------------------------------
(* The store implements the ledger.                                        *)

(* The price an order fills at is a natural number of yen, as the ledger   *)
(* assumes.                                                                *)
LEMMA FillPricesAreNat == FillPrices \subseteq Nat
<1> SUFFICES ASSUME NEW close \in Closes, NEW side \in Sides
             PROVE  RoundToTick(close, side) \div Yen \in Nat
  BY DEF FillPrices
<1>1. close \in Nat
  BY FilesAssumption DEF Closes
<1>2. PICK step \in Nat \ {0} : step = TickSize(close)
  <2> DEFINE rows == RowsAbove(TickTable, close)
  <2>1. rows \subseteq 1 .. 6
    BY DEF RowsAbove, TickTable
  <2>2. rows # {} => Min(rows) \in 1 .. 6
    BY <2>1, MinFact
  <2>3. \A i \in 1 .. 6 : TickTable[i].step \in Nat \ {0}
    BY DEF TickTable
  <2> HIDE DEF rows
  <2>4. (IF rows = {} THEN TickCatchall ELSE TickTable[Min(rows)].step) \in Nat \ {0}
    BY <2>2, <2>3 DEF TickCatchall
  <2>5. QED BY <2>4 DEF TickSize, rows, Yen
<1>3. RoundToTick(close, side) \in Nat
  <2>1. close \div step \in Nat /\ (close + step - 1) \div step \in Nat
    BY <1>1, <1>2
  <2>2. \A x \in Nat : x * step \in Nat
    BY <1>2
  <2>3. QED BY <1>2, <2>1, <2>2 DEF RoundToTick, RoundUp, RoundDown
<1>4. QED BY <1>3 DEF Yen

(* What the ledger assumes of its constants is true of the store's.        *)
LEMMA LedgerAssumptions ==
  /\ Lots \subseteq {n \in Nat \ {0} : n % Lot = 0}
  /\ FillPrices \subseteq Nat
  /\ Funds \subseteq Nat \ {0}
  /\ DefaultCash \in Funds
  BY FillPricesAreNat, LotsAssumption, FundsAssumption DEF WholeLots

(* A row that fits is an order of the ledger on the book of its account.   *)
LEMMA AppendIsOrder ==
  ASSUME Lots = WholeLots, IInv, LogInv, NEW row, Fits(row), trades' = Append(trades, row), initial' = initial
  PROVE  L!Next
<1>1. /\ IsRows(trades) /\ RowsRecordCash /\ RowsRecordCash'
      /\ LoadAccount(row.account)' = [ok |-> TRUE, book |-> Execute(LoadAccount(row.account).book, row)]
      /\ \A a : a # row.account => LoadAccount(a)' = LoadAccount(a)
  BY AppendFits DEF IInv, Types, LogInv
<1>2. PICK b \in Accounts, t \in Tickers, n \in Lots, price \in FillPrices :
        b = row.account /\ t = row.ticker /\ n = row.shares /\ price = row.price
  BY DEF Fits, IsRow
<1>3. \A a \in Accounts : Books[a] = LoadAccount(a).book
  BY <1>1, LoadsOk DEF Books
<1>4. /\ Refusal(Books[b], row) = "none" /\ row.side \in Sides
  BY <1>2, <1>3 DEF Fits, IsRow
<1>5. Books' = [Books EXCEPT ![b] = Execute(@, row)]
  <2>1. \A a \in Accounts : Books'[a] = IF a = b THEN Execute(Books[b], row) ELSE Books[a]
    <3>1. \A a \in Accounts : Books'[a] = IF LoadAccount(a)'.ok THEN LoadAccount(a)'.book ELSE EmptyBook(-1)
      BY DEF Books
    <3>2. \A a \in Accounts : LoadAccount(a).ok
      BY <1>1, LoadsOk
    <3>3. QED BY <1>1, <1>2, <1>3, <3>1, <3>2
  <2>2. Books = [a \in Accounts |-> Books[a]] /\ Books' = [a \in Accounts |-> Books'[a]]
    BY DEF Books
  <2>3. QED BY <2>1, <2>2
<1>6. CASE row.side = "buy"
  <2>1. n * price <= Books[b].cash
    BY <1>2, <1>4, <1>6 DEF Refusal, CanBuy
  <2>2. Execute(Books[b], row) = AfterBuy(Books[b], t, n, price)
    BY <1>2, <1>6 DEF Execute
  <2>3. L!Buy(b, t, n, price)
    BY <1>5, <2>1, <2>2 DEF L!Buy, L!CanBuy, L!AfterBuy, AfterBuy
  <2>4. QED BY <2>3 DEF L!Next
<1>7. CASE row.side = "sell"
  <2>1. n <= Books[b].shares[t]
    BY <1>2, <1>4, <1>7 DEF Refusal, CanSell
  <2>2. Execute(Books[b], row) = AfterSell(Books[b], t, n, price)
    BY <1>2, <1>7 DEF Execute
  <2>3. L!Sell(b, t, n, price)
    BY <1>5, <2>1, <2>2 DEF L!Sell, L!CanSell, L!AfterSell, AfterSell,
       L!CostOf, CostOf, L!TaxDelta, TaxDelta, L!TaxDue, TaxDue, L!TaxRate, TaxRate
  <2>4. QED BY <2>3 DEF L!Next
<1>8. QED BY <1>4, <1>6, <1>7 DEF Sides

(* A log without rows replays to an empty book.                            *)
LEMMA EmptyLog ==
  ASSUME DOMAIN trades = {}
  PROVE  Books = [a \in Accounts |-> EmptyBook(initial[a])]
<1>1. \A a : DOMAIN RowsOf(a) = {}
  <2>1. \A a : RowsOf(a) = [i \in {j \in DOMAIN trades : trades[j].account = a} |-> trades[i]]
    BY DEF RowsOf, RestrictValues, Restrict
  <2>2. QED BY <2>1
<1>2. \A a \in Accounts : LoadAccount(a) = Fresh(initial[a])
  BY <1>1, ReplayedSteps DEF LoadAccount, Replay
<1>3. QED BY <1>2 DEF Books, Fresh

(* A step appends a row that fits, resets the store, or leaves the log.     *)
LEMMA StepShape ==
  ASSUME IInv, LogInv, [Next]_vars
  PROVE  \/ LogStep /\ initial' = initial
         \/ \E cash \in Funds : Reset(cash)
<1>1. ASSUME NEW h \in Handlers, AppendOrder(h) PROVE LogStep /\ initial' = initial
  BY <1>1, AppendOrderLog DEF AppendOrder
<1>2. ASSUME NEW h \in Handlers, SellNext(h) PROVE LogStep /\ initial' = initial
  BY <1>2, SellNextLog DEF SellNext
<1>3. ASSUME NEW h \in Handlers, BuyNext(h) PROVE LogStep /\ initial' = initial
  <2>1. Bought(h) /\ initial' = initial
    BY <1>3, BuyNextLog DEF BuyNext
  <2>2. QED BY <2>1 DEF Bought, LogStep
<1>4. ASSUME NEW h \in Handlers,
             \/ Request(h) \/ LoadOrder(h) \/ BeginCatchUp(h) \/ FinishRead(h)
             \/ BeginCycle(h) \/ BeginBuys(h) \/ FinishCycle(h)
      PROVE  LogStep /\ initial' = initial
  BY <1>4 DEF LogStep, Request, RequestOrder, RequestTick, RequestRead, LoadOrder, BeginCatchUp, FinishRead,
     BeginCycle, BeginBuys, FinishCycle, storeVars
<1>5. ASSUME (\E p \in Presets : Configure(p)) \/ RefreshBars \/ Crash \/ UNCHANGED vars
      PROVE  LogStep /\ initial' = initial
  BY <1>5 DEF LogStep, Configure, RefreshBars, Crash, storeVars, vars
<1>6. QED BY <1>1, <1>2, <1>3, <1>4, <1>5 DEF Next, CycleStep

(* Every step of the store is a step of one book of Ledger, or leaves the  *)
(* books as they are.                                                      *)
LEMMA StepIsLedger ==
  ASSUME Lots = WholeLots, IInv, LogInv, [Next]_vars
  PROVE  UNCHANGED <<Books, initial>> \/ L!Next
<1>1. CASE LogStep /\ initial' = initial
  <2>1. CASE trades' = trades
    <3>1. \A a : LoadAccount(a)' = LoadAccount(a)
      BY <1>1, <2>1, AccountsKept
    <3>2. Books' = Books
      BY <3>1 DEF Books
    <3>3. QED BY <1>1, <3>2
  <2>2. CASE \E row : Fits(row) /\ trades' = Append(trades, row)
    BY <1>1, <2>2, AppendIsOrder
  <2>3. QED BY <1>1, <2>1, <2>2 DEF LogStep
<1>2. ASSUME NEW cash \in Funds, Reset(cash) PROVE L!Next
  <2>1. DOMAIN trades' = {} /\ initial' = [a \in Accounts |-> cash]
    BY <1>2 DEF Reset
  <2>2. Books' = [a \in Accounts |-> EmptyBook(initial'[a])]
    <3>1. \A a : RowsOf(a)' = [i \in {j \in DOMAIN trades' : trades'[j].account = a} |-> trades'[i]]
      BY DEF RowsOf, RestrictValues, Restrict
    <3>2. \A a : DOMAIN RowsOf(a)' = {}
      BY <2>1, <3>1
    <3>3. \A a \in Accounts : LoadAccount(a)' = Fresh(initial'[a])
      BY <3>2, ReplayedSteps DEF LoadAccount, Replay
    <3>4. QED BY <3>3 DEF Books, Fresh
  <2>3. Books' = [a \in Accounts |-> EmptyBook(cash)]
    BY <2>1, <2>2
  <2>4. L!Reset(cash)
    BY <2>1, <2>3 DEF L!Reset, L!EmptyBook, EmptyBook
  <2>5. QED BY <2>4 DEF L!Next
<1>3. QED BY <1>1, <1>2, StepShape

(* The trade log, replayed, is the ledger: an accepted order takes effect  *)
(* as one step on one book when its row is appended, a reset empties both  *)
(* books, and no other step of a thread, of the price file or of a stop    *)
(* and restart of the process changes a book.  (The ledger takes orders in *)
(* every number of whole lots, as the store does.)                         *)
THEOREM StoreIsLedger ==
  ASSUME Lots = WholeLots
  PROVE  Spec => ImplementsLedger
<1>1. Init => L!Init
  <2> SUFFICES ASSUME Init PROVE L!Init
    OBVIOUS
  <2>1. Books = [a \in Accounts |-> EmptyBook(initial[a])]
    BY EmptyLog DEF Init
  <2>2. QED BY <2>1 DEF Init, L!Init, L!EmptyBook, EmptyBook
<1>2. IInv /\ LogInv /\ [Next]_vars => UNCHANGED <<Books, initial>> \/ L!Next
  BY StepIsLedger
<1>3. IInv /\ LogInv /\ [Next]_vars => [UNCHANGED <<Books, initial>> \/ L!Next]_<<Books, initial>>
  BY <1>2
<1>4. QED BY <1>1, <1>3, AlwaysLogInv, PTL DEF Spec, ImplementsLedger

-----------------------------------------------------------------------------
(* The books.                                                              *)

(* A row executed on a sound book leaves a sound one.                      *)
LEMMA RowSound ==
  ASSUME NEW acc, Sound(acc.book), NEW row, IsRow(row)
  PROVE  Sound(ReplayRow(acc, row).book)
<1>1. /\ row.ticker \in Tickers /\ row.side \in Sides /\ row.price \in Nat
      /\ row.shares \in Nat \ {0} /\ row.shares % Lot = 0
  BY FillPricesAreNat DEF IsRow, WholeLots
<1>2. CASE acc.ok /\ Refusal(acc.book, row) = "none"
  <2>1. ReplayRow(acc, row).book \in {acc.book, Execute(acc.book, row)}
    BY <1>2 DEF ReplayRow
  <2>2. CASE row.side = "buy"
    <3>1. CanBuy(acc.book, row.shares, row.price)
      BY <1>2, <2>2 DEF Refusal
    <3>2. Sound(AfterBuy(acc.book, row.ticker, row.shares, row.price))
      BY <1>1, <3>1, BuyKeepsSound
    <3>3. QED BY <2>1, <2>2, <3>2 DEF Execute
  <2>3. CASE row.side = "sell"
    <3>1. CanSell(acc.book, row.ticker, row.shares)
      BY <1>2, <2>3 DEF Refusal
    <3>2. Sound(AfterSell(acc.book, row.ticker, row.shares, row.price))
      BY <1>1, <3>1, SellKeepsSound
    <3>3. QED BY <2>1, <2>3, <3>2 DEF Execute
  <2>4. QED BY <1>1, <2>2, <2>3 DEF Sides
<1>3. CASE ~(acc.ok /\ Refusal(acc.book, row) = "none")
  <2>1. ReplayRow(acc, row).book = acc.book
    BY <1>3 DEF ReplayRow
  <2>2. QED BY <2>1
<1>4. QED BY <1>2, <1>3

(* Every book along a replay of orders is sound.                           *)
LEMMA ReplayedSound ==
  ASSUME NEW rows, NEW cash \in Nat, \A i \in DOMAIN rows : IsRow(rows[i])
  PROVE  \A n \in Nat : Sound(Replayed(rows, cash)[n].book)
<1> DEFINE T == {n \in Nat : Sound(Replayed(rows, cash)[n].book)}
<1>1. 0 \in T
  <2>1. Replayed(rows, cash)[0].book = EmptyBook(cash)
    <3>1. Replayed(rows, cash)[0] = Fresh(cash)
      BY ReplayedSteps
    <3>2. Fresh(cash).book = EmptyBook(cash)
      BY DEF Fresh
    <3>3. QED BY <3>1, <3>2
  <2>2. Sound(EmptyBook(cash))
    BY EmptySound
  <2>3. QED BY <2>1, <2>2
<1>2. ASSUME NEW n \in T PROVE n + 1 \in T
  <2>1. Sound(ReplayId(rows, Replayed(rows, cash)[n], n + 1).book)
    BY RowSound DEF ReplayId
  <2>2. QED BY <2>1, ReplayedSteps
<1>3. \A n \in Nat : n \in T
  <2> HIDE DEF T
  <2>1. T \in SUBSET Nat
    BY DEF T
  <2>2. QED BY <1>1, <1>2, <2>1, Induction
<1>4. QED BY <1>3

(* The cash an account starts from is one of the amounts allowed.          *)
LEMMA AlwaysFunds == Spec => [](initial \in [Accounts -> Funds])
<1>1. Init => initial \in [Accounts -> Funds]
  BY FundsAssumption DEF Init
<1>2. IInv /\ LogInv /\ initial \in [Accounts -> Funds] /\ [Next]_vars => (initial \in [Accounts -> Funds])'
  BY StepShape DEF Reset
<1>3. QED BY <1>1, <1>2, AlwaysLogInv, PTL DEF Spec

(* Whatever orders the threads place and the autopilot trades, no account  *)
(* of the store is ever overdrawn, although the log holds only what each   *)
(* order was and every book is rebuilt from it: the tax recomputed on the  *)
(* cumulative profit never exceeds the cash, and positions are whole lots. *)
THEOREM StoreIsSound ==
  Spec => [](\A a \in Accounts : LoadAccount(a).ok /\ Sound(LoadAccount(a).book))
<1>1. IInv /\ LogInv /\ initial \in [Accounts -> Funds]
        => \A a \in Accounts : LoadAccount(a).ok /\ Sound(LoadAccount(a).book)
  <2> SUFFICES ASSUME IInv, LogInv, initial \in [Accounts -> Funds], NEW a \in Accounts
               PROVE  LoadAccount(a).ok /\ Sound(LoadAccount(a).book)
    OBVIOUS
  <2>1. IsRows(trades) /\ RowsRecordCash /\ initial[a] \in Nat
    BY FundsAssumption DEF IInv, Types, LogInv
  <2>2. PICK cash \in Nat, n \in Nat : cash = initial[a] /\ n = Len(trades)
    BY <2>1, AppendRow
  <2> DEFINE rows == RowsOf(a)
  <2>3. DOMAIN rows \subseteq 1 .. n /\ \A i \in DOMAIN rows : IsRow(rows[i])
    <3>1. /\ DOMAIN RowsOf(a) = {i \in 1 .. Len(trades) : trades[i].account = a}
          /\ \A i \in DOMAIN RowsOf(a) : RowsOf(a)[i] = trades[i]
      BY <2>1, RowsOfFact
    <3>2. DOMAIN trades = 1 .. Len(trades)
      BY <2>1, AppendRow
    <3>3. \A i \in DOMAIN trades : IsRow(trades[i])
      BY DEF LogInv
    <3>4. QED BY <2>2, <3>1, <3>2, <3>3
  <2>4. Sound(Replay(rows, cash).book)
    <3> HIDE DEF rows
    <3>1. QED BY <2>3, ReplayAt, ReplayedSound
  <2>5. LoadAccount(a) = Replay(rows, cash)
    BY <2>2 DEF LoadAccount
  <2>6. QED BY <2>1, <2>4, <2>5, LoadsOk
<1>2. QED BY <1>1, AlwaysFunds, AlwaysLogInv, PTL

=============================================================================
