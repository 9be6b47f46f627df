-------------------------- MODULE MarketDataProofs --------------------------
(***************************************************************************)
(* Proofs about the files of market data, the fetching of pages, and the   *)
(* gates that a slice of daily bars passes.                                *)
(***************************************************************************)
EXTENDS SliceGates, MarketFiles, BarsCache, Fetch, FiniteSetTheorems, WellFoundedInduction, TLAPS

-----------------------------------------------------------------------------
(***************************************************************************)
(* The market files, for any runs and tickers and any number of stops.     *)
(*                                                                         *)
(* TickersKept speaks of a table nobody fills.  While somebody does, each  *)
(* ticker owed that is not on disk is one that a run that is filling the   *)
(* table will write, or has missed, so that it is no longer owed when the  *)
(* run ends; and the same holds of what the other runs will write that     *)
(* have read the table.                                                    *)
(***************************************************************************)

StepRecords == [table: Tables, asked: SUBSET Stocks, merge: BOOLEAN]
RowTables   == [Stocks -> Rows]
RunRecords  == [pc: {"rest", "fetch", "read", "open", "fill"}, plan: Seq(StepRecords),
                got: RowTables, merged: RowTables, missed: SUBSET Stocks]

MarketTypes ==
  /\ disk \in [Tables -> RowTables]
  /\ run \in [Runs -> RunRecords]
  /\ \A r \in Runs : run[r].pc # "rest" => run[r].plan # <<>>
  /\ owed \in [Tables -> SUBSET Stocks]

Writing(r, f) == run[r].pc \in {"open", "fill"} /\ Now(r).table = f

(* What a run writes has the ticker, or takes it off what is owed.         *)
Covers(r, t) == t \in Present(run[r].merged) \cup run[r].missed

Promised(f, t, others) == \E p \in others : Filling(p, f) /\ Covers(p, t)

Safe(f, t) ==
  /\ t \in Present(disk[f]) \/ Promised(f, t, Runs)
  /\ \A r \in Runs : Writing(r, f) => Covers(r, t) \/ Promised(f, t, Runs \ {r})

MarketInv == MarketTypes /\ \A f \in Tables : \A t \in owed[f] : Safe(f, t)

-----------------------------------------------------------------------------
(* The plans of the runs.                                                  *)

(* The plan of a run is a sequence of steps.                               *)
LEMMA PlansTyped == \A plan \in Plans : plan \in Seq(StepRecords)
<1>1. \A asked \in SUBSET Stocks, table \in Tables, merge \in BOOLEAN :
        Step(table, asked, merge) \in StepRecords
  BY DEF Step, StepRecords
<1>2. MissingPrice \in SUBSET Stocks /\ MissingBars \in SUBSET Stocks
  BY DEF MissingPrice, MissingBars
<1>3. \A asked \in SUBSET Stocks : BarsStep(asked) \in StepRecords /\ PricesStep(asked) \in StepRecords
  <2>1. "bars" \in Tables /\ "prices" \in Tables /\ TRUE \in BOOLEAN
    BY DEF Tables
  <2>2. QED BY <1>1, <2>1 DEF BarsStep, PricesStep
<1>4. PICK step \in StepRecords : Universe = <<step>>
  <2>1. "bars" \in Tables /\ FALSE \in BOOLEAN /\ Stocks \in SUBSET Stocks
    BY DEF Tables
  <2>2. QED BY <1>1, <2>1 DEF Universe
<1>5. Backfill \in Seq(StepRecords)
  <2>1. \A s \in StepRecords : <<s>> \in Seq(StepRecords)
    OBVIOUS
  <2>2. <<>> \in Seq(StepRecords)
    OBVIOUS
  <2>3. \A a, b \in Seq(StepRecords) : a \o b \in Seq(StepRecords)
    OBVIOUS
  <2>4. <<PricesStep(MissingPrice)>> \in Seq(StepRecords) /\ <<BarsStep(MissingBars)>> \in Seq(StepRecords)
    BY <1>2, <1>3, <2>1
  <2>5. QED BY <2>2, <2>3, <2>4 DEF Backfill
<1>6. DailyRefresh \in Seq(StepRecords) /\ PageRefresh \in Seq(StepRecords) /\ Financials \in Seq(StepRecords)
  BY <1>3 DEF DailyRefresh, PageRefresh, Financials
<1>7. Universe \in Seq(StepRecords)
  BY <1>4
<1>8. QED BY <1>5, <1>6, <1>7 DEF Plans

(* What a run that has begun is doing, and what it does next.              *)
LEMMA NowTyped ==
  ASSUME MarketTypes, NEW r \in Runs, run[r].pc # "rest"
  PROVE  Now(r) \in StepRecords /\ Tail(run[r].plan) \in Seq(StepRecords)
<1>1. run[r].plan \in Seq(StepRecords) /\ run[r].plan # <<>>
  BY DEF MarketTypes, RunRecords
<1>2. QED BY <1>1 DEF Now

(* What a run at rest holds, and one that goes on to its next step.        *)
LEMMA RestingTyped ==
  /\ NoRows \in RowTables
  /\ RestingRun \in RunRecords /\ RestingRun.pc = "rest"
  /\ \A plan \in Seq(StepRecords) :
       LET k == [RestingRun EXCEPT !.pc = "fetch", !.plan = plan]
       IN  k \in RunRecords /\ k.pc = "fetch" /\ k.plan = plan
<1>1. NoRows \in RowTables
  BY DEF NoRows, RowTables, Rows
<1>2. {} \in SUBSET Stocks /\ <<>> \in Seq(StepRecords)
  OBVIOUS
<1>3. QED BY <1>1, <1>2 DEF RestingRun, RunRecords

(* What merging gives is a table.                                          *)
LEMMA MergedTyped ==
  ASSUME NEW old \in RowTables, NEW got \in RowTables
  PROVE  MergedWith(old, got) \in RowTables /\ Present(old) \subseteq Present(MergedWith(old, got))
BY DEF MergedWith, RowTables, Rows, Present

-----------------------------------------------------------------------------
(* The steps of the runs.                                                  *)

(* A run that moves leaves the others as they are.                         *)
LEMMA RunMoves ==
  ASSUME MarketTypes, NEW r \in Runs, NEW k \in RunRecords, run' = [run EXCEPT ![r] = k]
  PROVE  /\ run' \in [Runs -> RunRecords] /\ run'[r] = k
         /\ \A q \in Runs \ {r} :
              /\ run'[q] = run[q]
              /\ \A f : (Writing(q, f)' <=> Writing(q, f)) /\ (Filling(q, f)' <=> Filling(q, f))
              /\ \A t : Covers(q, t)' <=> Covers(q, t)
<1>1. run \in [Runs -> RunRecords]
  BY DEF MarketTypes
<1>2. \A q \in Runs \ {r} : run'[q] = run[q] /\ Now(q)' = Now(q)
  BY <1>1 DEF Now
<1>3. \A q \in Runs \ {r} : \A t : Covers(q, t)' <=> Covers(q, t)
  BY <1>2 DEF Covers, Present
<1>4. QED BY <1>1, <1>2, <1>3 DEF Writing, Filling

(* It holds at the start, when nothing is owed.                            *)
LEMMA InitMarketInv == MarketInit => MarketInv
<1> SUFFICES ASSUME MarketInit PROVE MarketInv
  OBVIOUS
<1>1. MarketTypes
  BY RestingTyped DEF MarketInit, MarketTypes
<1>2. QED BY <1>1 DEF MarketInit, MarketInv

(* A run that does not write before the step nor after it disturbs no      *)
(* table.                                                                  *)
LEMMA IdleKeeps ==
  ASSUME MarketInv, NEW r \in Runs, NEW k \in RunRecords, run' = [run EXCEPT ![r] = k],
         run[r].pc \notin {"open", "fill"}, k.pc \notin {"open", "fill"}, k.pc # "rest" => k.plan # <<>>,
         UNCHANGED <<disk, owed>>
  PROVE  MarketInv'
<1>1. /\ run' \in [Runs -> RunRecords] /\ run'[r] = k
      /\ \A q \in Runs \ {r} :
           /\ run'[q] = run[q]
           /\ \A f : (Writing(q, f)' <=> Writing(q, f)) /\ (Filling(q, f)' <=> Filling(q, f))
           /\ \A t : Covers(q, t)' <=> Covers(q, t)
  BY RunMoves DEF MarketInv
<1>2. MarketTypes'
  BY <1>1 DEF MarketInv, MarketTypes
<1>3. \A f : ~Writing(r, f)' /\ ~Filling(r, f)' /\ ~Filling(r, f)
  BY <1>1 DEF Writing, Filling
<1>4. ASSUME NEW f \in Tables, NEW t \in owed[f] PROVE Safe(f, t)'
  <2>1. Safe(f, t)
    BY DEF MarketInv
  <2>2. \A others \in SUBSET Runs : Promised(f, t, others) => Promised(f, t, others)'
    BY <1>1, <1>3 DEF Promised
  <2>3. Present(disk[f])' = Present(disk[f])
    BY DEF Present
  <2>4. Runs \in SUBSET Runs /\ \A q \in Runs : Runs \ {q} \in SUBSET Runs
    OBVIOUS
  <2>5. t \in Present(disk[f])' \/ Promised(f, t, Runs)'
    BY <2>1, <2>2, <2>3, <2>4 DEF Safe
  <2>6. ASSUME NEW q \in Runs, Writing(q, f)' PROVE Covers(q, t)' \/ Promised(f, t, Runs \ {q})'
    BY <1>1, <1>3, <2>1, <2>2, <2>4, <2>6 DEF Safe
  <2>7. QED BY <2>5, <2>6 DEF Safe
<1>5. QED BY <1>2, <1>4 DEF MarketInv

(* A run that starts, or fetches, is one of these.                         *)
LEMMA StartRunKeeps ==
  ASSUME MarketInv, NEW r \in Runs, NEW plan \in Plans, StartRun(r, plan)
  PROVE  MarketInv'
<1> DEFINE k == [RestingRun EXCEPT !.pc = "fetch", !.plan = plan]
<1>1. run[r].pc = "rest" /\ plan # <<>> /\ run' = [run EXCEPT ![r] = k] /\ UNCHANGED <<disk, owed>>
  BY DEF StartRun
<1>2. k \in RunRecords /\ k.pc = "fetch" /\ k.plan = plan
  BY PlansTyped, RestingTyped
<1> HIDE DEF k
<1>3. QED BY <1>1, <1>2, IdleKeeps

LEMMA FetchRowsKeeps ==
  ASSUME MarketInv, NEW r \in Runs, FetchRows(r)
  PROVE  MarketInv'
<1>1. PICK got \in RowTables : run' = [run EXCEPT ![r].pc = "read", ![r].got = got]
  BY DEF FetchRows, Results, RowTables
<1>2. run[r].pc = "fetch" /\ UNCHANGED <<disk, owed>>
  BY DEF FetchRows
<1>3. PICK me \in RunRecords : me = run[r] /\ run \in [Runs -> RunRecords] /\ me.plan # <<>>
  BY <1>2 DEF MarketInv, MarketTypes
<1> DEFINE k == [me EXCEPT !.pc = "read", !.got = got]
<1>4. k \in RunRecords /\ k.pc = "read" /\ k.plan = me.plan /\ run' = [run EXCEPT ![r] = k]
  BY <1>1, <1>3 DEF RunRecords
<1> HIDE DEF k
<1>5. QED BY <1>2, <1>3, <1>4, IdleKeeps

(* What a run will write has what it has read; what it has not read of the *)
(* tickers owed is promised by a run that is filling the table.            *)
LEMMA ReadTableKeeps ==
  ASSUME MarketInv, NEW r \in Runs, ReadTable(r)
  PROVE  MarketInv'
<1> DEFINE f0 == Now(r).table
           rows == IF Now(r).merge THEN MergedWith(disk[f0], run[r].got) ELSE run[r].got
           lost == IF Now(r).merge THEN {} ELSE Stocks
<1>1. run[r].pc = "read" /\ UNCHANGED <<disk, owed>>
  BY DEF ReadTable
<1>2. PICK me \in RunRecords : me = run[r] /\ run \in [Runs -> RunRecords] /\ me.plan # <<>>
  BY <1>1 DEF MarketInv, MarketTypes
<1>3. /\ Now(r).table \in Tables /\ disk[f0] \in RowTables
      /\ rows \in RowTables /\ lost \in SUBSET Stocks
      /\ Now(r).merge => Present(disk[f0]) \subseteq Present(rows)
      /\ ~Now(r).merge => lost = Stocks
  <2>1. Now(r).table \in Tables /\ disk[f0] \in RowTables /\ run[r].got \in RowTables
    BY <1>1, <1>2, NowTyped DEF MarketInv, MarketTypes, StepRecords, RunRecords
  <2>2. QED BY <2>1, MergedTyped
<1> DEFINE k == [me EXCEPT !.pc = "open", !.got = NoRows, !.merged = rows, !.missed = lost]
<1>4. /\ run' = [run EXCEPT ![r] = k] /\ k \in RunRecords /\ k.pc = "open"
      /\ k.plan = me.plan /\ k.merged = rows /\ k.missed = lost
  <2>1. run' = [run EXCEPT ![r].pc = "open", ![r].got = NoRows, ![r].merged = rows, ![r].missed = lost]
    BY DEF ReadTable
  <2> HIDE DEF rows, lost
  <2>2. QED BY <1>2, <1>3, <2>1, RestingTyped DEF RunRecords
<1> HIDE DEF k, rows, lost
<1>5. /\ run' \in [Runs -> RunRecords] /\ run'[r] = k
      /\ \A q \in Runs \ {r} :
           /\ run'[q] = run[q]
           /\ \A f : (Writing(q, f)' <=> Writing(q, f)) /\ (Filling(q, f)' <=> Filling(q, f))
           /\ \A t : Covers(q, t)' <=> Covers(q, t)
  BY <1>4, RunMoves DEF MarketInv
<1>6. MarketTypes'
  BY <1>1, <1>2, <1>4, <1>5 DEF MarketInv, MarketTypes
<1>7. /\ \A f : ~Filling(r, f) /\ ~Filling(r, f)'
      /\ \A f : Writing(r, f)' => f = f0
  BY <1>1, <1>2, <1>4, <1>5 DEF Filling, Writing, Now
<1>8. ASSUME NEW f \in Tables, NEW t \in owed[f] PROVE Safe(f, t)'
  <2>1. Safe(f, t) /\ t \in Stocks
    BY DEF MarketInv, MarketTypes
  <2>2. \A others \in SUBSET Runs : Promised(f, t, others) => Promised(f, t, others)' /\ Promised(f, t, others \ {r})'
    BY <1>5, <1>7 DEF Promised
  <2>3. Present(disk[f])' = Present(disk[f])
    BY <1>1 DEF Present
  <2>4. Runs \in SUBSET Runs /\ \A q \in Runs : Runs \ {q} \in SUBSET Runs
    OBVIOUS
  <2>5. t \in Present(disk[f])' \/ Promised(f, t, Runs)'
    BY <2>1, <2>2, <2>3, <2>4 DEF Safe
  <2>6. ASSUME NEW q \in Runs, Writing(q, f)' PROVE Covers(q, t)' \/ Promised(f, t, Runs \ {q})'
    <3>1. CASE q # r
      BY <1>5, <2>1, <2>2, <2>4, <2>6, <3>1 DEF Safe
    <3>2. CASE q = r
      <4>1. f = f0
        BY <1>7, <2>6, <3>2
      <4>2. t \in Present(rows) \/ t \in lost \/ Promised(f, t, Runs)
        BY <1>3, <2>1, <4>1 DEF Safe
      <4>3. t \in Present(rows) \/ t \in lost => Covers(r, t)'
        BY <1>4, <1>5 DEF Covers, Present
      <4>4. Promised(f, t, Runs) => Promised(f, t, Runs \ {r})'
        BY <2>2, <2>4
      <4>5. QED BY <3>2, <4>2, <4>3, <4>4
    <3>3. QED BY <3>1, <3>2
  <2>7. QED BY <2>5, <2>6 DEF Safe
<1>9. QED BY <1>6, <1>8, <1>1 DEF MarketInv

(* A run that opens a table promises what is not on disk any more.         *)
LEMMA OpenTableKeeps ==
  ASSUME MarketInv, NEW r \in Runs, OpenTable(r)
  PROVE  MarketInv'
<1> DEFINE f0 == Now(r).table
<1>1. PICK part \in RowTables : disk' = [disk EXCEPT ![f0] = part]
  BY DEF OpenTable, RowTables
<1>2. run[r].pc = "open" /\ owed' = owed /\ run' = [run EXCEPT ![r].pc = "fill"]
  BY DEF OpenTable
<1>3. PICK me \in RunRecords : me = run[r] /\ run \in [Runs -> RunRecords] /\ me.plan # <<>>
  BY <1>2 DEF MarketInv, MarketTypes
<1> DEFINE k == [me EXCEPT !.pc = "fill"]
<1>4. /\ run' = [run EXCEPT ![r] = k] /\ k \in RunRecords /\ k.pc = "fill"
      /\ k.plan = me.plan /\ k.merged = me.merged /\ k.missed = me.missed
  BY <1>2, <1>3 DEF RunRecords
<1> HIDE DEF k
<1>5. /\ run' \in [Runs -> RunRecords] /\ run'[r] = k
      /\ \A q \in Runs \ {r} :
           /\ run'[q] = run[q]
           /\ \A f : (Writing(q, f)' <=> Writing(q, f)) /\ (Filling(q, f)' <=> Filling(q, f))
           /\ \A t : Covers(q, t)' <=> Covers(q, t)
  BY <1>4, RunMoves DEF MarketInv
<1>6. f0 \in Tables
  BY <1>2, NowTyped DEF MarketInv, StepRecords
<1>7. MarketTypes'
  BY <1>1, <1>2, <1>3, <1>4, <1>5, <1>6 DEF MarketInv, MarketTypes
<1>8. /\ \A f : (Writing(r, f)' <=> f = f0) /\ (Writing(r, f) <=> f = f0)
      /\ \A f : (Filling(r, f)' <=> f = f0) /\ ~Filling(r, f)
      /\ \A t : Covers(r, t)' <=> Covers(r, t)
  BY <1>2, <1>3, <1>4, <1>5 DEF Filling, Writing, Now, Covers, Present
<1>9. ASSUME NEW f \in Tables, NEW t \in owed[f] PROVE Safe(f, t)'
  <2>1. Safe(f, t)
    BY DEF MarketInv
  <2>2. \A others \in SUBSET Runs : Promised(f, t, others) => Promised(f, t, others)'
    BY <1>5, <1>8 DEF Promised
  <2>3. Runs \in SUBSET Runs /\ \A q \in Runs : Runs \ {q} \in SUBSET Runs /\ Runs \ {q} \subseteq Runs
    OBVIOUS
  <2>4. t \in Present(disk[f])' \/ Promised(f, t, Runs)'
    <3>1. CASE f = f0
      <4>1. Covers(r, t) \/ Promised(f, t, Runs \ {r})
        BY <1>8, <2>1, <3>1 DEF Safe
      <4>2. Covers(r, t) => Promised(f, t, Runs)'
        BY <1>8, <3>1 DEF Promised
      <4>3. Promised(f, t, Runs \ {r})' => Promised(f, t, Runs)'
        BY DEF Promised
      <4>4. QED BY <2>2, <2>3, <4>1, <4>2, <4>3
    <3>2. CASE f # f0
      <4>1. disk \in [Tables -> RowTables]
        BY DEF MarketInv, MarketTypes
      <4>2. disk'[f] = disk[f]
        BY <1>1, <3>2, <4>1
      <4>3. Present(disk[f])' = Present(disk[f])
        BY <4>2 DEF Present
      <4>4. QED BY <2>1, <2>2, <2>3, <4>3 DEF Safe
    <3>3. QED BY <3>1, <3>2
  <2>5. ASSUME NEW q \in Runs, Writing(q, f)' PROVE Covers(q, t)' \/ Promised(f, t, Runs \ {q})'
    <3>1. Writing(q, f)
      BY <1>5, <1>8, <2>5
    <3>2. QED BY <1>5, <1>8, <2>1, <2>2, <2>3, <3>1 DEF Safe
  <2>6. QED BY <2>4, <2>5 DEF Safe
<1>10. QED BY <1>2, <1>7, <1>9 DEF MarketInv

(* A run that closes a table takes off what it missed; what it wrote, the  *)
(* others that have read the table miss from now on.                       *)
LEMMA CloseTableKeeps ==
  ASSUME MarketInv, NEW r \in Runs, CloseTable(r)
  PROVE  MarketInv'
<1> DEFINE f0 == Now(r).table
           rows == run[r].merged
<1>1. /\ run[r].pc = "fill"
      /\ disk' = [disk EXCEPT ![f0] = rows]
      /\ owed' = [owed EXCEPT ![f0] = (owed[f0] \ run[r].missed) \cup Present(rows)]
      /\ run' = [q \in Runs |-> IF q = r THEN Onward(r) ELSE Overtaken(q, f0, rows)]
  <2>1. owed \in [Tables -> SUBSET Stocks] /\ f0 \in Tables
    BY NowTyped DEF MarketInv, MarketTypes, CloseTable, StepRecords
  <2>2. QED BY <2>1 DEF CloseTable
<1>2. /\ run \in [Runs -> RunRecords] /\ run[r] \in RunRecords /\ f0 \in Tables
      /\ rows \in RowTables /\ Present(rows) \in SUBSET Stocks
      /\ disk \in [Tables -> RowTables] /\ owed \in [Tables -> SUBSET Stocks]
      /\ Tail(run[r].plan) \in Seq(StepRecords)
  BY <1>1, NowTyped DEF MarketInv, MarketTypes, RunRecords, StepRecords, Present
<1>3. /\ Onward(r) \in RunRecords /\ Onward(r).pc \in {"rest", "fetch"}
      /\ Onward(r).pc # "rest" => Onward(r).plan # <<>>
  <2>1. CASE Tail(run[r].plan) = <<>>
    BY <2>1, RestingTyped DEF Onward
  <2>2. CASE Tail(run[r].plan) # <<>>
    BY <1>2, <2>2, RestingTyped DEF Onward
  <2>3. QED BY <2>1, <2>2
<1>4. ASSUME NEW q \in Runs \ {r}
      PROVE  /\ run'[q] \in RunRecords
             /\ run'[q].pc = run[q].pc /\ run'[q].plan = run[q].plan /\ run'[q].merged = run[q].merged
             /\ run[q].missed \subseteq run'[q].missed
             /\ Writing(q, f0) => Present(rows) \subseteq run'[q].missed
  <2>1. PICK me \in RunRecords : me = run[q]
    BY <1>2
  <2>2. run'[q] = IF Writing(q, f0) THEN [me EXCEPT !.missed = me.missed \cup Present(rows)] ELSE me
    BY <1>1, <2>1 DEF Overtaken, Writing
  <2>3. me.missed \cup Present(rows) \in SUBSET Stocks
    BY <1>2, <2>1 DEF RunRecords
  <2>4. PICK more \in SUBSET Stocks : more = me.missed \cup Present(rows)
    BY <2>3
  <2>5. QED BY <2>1, <2>2, <2>4 DEF RunRecords
<1> HIDE DEF rows, f0
<1>5. run' \in [Runs -> RunRecords] /\ run'[r] = Onward(r)
  BY <1>1, <1>3, <1>4
<1>6. MarketTypes'
  <2>1. disk' \in [Tables -> RowTables]
    BY <1>1, <1>2
  <2>2. owed' \in [Tables -> SUBSET Stocks]
    BY <1>1, <1>2
  <2>3. \A q \in Runs : run'[q].pc # "rest" => run'[q].plan # <<>>
    BY <1>3, <1>4, <1>5 DEF MarketInv, MarketTypes
  <2>4. QED BY <1>5, <2>1, <2>2, <2>3 DEF MarketTypes
<1>7. /\ \A f : ~Writing(r, f)' /\ ~Filling(r, f)'
      /\ \A f : Filling(r, f) => f = f0
      /\ Filling(r, f0) /\ Writing(r, f0)
      /\ \A q \in Runs \ {r} : \A f : (Writing(q, f)' <=> Writing(q, f)) /\ (Filling(q, f)' <=> Filling(q, f))
      /\ \A q \in Runs \ {r} : \A t : Covers(q, t) => Covers(q, t)'
      /\ \A q \in Runs \ {r} : \A t : Writing(q, f0) /\ t \in Present(rows) => Covers(q, t)'
  <2>1. \A f : ~Writing(r, f)' /\ ~Filling(r, f)'
    BY <1>3, <1>5 DEF Writing, Filling
  <2>2. /\ \A f : Filling(r, f) => f = f0
        /\ Filling(r, f0) /\ Writing(r, f0)
    BY <1>1 DEF Writing, Filling, f0
  <2>3. \A q \in Runs \ {r} : \A f : (Writing(q, f)' <=> Writing(q, f)) /\ (Filling(q, f)' <=> Filling(q, f))
    BY <1>4 DEF Writing, Filling, Now
  <2>4. \A q \in Runs \ {r} : \A t : Covers(q, t) => Covers(q, t)'
    BY <1>4 DEF Covers, Present
  <2>5. \A q \in Runs \ {r} : \A t : Writing(q, f0) /\ t \in Present(rows) => Covers(q, t)'
    BY <1>4 DEF Covers
  <2>6. QED BY <2>1, <2>2, <2>3, <2>4, <2>5
<1>8. ASSUME NEW f \in Tables, NEW t \in owed'[f] PROVE Safe(f, t)'
  <2>1. \A others \in SUBSET (Runs \ {r}) : Promised(f, t, others) => Promised(f, t, others)'
    BY <1>7 DEF Promised
  <2>2. Promised(f, t, Runs \ {r})' => Promised(f, t, Runs)'
    BY DEF Promised
  <2>3. CASE f # f0
    <3>1. t \in owed[f] /\ disk'[f] = disk[f]
      BY <1>1, <1>2, <2>3
    <3>2. Safe(f, t) /\ Present(disk[f])' = Present(disk[f])
      BY <3>1 DEF MarketInv, Present
    <3>3. ~Filling(r, f) /\ ~Writing(r, f)'
      BY <1>7, <2>3
    <3>4. \A others \in SUBSET Runs : Promised(f, t, others) => Promised(f, t, others)'
      BY <1>7, <3>3 DEF Promised
    <3>5. Runs \in SUBSET Runs /\ \A q \in Runs : Runs \ {q} \in SUBSET Runs
      OBVIOUS
    <3>6. t \in Present(disk[f])' \/ Promised(f, t, Runs)'
      BY <3>2, <3>4, <3>5 DEF Safe
    <3>7. ASSUME NEW q \in Runs, Writing(q, f)' PROVE Covers(q, t)' \/ Promised(f, t, Runs \ {q})'
      BY <1>7, <3>2, <3>3, <3>4, <3>5, <3>7 DEF Safe
    <3>8. QED BY <3>6, <3>7 DEF Safe
  <2>4. CASE f = f0 /\ t \in Present(rows)
    <3>1. disk'[f] = rows
      BY <1>1, <1>2, <2>4
    <3>2. Present(disk[f])' = Present(rows)
      BY <3>1 DEF Present
    <3>3. QED BY <1>7, <2>4, <3>2 DEF Safe
  <2>5. CASE f = f0 /\ t \notin Present(rows)
    <3>1. t \in owed[f] /\ t \notin run[r].missed
      BY <1>1, <1>2, <2>5
    <3>2. Safe(f, t) /\ ~Covers(r, t)
      BY <2>5, <3>1 DEF MarketInv, Covers, rows
    <3>3. Promised(f, t, Runs \ {r})
      BY <1>7, <2>5, <3>2 DEF Safe
    <3>4. Promised(f, t, Runs)'
      BY <2>1, <2>2, <3>3
    <3>5. ASSUME NEW q \in Runs, Writing(q, f)' PROVE Covers(q, t)' \/ Promised(f, t, Runs \ {q})'
      <4>1. q # r /\ Writing(q, f)
        BY <1>7, <3>5
      <4>2. CASE Covers(q, t)
        BY <1>7, <4>1, <4>2
      <4>3. CASE Promised(f, t, Runs \ {q})
        <5>1. PICK p \in Runs \ {q} : Filling(p, f) /\ Covers(p, t)
          BY <4>3 DEF Promised
        <5>2. p # r
          BY <3>2, <5>1
        <5>3. QED BY <1>7, <5>1, <5>2 DEF Promised
      <4>4. QED BY <3>2, <4>1, <4>2, <4>3 DEF Safe
    <3>6. QED BY <3>4, <3>5 DEF Safe
  <2>6. QED BY <2>3, <2>4, <2>5
<1>9. QED BY <1>6, <1>8 DEF MarketInv

(* A stop takes away runs; where one of them was filling a table, nothing  *)
(* is owed any more.                                                       *)
LEMMA HaltKeeps ==
  ASSUME MarketInv, NEW stopped \in SUBSET Runs, Halt(stopped)
  PROVE  MarketInv'
<1>1. /\ run' = [r \in Runs |-> IF r \in stopped THEN RestingRun ELSE run[r]]
      /\ owed' = [f \in Tables |-> IF \E r \in stopped : Filling(r, f) THEN {} ELSE owed[f]]
      /\ disk' = disk
  BY DEF Halt
<1>2. MarketTypes'
  <2>1. run' \in [Runs -> RunRecords]
    BY <1>1, RestingTyped DEF MarketInv, MarketTypes
  <2>2. owed' \in [Tables -> SUBSET Stocks]
    BY <1>1 DEF MarketInv, MarketTypes
  <2>3. \A r \in Runs : run'[r].pc # "rest" => run'[r].plan # <<>>
    BY <1>1, RestingTyped DEF MarketInv, MarketTypes
  <2>4. QED BY <1>1, <2>1, <2>2, <2>3 DEF MarketInv, MarketTypes
<1>3. \A r \in stopped : \A f : ~Writing(r, f)'
  BY <1>1, RestingTyped DEF Writing
<1>4. \A r \in Runs \ stopped :
        /\ \A f : (Writing(r, f)' <=> Writing(r, f)) /\ (Filling(r, f)' <=> Filling(r, f))
        /\ \A t : Covers(r, t)' <=> Covers(r, t)
  <2>1. \A r \in Runs \ stopped : run'[r] = run[r] /\ Now(r)' = Now(r)
    BY <1>1 DEF Now
  <2>2. \A r \in Runs \ stopped : \A t : Covers(r, t)' <=> Covers(r, t)
    BY <2>1 DEF Covers, Present
  <2>3. QED BY <2>1, <2>2 DEF Writing, Filling
<1>5. ASSUME NEW f \in Tables, NEW t \in owed'[f] PROVE Safe(f, t)'
  <2>1. (\A r \in stopped : ~Filling(r, f)) /\ t \in owed[f]
    BY <1>1
  <2>2. Safe(f, t) /\ Present(disk[f])' = Present(disk[f])
    BY <1>1, <2>1 DEF MarketInv, Present
  <2>3. \A others \in SUBSET Runs : Promised(f, t, others) => Promised(f, t, others)'
    BY <1>4, <2>1 DEF Promised
  <2>4. Runs \in SUBSET Runs /\ \A q \in Runs : Runs \ {q} \in SUBSET Runs
    OBVIOUS
  <2>5. t \in Present(disk[f])' \/ Promised(f, t, Runs)'
    BY <2>2, <2>3, <2>4 DEF Safe
  <2>6. ASSUME NEW q \in Runs, Writing(q, f)' PROVE Covers(q, t)' \/ Promised(f, t, Runs \ {q})'
    BY <1>3, <1>4, <2>2, <2>3, <2>4, <2>6 DEF Safe
  <2>7. QED BY <2>5, <2>6 DEF Safe
<1>6. QED BY <1>2, <1>5 DEF MarketInv

(* And a step that changes nothing here.                                   *)
LEMMA MarketStill == MarketInv /\ UNCHANGED marketVars => MarketInv'
BY DEF MarketInv, MarketTypes, Safe, Promised, Writing, Filling, Covers, Present, Now, marketVars

(* Every step keeps it.                                                    *)
LEMMA StepMarketInv == MarketInv /\ [MarketNext]_marketVars => MarketInv'
<1> SUFFICES ASSUME MarketInv, [MarketNext]_marketVars PROVE MarketInv'
  OBVIOUS
<1>1. ASSUME NEW r \in Runs, NEW plan \in Plans, StartRun(r, plan) PROVE MarketInv'
  BY <1>1, StartRunKeeps
<1>2. ASSUME NEW r \in Runs, FetchRows(r) PROVE MarketInv'
  BY <1>2, FetchRowsKeeps
<1>3. ASSUME NEW r \in Runs, ReadTable(r) PROVE MarketInv'
  BY <1>3, ReadTableKeeps
<1>4. ASSUME NEW r \in Runs, OpenTable(r) PROVE MarketInv'
  BY <1>4, OpenTableKeeps
<1>5. ASSUME NEW r \in Runs, CloseTable(r) PROVE MarketInv'
  BY <1>5, CloseTableKeeps
<1>6. ASSUME NEW stopped \in SUBSET Runs, Halt(stopped) PROVE MarketInv'
  BY <1>6, HaltKeeps
<1>7. CASE UNCHANGED marketVars
  BY <1>7, MarketStill
<1>8. QED BY <1>1, <1>2, <1>3, <1>4, <1>5, <1>6, <1>7 DEF MarketNext

(* The invariant itself.                                                   *)
LEMMA AlwaysMarketInv == MarketSpec => []MarketInv
BY InitMarketInv, StepMarketInv, PTL DEF MarketSpec

(* The merging writers of cli_market.py lose no ticker that a whole write  *)
(* has left in a table, except those that another run has written between  *)
(* the read and the write of the one that takes them away, those that a    *)
(* run that replaces the table did not fetch, and those in a table that    *)
(* was being filled when its writer was stopped.                           *)
THEOREM TickersStay == MarketSpec => []TickersKept
<1>1. MarketInv => TickersKept
  BY DEF MarketInv, Safe, Promised, TickersKept
<1>2. QED BY <1>1, AlwaysMarketInv, PTL

-----------------------------------------------------------------------------
(***************************************************************************)
(* The cache of parsed bars, for any number of request threads, writes and *)
(* restarts.                                                               *)
(*                                                                         *)
(* Requests with one key have seen one modification time, so what one of   *)
(* them has loaded, after it had seen it, is new enough for all of them.   *)
(***************************************************************************)

ReaderRecords ==
  [pc: {"rest", "look", "clear", "load", "store", "index"}, key: Nat, since: Nat, held: Nat]

CacheTypes ==
  /\ stamp \in Nat /\ version \in Nat /\ first \in Nat /\ first <= version
  /\ reader \in [Readers -> ReaderRecords]
  /\ DOMAIN cached \subseteq 0 .. stamp
  /\ \A k \in DOMAIN cached : cached[k] \in Nat

Awake(a) == reader[a].pc # "rest"

CacheInv ==
  /\ CacheTypes
  /\ \A a \in Readers : Awake(a) =>
       /\ reader[a].key <= stamp /\ reader[a].since <= first
       /\ reader[a].key = stamp => reader[a].since = first
       /\ reader[a].pc = "store" => reader[a].since <= reader[a].held
       /\ reader[a].key \in DOMAIN cached => reader[a].since <= cached[reader[a].key]
  /\ \A a, b \in Readers :
       Awake(a) /\ Awake(b) /\ reader[a].key = reader[b].key => reader[a].since = reader[b].since
  /\ stamp \in DOMAIN cached => first <= cached[stamp]

(* A reader that moves leaves the others as they are.                      *)
LEMMA ReaderMoves ==
  ASSUME CacheInv, NEW a \in Readers, NEW k \in ReaderRecords, reader' = [reader EXCEPT ![a] = k]
  PROVE  /\ reader' \in [Readers -> ReaderRecords] /\ reader'[a] = k
         /\ \A b \in Readers \ {a} : reader'[b] = reader[b]
BY DEF CacheInv, CacheTypes

(* Nothing is cached, and nobody reads, at the start.                        *)
LEMMA InitCacheInv == ReadInit => CacheInv
<1>1. RestingReader \in ReaderRecords /\ RestingReader.pc = "rest"
  BY DEF RestingReader, ReaderRecords
<1>2. DOMAIN Empty = {}
  BY DEF Empty
<1>3. QED BY <1>1, <1>2 DEF ReadInit, CacheInv, CacheTypes, Awake

(* A write only adds a version, to the present modification time or to one *)
(* that nobody has seen.                                                   *)
LEMMA WriteBarsKeeps ==
  ASSUME CacheInv, WriteBars
  PROVE  CacheInv'
<1>1. /\ version' = version + 1 /\ UNCHANGED <<cached, reader>>
      /\ \/ stamp' = stamp + 1 /\ first' = version'
         \/ UNCHANGED <<stamp, first>>
  BY DEF WriteBars
<1>2. QED BY <1>1 DEF CacheInv, CacheTypes, Awake, ReaderRecords

(* A step of a reader that leaves the dictionary as it is.                 *)
LEMMA QuietReader ==
  ASSUME CacheInv, NEW a \in Readers, NEW k \in ReaderRecords, reader' = [reader EXCEPT ![a] = k],
         UNCHANGED <<stamp, version, first, cached>>,
         \/ k.pc = "rest"
         \/ k.key = reader[a].key /\ k.since = reader[a].since /\ Awake(a)
         \/ k.key = stamp /\ k.since = first,
         k.pc = "store" => k.since <= k.held
  PROVE  CacheInv'
<1>1. /\ reader' \in [Readers -> ReaderRecords] /\ reader'[a] = k
      /\ \A b \in Readers \ {a} : reader'[b] = reader[b]
  BY ReaderMoves
<1>2. CacheTypes'
  BY <1>1 DEF CacheInv, CacheTypes
<1>3. \A b \in Readers \ {a} : Awake(b)' <=> Awake(b)
  BY <1>1 DEF Awake
<1>4. Awake(a)' => /\ k.key <= stamp /\ k.since <= first
                   /\ k.key = stamp => k.since = first
                   /\ k.key \in DOMAIN cached => k.since <= cached[k.key]
  BY <1>1 DEF CacheInv, CacheTypes, Awake
<1>5. ASSUME NEW b \in Readers \ {a}, Awake(a)', Awake(b), k.key = reader[b].key
      PROVE  k.since = reader[b].since
  BY <1>1, <1>5 DEF CacheInv, CacheTypes, Awake
<1>6. QED BY <1>1, <1>2, <1>3, <1>4, <1>5 DEF CacheInv, Awake

(* Each step of a reader.                                                  *)
LEMMA ReaderKeeps ==
  ASSUME CacheInv, NEW a \in Readers,
         StatBars(a) \/ LookUp(a) \/ ClearBars(a) \/ LoadBars(a) \/ StoreBars(a) \/ IndexBars(a)
  PROVE  CacheInv'
<1>1. PICK me \in ReaderRecords : me = reader[a] /\ reader \in [Readers -> ReaderRecords]
  BY DEF CacheInv, CacheTypes
<1>2. stamp \in Nat /\ version \in Nat /\ first \in Nat /\ first <= version
  BY DEF CacheInv, CacheTypes
<1>3. CASE StatBars(a)
  <2> DEFINE k == [pc |-> "look", key |-> stamp, since |-> first, held |-> 0]
  <2>1. k \in ReaderRecords /\ reader' = [reader EXCEPT ![a] = k] /\ UNCHANGED <<stamp, version, first, cached>>
    BY <1>2, <1>3 DEF StatBars, CacheKey, ReaderRecords
  <2>2. k.key = stamp /\ k.since = first /\ k.pc # "store"
    OBVIOUS
  <2> HIDE DEF k
  <2>3. QED BY <2>1, <2>2, QuietReader
<1>4. CASE LookUp(a)
  <2>1. PICK p \in {"index", "clear"} : reader' = [reader EXCEPT ![a].pc = p]
    BY <1>4 DEF LookUp
  <2>2. me.pc = "look" /\ UNCHANGED <<stamp, version, first, cached>>
    BY <1>1, <1>4 DEF LookUp
  <2> DEFINE k == [me EXCEPT !.pc = p]
  <2>3. /\ k \in ReaderRecords /\ reader' = [reader EXCEPT ![a] = k]
        /\ k.key = me.key /\ k.since = me.since /\ k.pc # "store"
    BY <1>1, <2>1 DEF ReaderRecords
  <2> HIDE DEF k
  <2>4. QED BY <1>1, <2>2, <2>3, QuietReader DEF Awake
<1>5. CASE ClearBars(a)
  <2>1. me.pc = "clear" /\ cached' = Empty /\ UNCHANGED <<stamp, version, first>>
    BY <1>1, <1>5 DEF ClearBars
  <2> DEFINE k == [me EXCEPT !.pc = "load"]
  <2>2. /\ k \in ReaderRecords /\ reader' = [reader EXCEPT ![a] = k]
        /\ k.key = me.key /\ k.since = me.since /\ k.pc = "load"
    BY <1>1, <1>5 DEF ClearBars, ReaderRecords
  <2> HIDE DEF k
  <2>3. /\ reader' \in [Readers -> ReaderRecords] /\ reader'[a] = k
        /\ \A b \in Readers \ {a} : reader'[b] = reader[b]
    BY <2>2, ReaderMoves
  <2>4. DOMAIN cached' = {}
    BY <2>1 DEF Empty
  <2>5. CacheTypes'
    BY <2>1, <2>3, <2>4 DEF CacheInv, CacheTypes
  <2>6. \A b \in Readers : Awake(b)' => /\ Awake(b) /\ reader'[b].key = reader[b].key
                                        /\ reader'[b].since = reader[b].since
                                        /\ reader'[b].pc = "store" => reader'[b] = reader[b]
    BY <1>1, <2>1, <2>2, <2>3 DEF Awake
  <2>7. QED BY <2>1, <2>4, <2>5, <2>6 DEF CacheInv
<1>6. CASE LoadBars(a)
  <2>1. me.pc = "load" /\ UNCHANGED <<stamp, version, first, cached>>
    BY <1>1, <1>6 DEF LoadBars
  <2> DEFINE k == [me EXCEPT !.pc = "store", !.held = version]
  <2>2. /\ k \in ReaderRecords /\ reader' = [reader EXCEPT ![a] = k]
        /\ k.key = me.key /\ k.since = me.since /\ k.held = version
    BY <1>1, <1>2, <1>6 DEF LoadBars, ReaderRecords
  <2> HIDE DEF k
  <2>3. me.since <= first /\ me.since \in Nat /\ Awake(a)
    BY <1>1, <2>1 DEF CacheInv, Awake, ReaderRecords
  <2>4. k.since <= k.held
    BY <1>2, <2>2, <2>3
  <2>5. QED BY <1>1, <2>1, <2>2, <2>3, <2>4, QuietReader
<1>7. CASE StoreBars(a)
  <2>1. me.pc = "store" /\ UNCHANGED <<stamp, version, first>>
    BY <1>1, <1>7 DEF StoreBars
  <2>2. /\ DOMAIN cached' = DOMAIN cached \cup {me.key}
        /\ \A d \in DOMAIN cached' : cached'[d] = IF d = me.key THEN me.held ELSE cached[d]
    BY <1>1, <1>7 DEF StoreBars
  <2> DEFINE k == [me EXCEPT !.pc = "index"]
  <2>3. /\ k \in ReaderRecords /\ reader' = [reader EXCEPT ![a] = k]
        /\ k.key = me.key /\ k.since = me.since /\ k.pc = "index"
    BY <1>1, <1>7 DEF StoreBars, ReaderRecords
  <2> HIDE DEF k
  <2>4. /\ reader' \in [Readers -> ReaderRecords] /\ reader'[a] = k
        /\ \A b \in Readers \ {a} : reader'[b] = reader[b]
    BY <2>3, ReaderMoves
  <2>5. /\ Awake(a) /\ me.key \in Nat /\ me.key <= stamp /\ me.held \in Nat /\ me.since <= me.held
        /\ me.key = stamp => me.since = first
    BY <1>1, <2>1 DEF CacheInv, Awake, ReaderRecords
  <2>6. CacheTypes'
    BY <1>2, <2>1, <2>2, <2>4, <2>5 DEF CacheInv, CacheTypes
  <2>7. \A b \in Readers : Awake(b)' => /\ Awake(b) /\ reader'[b].key = reader[b].key
                                        /\ reader'[b].since = reader[b].since
                                        /\ reader'[b].pc = "store" => reader'[b] = reader[b]
    BY <1>1, <2>1, <2>3, <2>4 DEF Awake
  <2>8. \A b \in Readers : Awake(b) /\ reader[b].key = me.key => reader[b].since <= me.held
    BY <1>1, <2>5 DEF CacheInv
  <2>9. \A b \in Readers : Awake(b)' /\ reader'[b].key \in DOMAIN cached' => reader'[b].since <= cached'[reader'[b].key]
    BY <2>2, <2>7, <2>8 DEF CacheInv
  <2>10. stamp' \in DOMAIN cached' => first' <= cached'[stamp']
    BY <2>1, <2>2, <2>5 DEF CacheInv
  <2>11. QED BY <2>1, <2>6, <2>7, <2>9, <2>10 DEF CacheInv
<1>8. CASE IndexBars(a)
  <2>1. /\ RestingReader \in ReaderRecords /\ RestingReader.pc = "rest"
        /\ reader' = [reader EXCEPT ![a] = RestingReader] /\ UNCHANGED <<stamp, version, first, cached>>
    BY <1>8 DEF IndexBars, RestingReader, ReaderRecords
  <2>2. QED BY <2>1, QuietReader
<1>9. QED BY <1>3, <1>4, <1>5, <1>6, <1>7, <1>8

(* A restart empties the dictionary and ends the requests.                 *)
LEMMA RestartKeeps ==
  ASSUME CacheInv, RestartServer
  PROVE  CacheInv'
<1>1. RestingReader \in ReaderRecords /\ RestingReader.pc = "rest" /\ DOMAIN Empty = {}
  BY DEF RestingReader, ReaderRecords, Empty
<1>2. QED BY <1>1 DEF RestartServer, CacheInv, CacheTypes, Awake

(* _bars of virtual_trade.py: a request is handed the file as it was at or *)
(* after the first write with the modification time the request saw, for   *)
(* any number of threads, writes and restarts.                             *)
THEOREM BarsAreNotOutdated == ReadSpec => []BarsNotOutdated
<1>1. CacheInv /\ [ReadNext]_readVars => CacheInv'
  <2>1. CacheInv /\ UNCHANGED readVars => CacheInv'
    BY DEF CacheInv, CacheTypes, Awake, readVars
  <2>2. QED BY <2>1, WriteBarsKeeps, ReaderKeeps, RestartKeeps DEF ReadNext
<1>2. CacheInv => BarsNotOutdated
  BY DEF CacheInv, BarsNotOutdated, Awake
<1>3. QED BY <1>1, <1>2, InitCacheInv, PTL DEF ReadSpec

-----------------------------------------------------------------------------
(***************************************************************************)
(* The burst on a page that several clients miss at once, for any number   *)
(* of clients and pages, any lifetime of a row and any waits.              *)
(*                                                                         *)
(* BurstBounded counts requests that were made; inductive is what it owes  *)
(* to those that are still to be made: while a row is fresh, the requests  *)
(* since it has been are paid for by clients that had missed it, and no    *)
(* more of them join the ones that wait to send.                           *)
(***************************************************************************)

Labels == {"rest", "robots", "lookup", "send", "store", "ended"}
Texts  == Bodies \cup {"raised", Absent}

Frames ==
  [pc: Labels, url: Urls \cup {Absent}, left: SUBSET Urls,
   rules: {"unread", "allow", "deny", "down"}, since: Int, sleep: Int,
   attempt: Nat, body: Texts]
ClientRecords ==
  {k \in Frames :
     /\ k.pc \notin {"rest", "ended"} => k.url \in Urls
     /\ k.pc = "store" => k.body \in Bodies}

CachedRows == [body: Bodies, age: Int]

FetchTypes ==
  /\ row \in [Urls -> CachedRows \cup {Absent}]
  /\ client \in [Clients -> ClientRecords]
  /\ surplus \in [Urls -> Nat]

Senders(u) == {c \in Clients : client[c].pc = "send" /\ client[c].url = u}

Bounded(u) ==
  /\ surplus[u] <= Cardinality(Clients) - 1
  /\ Fresh(u) => surplus[u] + Cardinality(Senders(u)) <= Cardinality(Clients) - 1

FetchInv == FetchTypes /\ \A u \in Urls : Bounded(u)

-----------------------------------------------------------------------------
(* The clients, and those without one of them.                             *)
LEMMA ClientsCounted ==
  /\ Cardinality(Clients) \in Nat /\ Cardinality(Clients) >= 1
  /\ \A c \in Clients : Cardinality(Clients \ {c}) = Cardinality(Clients) - 1
<1>1. PICK c \in Clients : TRUE
  BY FetchAssumption
<1>2. Cardinality(Clients) \in Nat /\ Cardinality(Clients) # 0
  BY <1>1, FetchAssumption, FS_CardinalityType, FS_EmptySet
<1>3. \A d \in Clients : Cardinality(Clients \ {d}) = Cardinality(Clients) - 1
  BY FetchAssumption, FS_RemoveElement
<1>4. QED BY <1>2, <1>3

(* A part is no larger than the whole.                                     *)
LEMMA SubsetCounted ==
  ASSUME NEW S, NEW T, IsFiniteSet(T), S \subseteq T
  PROVE  /\ Cardinality(S) \in Nat /\ Cardinality(T) \in Nat
         /\ Cardinality(S) <= Cardinality(T)
BY FS_Subset, FS_CardinalityType

(* The clients about to send are finitely many.                            *)
LEMMA SendersCounted ==
  ASSUME NEW u
  PROVE  IsFiniteSet(Senders(u)) /\ Cardinality(Senders(u)) \in Nat
<1>1. Senders(u) \subseteq Clients
  BY DEF Senders
<1>2. QED BY <1>1, FetchAssumption, FS_Subset, FS_CardinalityType

(* The smaller and the larger of two numbers.                              *)
LEMMA TwoNumbers ==
  ASSUME NEW a \in Int, NEW b \in Int
  PROVE  Min({a, b}) \in Int /\ Max({a, b}) \in Int
<1>1. \E x \in {a, b} : \A y \in {a, b} : x <= y
  OBVIOUS
<1>2. \E x \in {a, b} : \A y \in {a, b} : x >= y
  OBVIOUS
<1>3. Min({a, b}) \in {a, b}
  BY <1>1 DEF Min
<1>4. Max({a, b}) \in {a, b}
  BY <1>2 DEF Max
<1>5. QED BY <1>3, <1>4

-----------------------------------------------------------------------------
(* A fetch that returns leaves its client where it sends nothing.          *)
LEMMA RestingShape ==
  Resting \in ClientRecords /\ Resting \in Frames /\ Resting.pc = "rest"
BY FetchAssumption DEF Resting, ClientRecords, Frames, Labels, Texts

(* What a client that has its page goes on to.                             *)
LEMMA ReturnedShape ==
  ASSUME NEW c \in Clients, client[c] \in ClientRecords, client[c].pc \notin {"rest", "ended"},
         NEW body \in Bodies \cup {"raised"}, NEW k \in Returned(c, body)
  PROVE  k \in ClientRecords /\ k.pc \in {"rest", "robots", "ended"}
<1>1. PICK me \in ClientRecords : me = client[c]
  OBVIOUS
<1>2. me.url \in Urls /\ me.attempt \in Nat /\ me.left \in SUBSET Urls
  BY <1>1 DEF ClientRecords, Frames
<1>3. CASE k = Resting
  BY <1>3, RestingShape
<1>4. ASSUME NEW u \in me.left,
             k = [me EXCEPT !.pc = "robots", !.url = u, !.left = @ \ {u}, !.body = Absent]
      PROVE  k \in ClientRecords /\ k.pc = "robots"
  BY <1>2, <1>4 DEF ClientRecords, Frames, Labels, Texts
<1>5. ASSUME k = [Resting EXCEPT !.pc = "robots", !.url = me.url, !.attempt = me.attempt + 1,
                                 !.sleep = RetryWait * me.attempt + Interval]
      PROVE  k \in ClientRecords /\ k.pc = "robots"
  <2>1. PICK n \in Nat : n = me.attempt + 1
    BY <1>2
  <2>2. PICK s \in Int : s = RetryWait * me.attempt + Interval
    BY <1>2, FetchAssumption
  <2>3. k = [Resting EXCEPT !.pc = "robots", !.url = me.url, !.attempt = n, !.sleep = s]
    BY <1>5, <2>1, <2>2
  <2>4. k \in Frames /\ k.pc = "robots" /\ k.url = me.url
    BY <1>2, <2>3, RestingShape DEF Frames, Labels
  <2>5. QED BY <1>2, <2>4 DEF ClientRecords
<1>6. ASSUME k = [Resting EXCEPT !.pc = "ended", !.body = body]
      PROVE  k \in ClientRecords /\ k.pc = "ended"
  <2>1. k \in Frames /\ k.pc = "ended"
    BY <1>6, RestingShape DEF Frames, Labels, Texts
  <2>2. QED BY <2>1 DEF ClientRecords
<1>7. QED BY <1>1, <1>3, <1>4, <1>5, <1>6 DEF Returned

-----------------------------------------------------------------------------
(* What a step of one client leaves of the bound: no row becomes fresh,    *)
(* and the client does not join those that send.                           *)
LEMMA NoneJoins ==
  ASSUME FetchInv, NEW c \in Clients, NEW k \in ClientRecords,
         client' = [client EXCEPT ![c] = k], k.pc # "send",
         surplus' = surplus, \A u \in Urls : Fresh(u)' => Fresh(u)
  PROVE  \A u \in Urls : Bounded(u)'
<1> SUFFICES ASSUME NEW u \in Urls
             PROVE  Bounded(u)'
  OBVIOUS
<1>1. client'[c] = k /\ \A d \in Clients \ {c} : client'[d] = client[d]
  BY DEF FetchInv, FetchTypes
<1>2. Senders(u)' \subseteq Senders(u)
  BY <1>1 DEF Senders
<1>3. Cardinality(Senders(u)') <= Cardinality(Senders(u)) /\ Cardinality(Senders(u)') \in Nat
      /\ Cardinality(Senders(u)) \in Nat
  BY <1>2, SendersCounted, SubsetCounted
<1>4. surplus[u] \in Nat
  BY DEF FetchInv, FetchTypes
<1>5. QED BY <1>3, <1>4, ClientsCounted DEF FetchInv, Bounded

(* A client that moves keeps the types.                                    *)
LEMMA TypesStay ==
  ASSUME FetchTypes, NEW c \in Clients, NEW k \in ClientRecords,
         client' = [client EXCEPT ![c] = k]
  PROVE  client' \in [Clients -> ClientRecords]
BY DEF FetchTypes

(* A step of one client that leaves the rows and the requests alone.       *)
LEMMA QuietStep ==
  ASSUME FetchInv, NEW c \in Clients, NEW k \in ClientRecords,
         client' = [client EXCEPT ![c] = k], k.pc # "send",
         UNCHANGED <<row, surplus>>
  PROVE  FetchInv'
<1>1. client' \in [Clients -> ClientRecords]
  BY TypesStay DEF FetchInv
<1>2. \A u \in Urls : Fresh(u)' => Fresh(u)
  BY DEF Fresh
<1>3. \A u \in Urls : Bounded(u)'
  BY <1>2, NoneJoins
<1>4. QED BY <1>1, <1>3 DEF FetchInv, FetchTypes

-----------------------------------------------------------------------------
(* It holds at the start.                                                  *)
LEMMA InitHolds == FetchInit => FetchInv
<1> SUFFICES ASSUME FetchInit
             PROVE  FetchInv
  OBVIOUS
<1>1. FetchTypes
  BY RestingShape DEF FetchInit, FetchTypes
<1>2. \A u \in Urls : surplus[u] = 0 /\ ~Fresh(u)
  BY DEF FetchInit, Fresh
<1>3. QED BY <1>1, <1>2, ClientsCounted DEF FetchInv, Bounded

(* A client starts and has asked for nothing.                              *)
LEMMA StartStep ==
  ASSUME FetchInv, NEW c \in Clients, StartJob(c) \/ StartMarket(c)
  PROVE  FetchInv'
<1>1. CASE StartJob(c)
  <2>1. PICK u \in Urls, more \in SUBSET Urls :
          client' = [client EXCEPT ![c] = [Resting EXCEPT !.pc = "robots", !.url = u,
                                                          !.left = more \ {u}]]
    BY <1>1 DEF StartJob
  <2>2. PICK k : k = [Resting EXCEPT !.pc = "robots", !.url = u, !.left = more \ {u}]
    OBVIOUS
  <2>3. k \in ClientRecords /\ k.pc = "robots"
    <3>1. k \in Frames /\ k.pc = "robots" /\ k.url = u
      BY <2>2, RestingShape DEF Frames, Labels
    <3>2. QED BY <3>1 DEF ClientRecords
  <2>4. QED BY <1>1, <2>1, <2>2, <2>3, QuietStep DEF StartJob
<1>2. CASE StartMarket(c)
  <2>1. PICK u \in Urls :
          client' = [client EXCEPT ![c] = [Resting EXCEPT !.pc = "robots", !.url = u,
                                                          !.attempt = 1]]
    BY <1>2 DEF StartMarket
  <2>2. PICK k : k = [Resting EXCEPT !.pc = "robots", !.url = u, !.attempt = 1]
    OBVIOUS
  <2>3. k \in ClientRecords /\ k.pc = "robots"
    <3>1. k \in Frames /\ k.pc = "robots" /\ k.url = u
      BY <2>2, RestingShape DEF Frames, Labels
    <3>2. QED BY <3>1 DEF ClientRecords
  <2>4. QED BY <1>2, <2>1, <2>2, <2>3, QuietStep DEF StartMarket
<1>3. QED BY <1>1, <1>2

(* The rules of a site are read.                                           *)
LEMMA CanFetchStep ==
  ASSUME FetchInv, NEW c \in Clients, NEW rules \in {"allow", "deny", "down"},
         NEW bypass \in BOOLEAN, CanFetch(c, rules, bypass)
  PROVE  FetchInv'
<1>1. client[c] \in ClientRecords /\ client[c].pc = "robots"
  BY DEF FetchInv, FetchTypes, CanFetch, At
<1>2. CASE rules = "allow" \/ bypass
  <2>1. PICK new \in {"unread", "allow", "deny", "down"} :
          new = (IF rules = "down" THEN "unread" ELSE rules)
    OBVIOUS
  <2>2. client' = [client EXCEPT ![c].pc = "lookup", ![c].rules = new]
    BY <1>2, <2>1 DEF CanFetch
  <2>3. PICK k : k = [client[c] EXCEPT !.pc = "lookup", !.rules = new]
    OBVIOUS
  <2>4. k \in ClientRecords /\ k.pc = "lookup"
    BY <1>1, <2>3 DEF ClientRecords, Frames, Labels
  <2>5. client' = [client EXCEPT ![c] = k]
    BY <2>2, <2>3 DEF FetchInv, FetchTypes
  <2>6. QED BY <2>4, <2>5, QuietStep DEF CanFetch
<1>3. CASE ~(rules = "allow" \/ bypass)
  <2>1. PICK back \in Returned(c, "blank") :
          client' = [client EXCEPT ![c] =
             IF c \in Jobs /\ back # Resting /\ rules # "down" THEN [back EXCEPT !.rules = rules]
             ELSE back]
    BY <1>3 DEF CanFetch
  <2>2. back \in ClientRecords /\ back.pc \in {"rest", "robots", "ended"}
    BY <1>1, ReturnedShape DEF Bodies
  <2>3. PICK k : k = IF c \in Jobs /\ back # Resting /\ rules # "down"
                       THEN [back EXCEPT !.rules = rules] ELSE back
    OBVIOUS
  <2>4. k \in ClientRecords /\ k.pc # "send"
    BY <2>2, <2>3 DEF ClientRecords, Frames
  <2>5. QED BY <2>1, <2>3, <2>4, QuietStep DEF CanFetch
<1>4. QED BY <1>2, <1>3

(* Only a client that finds no fresh row joins those that send.            *)
LEMMA LookupStep ==
  ASSUME FetchInv, NEW c \in Clients, Lookup(c)
  PROVE  FetchInv'
<1>1. client[c] \in ClientRecords /\ client[c].pc = "lookup"
  BY DEF FetchInv, FetchTypes, Lookup, At
<1>2. PICK v \in Urls : v = client[c].url
  BY <1>1 DEF ClientRecords, Frames
<1>3. CASE Fresh(v)
  <2>1. row[v] \in CachedRows
    BY <1>3 DEF FetchInv, FetchTypes, Fresh
  <2>2. PICK body \in Bodies : body = row[v].body
    BY <2>1 DEF CachedRows
  <2>3. PICK k \in Returned(c, body) : client' = [client EXCEPT ![c] = k]
    BY <1>2, <1>3, <2>2 DEF Lookup, Return
  <2>4. k \in ClientRecords /\ k.pc # "send"
    BY <1>1, ReturnedShape
  <2>5. QED BY <2>3, <2>4, QuietStep DEF Lookup
<1>4. CASE ~Fresh(v)
  <2>1. PICK wait \in Int : wait = Interval - client[c].since
    BY <1>1, FetchAssumption DEF ClientRecords, Frames
  <2>2. client' = [client EXCEPT ![c].pc = "send", ![c].sleep = wait] /\ UNCHANGED <<row, surplus>>
    BY <1>2, <1>4, <2>1 DEF Lookup
  <2>3. PICK k : k = [client[c] EXCEPT !.pc = "send", !.sleep = wait]
    OBVIOUS
  <2>4. k \in ClientRecords /\ k.pc = "send" /\ k.url = v
    BY <1>1, <1>2, <2>3 DEF ClientRecords, Frames, Labels
  <2>5. client' = [client EXCEPT ![c] = k]
    BY <2>2, <2>3 DEF FetchInv, FetchTypes
  <2>6. client'[c] = k /\ \A d \in Clients \ {c} : client'[d] = client[d]
    BY <2>5 DEF FetchInv, FetchTypes
  <2>7. ASSUME NEW u \in Urls
        PROVE  Bounded(u)'
    <3>1. CASE u = v
      BY <1>4, <2>2, <3>1 DEF FetchInv, Bounded, Fresh
    <3>2. CASE u # v
      <4>1. Senders(u)' = Senders(u)
        BY <1>1, <2>4, <2>6, <3>2 DEF Senders
      <4>2. QED BY <2>2, <4>1 DEF FetchInv, Bounded, Fresh
    <3>3. QED BY <3>1, <3>2
  <2>8. client' \in [Clients -> ClientRecords]
    BY <2>4, <2>5, TypesStay DEF FetchInv
  <2>9. QED BY <2>2, <2>7, <2>8 DEF FetchInv, FetchTypes
<1>5. QED BY <1>3, <1>4

(* A request that finds the row fresh is paid for by its own client.       *)
LEMMA SendStep ==
  ASSUME FetchInv, NEW c \in Clients, Send(c)
  PROVE  FetchInv'
<1>1. client[c] \in ClientRecords /\ client[c].pc = "send"
  BY DEF FetchInv, FetchTypes, Send, At
<1>2. PICK v \in Urls : v = client[c].url
  BY <1>1 DEF ClientRecords, Frames
<1>3. row' = row /\ surplus' = IF Fresh(v) THEN [surplus EXCEPT ![v] = @ + 1] ELSE surplus
  BY <1>2 DEF Send
<1>4. PICK k \in ClientRecords : client' = [client EXCEPT ![c] = k] /\ k.pc # "send"
  <2>1. CASE \E b \in Bodies :
               client' = [client EXCEPT ![c].pc = "store", ![c].since = 0, ![c].body = b]
    <3>1. PICK b \in Bodies :
            client' = [client EXCEPT ![c].pc = "store", ![c].since = 0, ![c].body = b]
      BY <2>1
    <3>2. PICK k : k = [client[c] EXCEPT !.pc = "store", !.since = 0, !.body = b]
      OBVIOUS
    <3>3. k \in ClientRecords /\ k.pc = "store"
      <4>1. client[c] \in Frames /\ client[c].url \in Urls
        BY <1>1 DEF ClientRecords
      <4>2. b \in Texts /\ "store" \in Labels /\ 0 \in Int
        BY DEF Labels, Texts
      <4>3. k \in Frames
        BY <3>2, <4>1, <4>2 DEF Frames
      <4>4. k.pc = "store" /\ k.url = client[c].url /\ k.body = b
        BY <3>2, <4>1 DEF Frames
      <4>5. QED BY <4>1, <4>3, <4>4 DEF ClientRecords
    <3>4. client' = [client EXCEPT ![c] = k]
      BY <3>1, <3>2 DEF FetchInv, FetchTypes
    <3>5. QED BY <3>3, <3>4
  <2>2. CASE Return(c, "raised")
    <3>1. PICK k \in Returned(c, "raised") : client' = [client EXCEPT ![c] = k]
      BY <2>2 DEF Return
    <3>2. k \in ClientRecords /\ k.pc # "send"
      BY <1>1, ReturnedShape
    <3>3. QED BY <3>1, <3>2
  <2>3. QED BY <2>1, <2>2 DEF Send
<1>5. client' \in [Clients -> ClientRecords]
  BY <1>4, TypesStay DEF FetchInv
<1>6. surplus' \in [Urls -> Nat]
  BY <1>3 DEF FetchInv, FetchTypes
<1>7. client'[c] = k /\ \A d \in Clients \ {c} : client'[d] = client[d]
  BY <1>4 DEF FetchInv, FetchTypes
<1>8. ASSUME NEW u \in Urls
      PROVE  Bounded(u)'
  <2>1. Senders(u)' = Senders(u) \ {c}
    BY <1>4, <1>7 DEF Senders
  <2>2. IsFiniteSet(Senders(u)) /\ Cardinality(Senders(u)) \in Nat
        /\ Cardinality(Senders(u)') \in Nat
    BY <2>1, SendersCounted, FS_RemoveElement, FS_CardinalityType, FS_Subset
  <2>3. surplus[u] \in Nat
    BY DEF FetchInv, FetchTypes
  <2>4. CASE u = v /\ Fresh(u)
    <3>1. c \in Senders(u)
      BY <1>1, <1>2, <2>4 DEF Senders
    <3>2. Cardinality(Senders(u)') = Cardinality(Senders(u)) - 1
      BY <2>1, <2>2, <3>1, FS_RemoveElement
    <3>3. surplus'[u] = surplus[u] + 1
      BY <1>3, <2>4 DEF FetchInv, FetchTypes
    <3>4. QED BY <2>2, <2>3, <2>4, <3>2, <3>3, ClientsCounted DEF FetchInv, Bounded
  <2>5. CASE ~(u = v /\ Fresh(u))
    <3>1. surplus'[u] = surplus[u] /\ (Fresh(u)' => Fresh(u))
      BY <1>3, <2>5 DEF FetchInv, FetchTypes, Fresh
    <3>2. Cardinality(Senders(u)') <= Cardinality(Senders(u))
      BY <2>1, <2>2, SubsetCounted
    <3>3. QED BY <2>2, <2>3, <3>1, <3>2, ClientsCounted DEF FetchInv, Bounded
  <2>6. QED BY <2>4, <2>5
<1>9. QED BY <1>3, <1>5, <1>6, <1>8 DEF FetchInv, FetchTypes

(* A row that becomes fresh owes nothing yet, and the client that stored   *)
(* it does not send.                                                       *)
LEMMA StoreStep ==
  ASSUME FetchInv, NEW c \in Clients, Store(c)
  PROVE  FetchInv'
<1>1. client[c] \in ClientRecords /\ client[c].pc = "store"
  BY DEF FetchInv, FetchTypes, Store, At
<1>2. PICK v \in Urls : v = client[c].url
  BY <1>1 DEF ClientRecords, Frames
<1>3. PICK b \in Bodies : b = client[c].body
  BY <1>1 DEF ClientRecords, Frames
<1>4. /\ row' = [row EXCEPT ![v] = [body |-> b, age |-> 0]]
      /\ surplus' = IF Fresh(v) THEN surplus ELSE [surplus EXCEPT ![v] = 0]
  BY <1>2, <1>3 DEF Store
<1>5. PICK k \in Returned(c, b) : client' = [client EXCEPT ![c] = k]
  BY <1>3 DEF Store, Return
<1>6. k \in ClientRecords /\ k.pc # "send"
  BY <1>1, ReturnedShape
<1>7. FetchTypes'
  <2>1. row' \in [Urls -> CachedRows \cup {Absent}]
    BY <1>4 DEF FetchInv, FetchTypes, CachedRows
  <2>2. surplus' \in [Urls -> Nat]
    BY <1>4 DEF FetchInv, FetchTypes
  <2>3. client' \in [Clients -> ClientRecords]
    BY <1>5, <1>6, TypesStay DEF FetchInv
  <2>4. QED BY <2>1, <2>2, <2>3 DEF FetchTypes
<1>8. client'[c] = k /\ \A d \in Clients \ {c} : client'[d] = client[d]
  BY <1>5 DEF FetchInv, FetchTypes
<1>9. ASSUME NEW u \in Urls
      PROVE  Bounded(u)'
  <2>1. Senders(u)' \subseteq Senders(u) /\ Senders(u)' \subseteq Clients \ {c}
    BY <1>6, <1>8 DEF Senders
  <2>2. /\ Cardinality(Senders(u)') \in Nat /\ Cardinality(Senders(u)) \in Nat
        /\ Cardinality(Senders(u)') <= Cardinality(Senders(u))
    BY <2>1, SendersCounted, SubsetCounted
  <2>3. IsFiniteSet(Clients \ {c})
    BY FetchAssumption, FS_RemoveElement
  <2>4. Cardinality(Senders(u)') <= Cardinality(Clients) - 1
    BY <2>1, <2>3, SubsetCounted, ClientsCounted
  <2>5. surplus[u] \in Nat
    BY DEF FetchInv, FetchTypes
  <2>6. CASE u = v /\ ~Fresh(v)
    <3>1. surplus'[u] = 0
      BY <1>4, <2>6 DEF FetchInv, FetchTypes
    <3>2. QED BY <2>2, <2>4, <3>1, ClientsCounted DEF Bounded
  <2>7. CASE ~(u = v /\ ~Fresh(v))
    <3>1. surplus'[u] = surplus[u]
      BY <1>4, <2>7 DEF FetchInv, FetchTypes
    <3>2. Fresh(u)' => Fresh(u)
      BY <1>4, <2>7 DEF FetchInv, FetchTypes, Fresh
    <3>3. QED BY <2>2, <2>5, <3>1, <3>2, ClientsCounted DEF FetchInv, Bounded
  <2>8. QED BY <2>6, <2>7
<1>10. QED BY <1>7, <1>9 DEF FetchInv

-----------------------------------------------------------------------------
(* A client that ends sends nothing.                                       *)
LEMMA EndStep ==
  ASSUME FetchInv, NEW c \in Clients, EndMarket(c) \/ Stop(c)
  PROVE  FetchInv'
<1>1. client' = [client EXCEPT ![c] = Resting] /\ UNCHANGED <<row, surplus>>
  BY DEF EndMarket, Stop
<1>2. QED BY <1>1, RestingShape, QuietStep

(* Rows that go only end the account of a page.                            *)
LEMMA MaintainStep ==
  ASSUME FetchInv, NEW maxRows, PurgeExpired \/ EnforceMaxRows(maxRows)
  PROVE  FetchInv'
<1>1. PICK keep \in SUBSET Urls : row' = [u \in Urls |-> IF u \in keep THEN row[u] ELSE Absent]
  <2>1. CASE PurgeExpired
    <3>1. PICK unexpired \in SUBSET Urls : unexpired = {u \in Urls : Fresh(u)}
      OBVIOUS
    <3>2. row' = [u \in Urls |-> IF u \in unexpired THEN row[u] ELSE Absent]
      BY <2>1, <3>1 DEF PurgeExpired
    <3>3. QED BY <3>2
  <2>2. CASE EnforceMaxRows(maxRows)
    BY <2>2 DEF EnforceMaxRows, Cached
  <2>3. QED BY <2>1, <2>2
<1>2. UNCHANGED <<client, surplus>>
  BY DEF PurgeExpired, EnforceMaxRows
<1>3. FetchTypes'
  BY <1>1, <1>2 DEF FetchInv, FetchTypes
<1>4. ASSUME NEW u \in Urls
      PROVE  Bounded(u)'
  <2>1. Senders(u)' = Senders(u)
    BY <1>2 DEF Senders
  <2>2. Fresh(u)' => Fresh(u)
    BY <1>1 DEF Fresh
  <2>3. QED BY <1>2, <2>1, <2>2 DEF FetchInv, Bounded
<1>5. QED BY <1>3, <1>4 DEF FetchInv

(* Time only makes a row less fresh.                                       *)
LEMMA PassStep ==
  ASSUME FetchInv, Pass
  PROVE  FetchInv'
<1>1. row' = [u \in Urls |-> IF Fresh(u) THEN [row[u] EXCEPT !.age = @ + 1] ELSE row[u]]
  BY DEF Pass
<1>2. ASSUME NEW c \in Clients
      PROVE  /\ client'[c] \in ClientRecords
             /\ client'[c].pc = client[c].pc /\ client'[c].url = client[c].url
  <2>1. client[c] \in ClientRecords
    BY DEF FetchInv, FetchTypes
  <2>2. client[c].since + 1 \in Int /\ client[c].sleep - 1 \in Int /\ Interval \in Int
    BY <2>1, FetchAssumption DEF ClientRecords, Frames
  <2>3. PICK a \in Int, b \in Int : /\ a = Min({client[c].since + 1, Interval})
                                    /\ b = Max({client[c].sleep - 1, 0})
    <3>1. /\ Min({client[c].since + 1, Interval}) \in Int
          /\ Max({client[c].sleep - 1, 0}) \in Int
      <4>1. 0 \in Int
        OBVIOUS
      <4>2. QED BY <2>2, <4>1, TwoNumbers
    <3>2. QED BY <3>1
  <2>4. client'[c] = [client[c] EXCEPT !.since = a, !.sleep = b]
    BY <2>3 DEF Pass
  <2>5. QED BY <2>1, <2>4 DEF ClientRecords, Frames
<1>3. row' \in [Urls -> CachedRows \cup {Absent}]
  <2>1. ASSUME NEW u \in Urls, Fresh(u)
        PROVE  [row[u] EXCEPT !.age = @ + 1] \in CachedRows
    BY <2>1 DEF FetchInv, FetchTypes, Fresh, CachedRows
  <2>2. QED BY <1>1, <2>1 DEF FetchInv, FetchTypes
<1>4. FetchTypes'
  <2>1. client' \in [Clients -> ClientRecords]
    BY <1>2 DEF Pass
  <2>2. QED BY <1>3, <2>1 DEF Pass, FetchInv, FetchTypes
<1>5. ASSUME NEW u \in Urls
      PROVE  Bounded(u)'
  <2>1. Senders(u)' = Senders(u)
    BY <1>2 DEF Senders
  <2>2. ~Fresh(u) => row'[u] = row[u]
    BY <1>1
  <2>3. Fresh(u)' => Fresh(u)
    BY <2>2 DEF Fresh
  <2>4. QED BY <2>1, <2>3 DEF Pass, FetchInv, Bounded
<1>6. QED BY <1>4, <1>5 DEF FetchInv

-----------------------------------------------------------------------------
(* No step breaks it.                                                      *)
LEMMA NextKeeps == FetchInv /\ [FetchNext]_fetchVars => FetchInv'
<1> SUFFICES ASSUME FetchInv, [FetchNext]_fetchVars
             PROVE  FetchInv'
  OBVIOUS
<1>1. ASSUME NEW c \in Jobs, StartJob(c)
      PROVE  FetchInv'
  BY <1>1, StartStep DEF Clients
<1>2. ASSUME NEW c \in Markets, StartMarket(c) \/ EndMarket(c)
      PROVE  FetchInv'
  BY <1>2, StartStep, EndStep DEF Clients
<1>3. ASSUME NEW c \in Clients, NEW rules \in {"allow", "deny", "down"}, NEW bypass \in BOOLEAN,
             CanFetch(c, rules, bypass)
      PROVE  FetchInv'
  BY <1>3, CanFetchStep
<1>4. ASSUME NEW c \in Clients, Lookup(c) \/ Send(c) \/ Store(c) \/ Stop(c)
      PROVE  FetchInv'
  BY <1>4, LookupStep, SendStep, StoreStep, EndStep
<1>5. ASSUME NEW maxRows, PurgeExpired \/ EnforceMaxRows(maxRows)
      PROVE  FetchInv'
  BY <1>5, MaintainStep
<1>6. CASE Pass
  BY <1>6, PassStep
<1>7. CASE UNCHANGED fetchVars
  BY <1>7 DEF fetchVars, FetchInv, FetchTypes, Bounded, Fresh, Senders
<1>8. QED BY <1>1, <1>2, <1>3, <1>4, <1>5, <1>6, <1>7 DEF FetchNext

(* The invariant holds of every behaviour of the clients.                  *)
THEOREM FetchInvAlways == FetchSpec => []FetchInv
BY InitHolds, NextKeeps, PTL DEF FetchSpec

(* However the clients interleave, age and stop, while a page has a fresh  *)
(* row every other client asks the server for it at most once.             *)
THEOREM BurstIsBounded == FetchSpec => []BurstBounded
<1>1. FetchInv => BurstBounded
  BY DEF FetchInv, Bounded, BurstBounded
<1>2. QED BY <1>1, FetchInvAlways, PTL


-----------------------------------------------------------------------------
(***************************************************************************)
(* The gates of a slice, for any tickers, manifests and prices, any number *)
(* of scripts run and stopped, and any edits between them.                 *)
(*                                                                         *)
(* The evidence is an invariant by itself, of every row of every file.     *)
(* The agreement of the summaries is one when it says what each summary    *)
(* is, not only what its counter is: a script rewrites one of them from    *)
(* what it reads in another.                                               *)
(***************************************************************************)

Prices == [high: Nat, close: Nat]

FittingRows ==
  {line \in [ohlc: Prices, source: Prices] : line.source \in {NoBar, line.ohlc}}
FittingReviews ==
  {line \in [ohlc: Prices, source: Prices, approved: BOOLEAN] :
     line.source \in {NoBar, line.ohlc}}
OfferedRows ==
  {line \in [ohlc: Prices, source: Prices] :
     line.source = line.ohlc /\ line.ohlc.high >= line.ohlc.close}

(* A table of such rows, of some tickers.                                  *)
Table(f, rows) == f \in [DOMAIN f -> rows]

EvidenceInv ==
  /\ stops \in Nat
  /\ manifest \subseteq Tickers /\ DOMAIN template \subseteq Tickers
  /\ bars \in [Tickers -> Prices]
  /\ Table(template, FittingRows)
  /\ Table(queue, FittingReviews)
  /\ Table(preview, OfferedRows)

(* The prices of a day without a bar.                                      *)
LEMMA NoBarIsPrice ==
  NoBar \in Prices /\ NoBar.high = 0 /\ NoBar.close = 0 /\ Bars \subseteq Prices
  BY BarsAssumption DEF NoBar, Prices

(* What a script leaves of a table: the new one, the first rows of it, or  *)
(* what was there.                                                         *)
LEMMA TableWritten ==
  ASSUME NEW rows, NEW new, NEW old, NEW kept, NEW position, NEW stop,
         Table(new, rows), Table(old, rows)
  PROVE  Table(Written(position, stop, new, CutTable(new, kept), old), rows)
<1>1. Table(CutTable(new, kept), rows)
  BY DEF Table, CutTable
<1>2. Written(position, stop, new, CutTable(new, kept), old) \in {new, CutTable(new, kept), old}
  BY DEF Written
<1>3. QED BY <1>1, <1>2

(* The input rows of a fitting template fit.                               *)
LEMMA InputRowsFit ==
  ASSUME Table(template, FittingRows)
  PROVE  Table(InputRows, FittingRows)
<1>1. Blank \in FittingRows
  BY NoBarIsPrice DEF Blank, FittingRows
<1>2. QED BY <1>1 DEF Table, InputRows

(* A row without an issue has a source, which can only be its own prices.  *)
LEMMA ReadyRowsAreOffered ==
  ASSUME NEW line \in FittingRows, Issues(line) = {}
  PROVE  line \in OfferedRows
<1>1. Missing(line) = {}
  BY DEF Issues
<1>2. line.source = line.ohlc
  BY <1>1 DEF Missing, FittingRows
<1>3. Priced \cap Missing(line) = {}
  BY <1>1
<1>4. ~(line.ohlc.high < line.ohlc.close)
  BY <1>3 DEF Issues
<1>5. line.ohlc.high \in Nat /\ line.ohlc.close \in Nat
  BY DEF FittingRows, Prices
<1>6. QED BY <1>2, <1>4, <1>5 DEF FittingRows, OfferedRows

(* So does the queue of rows to review.                                    *)
LEMMA ReviewQueueFits ==
  ASSUME bars \in [Tickers -> Prices], DOMAIN template \subseteq Tickers
  PROVE  Table(ReviewQueue, FittingReviews)
BY NoBarIsPrice DEF Table, ReviewQueue, FittingReviews

(* No file is there at the start.                                          *)
LEMMA InitEvidence == GatesInit => EvidenceInv
<1> SUFFICES ASSUME GatesInit PROVE EvidenceInv
  OBVIOUS
<1>1. bars \in [Tickers -> Prices]
  BY NoBarIsPrice DEF GatesInit
<1>2. \A rows : Table(<<>>, rows)
  BY DEF Table
<1>3. manifest \subseteq Tickers
  BY ManifestsAssumption DEF GatesInit
<1>4. QED BY <1>1, <1>2, <1>3 DEF GatesInit, EvidenceInv

(* A slice build takes a source over only beside its prices.               *)
LEMMA SliceKeepsEvidence ==
  ASSUME EvidenceInv, NEW stop, NEW kept, BuildSlice(stop, kept)
  PROVE  EvidenceInv'
<1> DEFINE issues == [t \in manifest |-> Issues(InputRows[t])]
           lines  == [t \in ReadyRows(issues) |-> InputRows[t]]
<1>1. /\ stop \in 1 .. 7 /\ stops' = stops + (IF stop < 7 THEN 1 ELSE 0)
      /\ template' = Written(1, stop, InputRows, CutTable(InputRows, kept), template)
      /\ preview' = Written(2, stop, lines, CutTable(lines, kept), preview)
      /\ UNCHANGED <<manifest, bars, queue>>
  BY DEF BuildSlice, Build
<1>2. Table(InputRows, FittingRows) /\ DOMAIN InputRows = manifest
  BY InputRowsFit DEF EvidenceInv, InputRows
<1>3. Table(lines, OfferedRows)
  <2> SUFFICES ASSUME NEW t \in ReadyRows(issues) PROVE InputRows[t] \in OfferedRows
    BY DEF Table
  <2>1. t \in manifest /\ Issues(InputRows[t]) = {}
    BY DEF ReadyRows
  <2>2. InputRows[t] \in FittingRows
    BY <1>2, <2>1 DEF Table
  <2>3. QED BY <2>1, <2>2, ReadyRowsAreOffered
<1> HIDE DEF issues, lines
<1>4. Table(template, FittingRows)'
  BY <1>1, <1>2, TableWritten DEF EvidenceInv, Table
<1>5. Table(preview, OfferedRows)'
  BY <1>1, <1>3, TableWritten DEF EvidenceInv, Table
<1>6. DOMAIN template' \subseteq Tickers
  BY <1>1, <1>2 DEF EvidenceInv, Written, CutTable
<1>7. QED BY <1>1, <1>4, <1>5, <1>6 DEF EvidenceInv, Table

(* So does a build of the evidence.                                        *)
LEMMA EvidenceKeepsEvidence ==
  ASSUME EvidenceInv, NEW stop, NEW kept, BuildEvidence(stop, kept)
  PROVE  EvidenceInv'
<1>1. /\ stop \in 1 .. 2 /\ stops' = stops + (IF stop < 2 THEN 1 ELSE 0)
      /\ queue' = Written(1, stop, ReviewQueue, CutTable(ReviewQueue, kept), queue)
      /\ UNCHANGED <<manifest, bars, template, preview>>
  BY DEF BuildEvidence, Build, sliceVars
<1>2. Table(ReviewQueue, FittingReviews)
  BY ReviewQueueFits DEF EvidenceInv
<1>3. Table(queue, FittingReviews)'
  BY <1>1, <1>2, TableWritten DEF EvidenceInv, Table
<1>4. QED BY <1>1, <1>3 DEF EvidenceInv, Table

(* People: a page is noted beside the prices it was opened for.            *)
LEMMA EditsKeepEvidence ==
  ASSUME EvidenceInv,
         \/ \E t \in Tickers : ReviewRow(t)
         \/ CopyRows
         \/ \E t \in Tickers, bar \in Bars : TypeRow(t, bar) \/ NewBars(t, bar)
         \/ NewManifest
         \/ NewWorkflow
  PROVE  EvidenceInv'
<1> USE DEF EvidenceInv, Table, Edit, inputVars
<1>1. ASSUME NEW t \in Tickers, ReviewRow(t) PROVE EvidenceInv'
  <2>1. queue[t] \in FittingReviews /\ t \in DOMAIN queue
    BY <1>1 DEF ReviewRow
  <2>2. PICK ok \in BOOLEAN :
          queue' = [queue EXCEPT ![t].source = queue[t].ohlc, ![t].approved = ok]
    BY <1>1 DEF ReviewRow
  <2>3. queue'[t] = [ohlc |-> queue[t].ohlc, source |-> queue[t].ohlc, approved |-> ok]
    BY <2>1, <2>2 DEF FittingReviews
  <2>4. queue'[t] \in FittingReviews
    BY <2>1, <2>3 DEF FittingReviews
  <2>5. Table(queue, FittingReviews)'
    BY <2>2, <2>4
  <2>6. QED BY <1>1, <2>5 DEF ReviewRow
<1>2. CASE CopyRows
  <2>1. ASSUME NEW t \in DOMAIN queue
        PROVE  [ohlc |-> queue[t].ohlc, source |-> queue[t].source] \in FittingRows
    BY DEF FittingReviews, FittingRows
  <2>2. Table(template, FittingRows)' /\ DOMAIN template' = DOMAIN template
    BY <1>2, <2>1 DEF CopyRows
  <2>3. QED BY <1>2, <2>2 DEF CopyRows
<1>3. ASSUME NEW t \in Tickers, NEW bar \in Bars, TypeRow(t, bar) PROVE EvidenceInv'
  <2>1. PICK source \in {NoBar, bar} :
          template' = [template EXCEPT ![t] = [ohlc |-> bar, source |-> source]]
    BY <1>3 DEF TypeRow
  <2>2. [ohlc |-> bar, source |-> source] \in FittingRows
    BY NoBarIsPrice DEF FittingRows
  <2>3. Table(template, FittingRows)' /\ DOMAIN template' = DOMAIN template
    BY <2>1, <2>2
  <2>4. QED BY <1>3, <2>3 DEF TypeRow
<1>4. ASSUME NEW t \in Tickers, NEW bar \in Bars, NewBars(t, bar) PROVE EvidenceInv'
  BY <1>4, NoBarIsPrice DEF NewBars
<1>5. CASE NewManifest
  BY <1>5, ManifestsAssumption DEF NewManifest
<1>6. CASE NewWorkflow
  BY <1>6 DEF NewWorkflow
<1>7. QED BY <1>1, <1>2, <1>3, <1>4, <1>5, <1>6

(* Every row of every file has the source of its prices or none.           *)
LEMMA EvidenceAlways == GatesSpec => []EvidenceInv
<1>1. ASSUME EvidenceInv, [GatesNext]_gateVars PROVE EvidenceInv'
  <2>1. CASE \E stop \in 1 .. 7, kept \in SUBSET Tickers : BuildSlice(stop, kept)
    BY <1>1, <2>1, SliceKeepsEvidence
  <2>2. CASE \E stop \in 1 .. 2 : BuildBacklog(stop) \/ BuildGate(stop) \/ BuildReview(stop)
    <3>1. /\ UNCHANGED <<manifest, bars, template, queue, preview>>
          /\ \E stop \in 1 .. 2 : stops' = stops + (IF stop < 2 THEN 1 ELSE 0)
      BY <2>2 DEF BuildBacklog, BuildGate, BuildReview, Build, sliceVars
    <3>2. QED BY <1>1, <3>1 DEF EvidenceInv, Table
  <2>3. CASE \E stop \in 1 .. 2, kept \in SUBSET Tickers : BuildEvidence(stop, kept)
    BY <1>1, <2>3, EvidenceKeepsEvidence
  <2>4. CASE \/ \E t \in Tickers : ReviewRow(t)
             \/ CopyRows
             \/ \E t \in Tickers, bar \in Bars : TypeRow(t, bar) \/ NewBars(t, bar)
             \/ NewManifest
             \/ NewWorkflow
    BY <1>1, <2>4, EditsKeepEvidence
  <2>5. CASE UNCHANGED gateVars
    BY <1>1, <2>5 DEF gateVars, EvidenceInv, Table
  <2>6. QED BY <1>1, <2>1, <2>2, <2>3, <2>4, <2>5 DEF GatesNext
<1>2. QED BY <1>1, InitEvidence, PTL DEF GatesSpec

(* Whatever is rebuilt, refreshed, typed, copied or stopped, no file shows *)
(* a source beside prices it was not looked up for, and what is offered    *)
(* for appending has one.                                                  *)
THEOREM EvidenceStaysWithPrices == GatesSpec => []EvidenceFitsPrices
<1>1. EvidenceInv => EvidenceFitsPrices
  BY DEF EvidenceInv, Table, EvidenceFitsPrices, FittingRows, FittingReviews, OfferedRows
<1>2. QED BY <1>1, EvidenceAlways, PTL


(* What people typed survives the scripts: a build that runs to its end    *)
(* keeps the row of every ticker of the slice as it was.                   *)
THEOREM TypedRowsSurvive == GatesSpec => InputKept
<1> DEFINE Survives ==
      builds' # builds /\ stops' = 0
        => \A t \in DOMAIN template \cap manifest :
             t \in DOMAIN template' /\ template'[t] = template[t]
<1>1. ASSUME EvidenceInv, [GatesNext]_gateVars PROVE Survives
  <2> SUFFICES ASSUME builds' # builds, stops' = 0,
                      NEW t \in DOMAIN template \cap manifest
               PROVE  t \in DOMAIN template' /\ template'[t] = template[t]
    OBVIOUS
  <2>1. CASE \E stop \in 1 .. 7, kept \in SUBSET Tickers : BuildSlice(stop, kept)
    <3>1. PICK stop \in 1 .. 7, kept \in SUBSET Tickers : BuildSlice(stop, kept)
      BY <2>1
    <3>2. /\ stops' = stops + (IF stop < 7 THEN 1 ELSE 0)
          /\ template' = Written(1, stop, InputRows, CutTable(InputRows, kept), template)
      BY <3>1 DEF BuildSlice, Build
    <3>3. stop = 7
      BY <1>1, <3>2 DEF EvidenceInv
    <3>4. template' = InputRows
      BY <3>2, <3>3 DEF Written
    <3>5. QED BY <3>4 DEF InputRows
  <2>2. CASE \/ \E stop \in 1 .. 2 : BuildBacklog(stop) \/ BuildGate(stop) \/ BuildReview(stop)
             \/ \E stop \in 1 .. 2, kept \in SUBSET Tickers : BuildEvidence(stop, kept)
    <3>1. UNCHANGED template
      BY <2>2 DEF BuildBacklog, BuildGate, BuildReview, BuildEvidence
    <3>2. QED BY <3>1
  <2>3. CASE \/ \E t_1 \in Tickers : ReviewRow(t_1)
             \/ CopyRows
             \/ \E t_1 \in Tickers, bar \in Bars : TypeRow(t_1, bar) \/ NewBars(t_1, bar)
             \/ NewManifest
             \/ NewWorkflow
             \/ UNCHANGED gateVars
    <3>1. UNCHANGED builds
      BY <2>3 DEF ReviewRow, CopyRows, TypeRow, NewBars, NewManifest, NewWorkflow, Edit, gateVars
    <3>2. QED BY <3>1
  <2>4. QED BY <1>1, <2>1, <2>2, <2>3 DEF GatesNext
<1>2. QED BY <1>1, EvidenceAlways, PTL DEF GatesSpec, InputKept


(* The summaries of a slice with these issues.                             *)
Intake(issues)   == Whole([issues |-> issues])
Overview(issues) == Whole([blockers |-> Count(issues), append |-> AppendReady(issues)])
Backlog(issues)  == Whole([blockers |-> Count(issues), append |-> AppendReady(issues),
                           fields |-> FieldReady(issues)])
Counter(n)       == Whole([blockers |-> n])
Sprint(n, ok)    == Whole([blockers |-> n, complete |-> ok])

(* What they hold, as the records they are.                                *)
LEMMA SummaryRecords ==
  /\ \A b : Intake(b) = [file |-> "whole", issues |-> b]
  /\ \A b : Overview(b) = [file |-> "whole", blockers |-> Count(b), append |-> AppendReady(b)]
  /\ \A b : Backlog(b) = [file |-> "whole", blockers |-> Count(b), append |-> AppendReady(b),
                          fields |-> FieldReady(b)]
  /\ \A n : Counter(n) = [file |-> "whole", blockers |-> n]
  /\ \A n, ok : Sprint(n, ok) = [file |-> "whole", blockers |-> n, complete |-> ok]
<1>1. \A b : Intake(b) = [file |-> "whole", issues |-> b]
  BY DEF Intake, Whole
<1>2. \A b : Overview(b) = [file |-> "whole", blockers |-> Count(b), append |-> AppendReady(b)]
  BY DEF Overview, Whole
<1>3. \A b : Backlog(b) = [file |-> "whole", blockers |-> Count(b), append |-> AppendReady(b),
                          fields |-> FieldReady(b)]
  BY DEF Backlog, Whole
<1>4. \A n : Counter(n) = [file |-> "whole", blockers |-> n]
  BY DEF Counter, Whole
<1>5. \A n, ok : Sprint(n, ok) = [file |-> "whole", blockers |-> n, complete |-> ok]
  BY DEF Sprint, Whole
<1>6. QED BY <1>1, <1>2, <1>3, <1>4, <1>5

BeforeTheSlice ==
  /\ intake = NoFile /\ overview = NoFile
  /\ workflow \in {NoFile, Counter(-1)}
  /\ fresh \subseteq {"review"}
  /\ review # NoFile => \E ok : review = Sprint(0, ok)

AfterTheSlice(issues) ==
  /\ intake = Intake(issues)
  /\ overview = Overview(issues)
  /\ workflow \in {NoFile, Counter(-1), Counter(Count(issues))}
  /\ "workflow" \in fresh => workflow = Counter(Count(issues))
  /\ "backlog" \in fresh => backlog = Backlog(issues)
  /\ review # NoFile =>
       \E ok : /\ review = Sprint(Count(issues), ok)
               /\ "review" \in fresh => (ok <=> Count(issues) # 0)
  /\ review = NoFile => "review" \notin fresh

SummaryInv == stops = 0 => BeforeTheSlice \/ \E issues : AfterTheSlice(issues)

(* A slice that can be appended leaves no field blocked.                   *)
LEMMA ReadySliceIsFree ==
  ASSUME NEW issues, AppendReady(issues)
  PROVE  FieldReady(issues) = Priced \cup {"source"}
<1>1. \A t \in DOMAIN issues : issues[t] = {}
  BY DEF AppendReady, ReadyRows
<1>2. QED BY <1>1 DEF FieldReady

(* No slice has been built at the start.                                   *)
LEMMA InitSummary == GatesInit => SummaryInv
BY DEF GatesInit, SummaryInv, BeforeTheSlice, Counter

(* A build that runs to its end writes or patches all of them.             *)
LEMMA SliceKeepsSummary ==
  ASSUME EvidenceInv, SummaryInv, NEW stop, NEW kept, BuildSlice(stop, kept)
  PROVE  SummaryInv'
<1> SUFFICES ASSUME stops' = 0 PROVE \E issues : AfterTheSlice(issues)'
  BY DEF SummaryInv
<1> PICK issues : issues = [t \in manifest |-> Issues(InputRows[t])]
  OBVIOUS
<1>1. stop = 7 /\ stops = 0
  BY DEF EvidenceInv, BuildSlice, Build
<1>2. /\ overview' = Overview(issues)
      /\ intake' = Intake(issues)
  BY <1>1 DEF BuildSlice, Written, Overview, Intake
<1>3. workflow = NoFile \/ \E n : workflow = Counter(n)
  BY <1>1 DEF SummaryInv, BeforeTheSlice, AfterTheSlice
<1>4. review = NoFile \/ \E n, ok : review = Sprint(n, ok)
  BY <1>1 DEF SummaryInv, BeforeTheSlice, AfterTheSlice
<1>5. /\ workflow' = IF workflow = NoFile THEN NoFile ELSE Counter(Count(issues))
      /\ fresh' = IF workflow = NoFile THEN {} ELSE {"workflow"}
  <2>1. CASE workflow = NoFile
    BY <2>1 DEF BuildSlice
  <2>2. CASE \E n : workflow = Counter(n)
    <3>1. PICK n : workflow = [file |-> "whole", blockers |-> n]
      BY <2>2, SummaryRecords
    <3>2. Patched(workflow, Count(issues)) = [file |-> "whole", blockers |-> Count(issues)]
      BY <3>1 DEF Patched, NoFile
    <3>3. workflow # NoFile /\ Readable(workflow)
      BY <3>1 DEF NoFile, Readable
    <3>4. workflow' = Patched(workflow, Count(issues)) /\ fresh' = {"workflow"}
      BY <1>1, <3>3 DEF BuildSlice, Written
    <3>5. QED BY <3>2, <3>3, <3>4, SummaryRecords
  <2>3. QED BY <1>3, <2>1, <2>2
<1>6. review' = NoFile \/ \E ok : review' = Sprint(Count(issues), ok)
  <2>1. CASE review = NoFile
    BY <2>1 DEF BuildSlice
  <2>2. CASE \E n, ok : review = Sprint(n, ok)
    <3>1. PICK n, ok : review = [file |-> "whole", blockers |-> n, complete |-> ok]
      BY <2>2, SummaryRecords
    <3>2. Patched(review, Count(issues))
            = [file |-> "whole", blockers |-> Count(issues), complete |-> ok]
      BY <3>1 DEF Patched, NoFile
    <3>3. review # NoFile /\ Readable(review)
      BY <3>1 DEF NoFile, Readable
    <3>4. review' = Patched(review, Count(issues))
      BY <1>1, <3>3 DEF BuildSlice, Written
    <3>5. QED BY <3>2, <3>4, SummaryRecords
  <2>3. QED BY <1>4, <2>1, <2>2
<1>7. QED BY <1>2, <1>5, <1>6 DEF AfterTheSlice

(* The backlog writes its own summary from the issues.                     *)
LEMMA BacklogKeepsSummary ==
  ASSUME EvidenceInv, SummaryInv, NEW stop, BuildBacklog(stop)
  PROVE  SummaryInv'
<1> SUFFICES ASSUME stops' = 0 PROVE \E issues : AfterTheSlice(issues)'
  BY DEF SummaryInv
<1>1. stop = 2 /\ stops = 0
  BY DEF EvidenceInv, BuildBacklog, Build
<1>2. intake # NoFile
  BY DEF BuildBacklog, IsWhole, NoFile
<1>3. PICK issues : AfterTheSlice(issues)
  BY <1>1, <1>2 DEF SummaryInv, BeforeTheSlice
<1>4. intake.issues = issues
  BY <1>3, SummaryRecords DEF AfterTheSlice
<1>5. backlog' = Backlog(issues) /\ fresh' = fresh \cup {"backlog"}
  BY <1>1, <1>4 DEF BuildBacklog, Written, Backlog
<1>6. UNCHANGED <<intake, overview, workflow, review>>
  BY DEF BuildBacklog, sliceVars
<1>7. QED BY <1>3, <1>5, <1>6 DEF AfterTheSlice

(* So does the review.                                                     *)
LEMMA ReviewKeepsSummary ==
  ASSUME EvidenceInv, SummaryInv, NEW stop, BuildReview(stop)
  PROVE  SummaryInv'
<1> SUFFICES ASSUME stops' = 0 PROVE BeforeTheSlice' \/ \E issues : AfterTheSlice(issues)'
  BY DEF SummaryInv
<1>1. stop = 2 /\ stops = 0
  BY DEF EvidenceInv, BuildReview, Build
<1>2. /\ review' = Sprint(ActiveBlockers, ActiveBlockers # 0)
      /\ fresh' = fresh \cup {"review"}
      /\ UNCHANGED <<intake, overview, workflow, backlog>>
  BY <1>1 DEF BuildReview, Written, Sprint, sliceVars
<1>3. review' # NoFile
  BY <1>2, SummaryRecords DEF NoFile
<1>4. CASE BeforeTheSlice
  <2>1. ActiveBlockers = 0
    BY <1>4, SummaryRecords DEF BeforeTheSlice, ActiveBlockers, IsWhole, NoFile
  <2>2. QED BY <1>2, <1>4, <2>1 DEF BeforeTheSlice
<1>5. ASSUME NEW issues, AfterTheSlice(issues) PROVE AfterTheSlice(issues)'
  <2>1. IsWhole(overview) /\ overview.blockers = Count(issues)
    BY <1>5, SummaryRecords DEF AfterTheSlice, IsWhole
  <2>2. ~IsWhole(workflow) \/ ~(workflow.blockers >= 0) \/ workflow.blockers = Count(issues)
    BY <1>5, SummaryRecords DEF AfterTheSlice, IsWhole, NoFile
  <2>3. ActiveBlockers = Count(issues)
    BY <2>1, <2>2 DEF ActiveBlockers
  <2>4. QED BY <1>2, <1>3, <1>5, <2>3 DEF AfterTheSlice
<1>6. QED BY <1>1, <1>4, <1>5 DEF SummaryInv

(* The other scripts and the people leave the summaries alone, but for a   *)
(* new workflow, which counts nothing yet.                                 *)
LEMMA OthersKeepSummary ==
  ASSUME SummaryInv, UNCHANGED <<stops, intake, overview, backlog, review>>,
         \/ UNCHANGED <<workflow, fresh>>
         \/ workflow' = Counter(-1) /\ fresh' = fresh \ {"workflow"}
  PROVE  SummaryInv'
<1> SUFFICES ASSUME stops = 0 PROVE BeforeTheSlice' \/ \E issues : AfterTheSlice(issues)'
  BY DEF SummaryInv
<1>1. CASE BeforeTheSlice
  BY <1>1 DEF BeforeTheSlice
<1>2. ASSUME NEW issues, AfterTheSlice(issues) PROVE AfterTheSlice(issues)'
  BY <1>2 DEF AfterTheSlice
<1>3. QED BY <1>1, <1>2 DEF SummaryInv

(* After a stop nothing is claimed.                                        *)
LEMMA StopKeepsSummary ==
  ASSUME EvidenceInv, stops' # 0 PROVE SummaryInv'
BY DEF SummaryInv

(* Until a stop each summary is a function of the issues of the last       *)
(* slice.                                                                  *)
LEMMA SummaryAlways == GatesSpec => []SummaryInv
<1>1. ASSUME EvidenceInv, SummaryInv, [GatesNext]_gateVars PROVE SummaryInv'
  <2> USE <1>1
  <2>1. CASE \E stop \in 1 .. 7, kept \in SUBSET Tickers : BuildSlice(stop, kept)
    BY <2>1, SliceKeepsSummary
  <2>2. CASE \E stop \in 1 .. 2 : BuildBacklog(stop)
    BY <2>2, BacklogKeepsSummary
  <2>3. CASE \E stop \in 1 .. 2 : BuildReview(stop)
    BY <2>3, ReviewKeepsSummary
  <2>4. CASE \/ \E stop \in 1 .. 2, kept \in SUBSET Tickers : BuildEvidence(stop, kept)
             \/ \E stop \in 1 .. 2 : BuildGate(stop)
    <3>1. PICK stop \in 1 .. 2 : stops' = stops + (IF stop < 2 THEN 1 ELSE 0)
      BY <2>4 DEF BuildEvidence, BuildGate, Build
    <3>2. UNCHANGED <<intake, overview, workflow, fresh, backlog, review>>
      BY <2>4 DEF BuildEvidence, BuildGate, sliceVars, laterVars
    <3>3. stops' = stops \/ stops' # 0
      BY <3>1 DEF EvidenceInv
    <3>4. QED BY <3>2, <3>3, OthersKeepSummary, StopKeepsSummary
  <2>5. CASE \/ \E t \in Tickers : ReviewRow(t)
             \/ CopyRows
             \/ \E t \in Tickers, bar \in Bars : TypeRow(t, bar) \/ NewBars(t, bar)
             \/ NewManifest
             \/ UNCHANGED gateVars
    <3>1. UNCHANGED <<stops, intake, overview, workflow, fresh, backlog, review>>
      BY <2>5 DEF ReviewRow, CopyRows, TypeRow, NewBars, NewManifest, Edit, laterVars, gateVars
    <3>2. QED BY <3>1, OthersKeepSummary
  <2>6. CASE NewWorkflow
    <3>1. /\ UNCHANGED <<stops, intake, overview, backlog, review>>
          /\ workflow' = Counter(-1) /\ fresh' = fresh \ {"workflow"}
      BY <2>6 DEF NewWorkflow, Edit, laterVars, Counter
    <3>2. QED BY <3>1, OthersKeepSummary
  <2>7. QED BY <2>1, <2>2, <2>3, <2>4, <2>5, <2>6 DEF GatesNext
<1>2. QED BY <1>1, InitSummary, EvidenceAlways, PTL DEF GatesSpec

(* Until a script is stopped, the five summaries say the same of the       *)
(* slice, whatever order the scripts are run in and whoever edits what     *)
(* between them.                                                           *)
THEOREM SummariesAgree == GatesSpec => []SummariesAgreeUnlessCut
<1>1. SummaryInv => SummariesAgreeUnlessCut
  <2> SUFFICES ASSUME SummaryInv, stops = 0, IsWhole(intake)
               PROVE  LET n == Count(intake.issues)
                      IN  /\ overview.blockers = n
                          /\ "workflow" \in fresh => workflow.blockers = n
                          /\ "backlog" \in fresh =>
                               /\ backlog.blockers = n
                               /\ backlog.append = overview.append
                               /\ backlog.append => backlog.fields = Priced \cup {"source"}
                          /\ review # NoFile => review.blockers = n
                          /\ "review" \in fresh => (review.complete <=> n # 0)
    BY DEF SummariesAgreeUnlessCut
  <2>1. intake # NoFile
    BY DEF IsWhole, NoFile
  <2>2. PICK issues : AfterTheSlice(issues)
    BY <2>1 DEF SummaryInv, BeforeTheSlice
  <2>3. intake.issues = issues
    BY <2>2, SummaryRecords DEF AfterTheSlice
  <2>4. overview.blockers = Count(issues) /\ overview.append = AppendReady(issues)
    BY <2>2, SummaryRecords DEF AfterTheSlice
  <2>5. "workflow" \in fresh => workflow.blockers = Count(issues)
    BY <2>2, SummaryRecords DEF AfterTheSlice
  <2>6. "backlog" \in fresh =>
          /\ backlog.blockers = Count(issues)
          /\ backlog.append = AppendReady(issues)
          /\ backlog.fields = FieldReady(issues)
    BY <2>2, SummaryRecords DEF AfterTheSlice
  <2>7. review # NoFile => review.blockers = Count(issues)
    BY <2>2, SummaryRecords DEF AfterTheSlice
  <2>8. "review" \in fresh => (review.complete <=> Count(issues) # 0)
    BY <2>2, SummaryRecords DEF AfterTheSlice
  <2>9. AppendReady(issues) => FieldReady(issues) = Priced \cup {"source"}
    BY ReadySliceIsFree
  <2>10. QED BY <2>3, <2>4, <2>5, <2>6, <2>7, <2>8, <2>9
<1>2. QED BY <1>1, SummaryAlways, PTL

=============================================================================
