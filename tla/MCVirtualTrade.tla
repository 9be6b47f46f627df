--------------------------- MODULE MCVirtualTrade ---------------------------
(***************************************************************************)
(* A small instance of VirtualTrade.  Two tickers of one sector and three  *)
(* bar dates.  The first price file has both tickers on the first date;    *)
(* from then on t2 fails to fetch and keeps its existing bars.  The second *)
(* file has t1 on the third date too, and the third file fills in the date *)
(* that was missing between.  Closes of 2.5 and 3 yen make the tick        *)
(* rounding matter, and the rise of t1 to 3.5 yen passes the take-profit   *)
(* of a position bought at 3 yen.                                          *)
(***************************************************************************)
EXTENDS VirtualTrade

CONSTANTS h1, h2, t1, t2

MCTickerOrder == <<t1, t2>>

MCBars(dates) ==
  [t \in Tickers |-> IF t = t1 THEN [d \in dates \cap Dates |-> 1500 + 1000 * d]
                               ELSE 1 :> 3000]
MCBarFiles == << MCBars({1}), MCBars({1, 3}), MCBars({1, 2, 3}) >>

MCSector == [t \in Tickers |-> "s"]

MCTargetPositions == [p \in Presets |-> IF p = DefaultPreset THEN 2 ELSE 1]
MCMaxPerSector    == [p \in Presets |-> 2]
MCStopLoss        == [p \in Presets |-> -8]
MCTakeProfit      == [p \in Presets |-> 15]

(* The second ticker ranks first.                                          *)
MCRanking == [f \in Files |-> [p \in Presets |-> [d \in Dates |-> <<t2, t1>>]]]

Symmetry == Permutations(Handlers)

MCFunds == {DefaultCash, 1000}

=============================================================================
