----------------------------- MODULE Mechanics -----------------------------
(***************************************************************************)
(* The price and tax arithmetic of papertrade/mechanics.py: the quotation  *)
(* unit (tick) table, the daily price-limit band, the fill price of a      *)
(* market-on-open order and the withholding tax of a specified account.    *)
(*                                                                         *)
(* Prices are integers counted in mills, thousandths of a yen, so that a   *)
(* fixed slippage of a whole number of thousandths is exact.  Cash, profit *)
(* and tax are whole yen: a fill is always a whole number of yen, because  *)
(* the smallest tick is one yen.                                           *)
(***************************************************************************)
EXTENDS Integers, Sequences, FiniteSetsExt

Yen == 1000                          \* mills in one yen
Lot == 100                           \* shares in one trading unit
Sides == {"buy", "sell"}

(* The general quotation-unit table: below `bound` yen the tick is `step`  *)
(* yen, and above the last bound it is TickCatchall.                       *)
TickTable ==
  << [bound |->   3000, step |->   1], [bound |->   5000, step |->   5],
     [bound |->  30000, step |->  10], [bound |->  50000, step |->  50],
     [bound |-> 300000, step |-> 100], [bound |-> 500000, step |-> 500] >>
TickCatchall == 1000

(* The daily price-limit table: below `bound` yen of reference price the   *)
(* band reaches `width` yen to each side.                                  *)
LimitTable ==
  << [bound |->    100, width |->    30], [bound |->    200, width |->    50],
     [bound |->    500, width |->    80], [bound |->    700, width |->   100],
     [bound |->   1000, width |->   150], [bound |->   1500, width |->   300],
     [bound |->   2000, width |->   400], [bound |->   3000, width |->   500],
     [bound |->   5000, width |->   700], [bound |->   7000, width |->  1000],
     [bound |->  10000, width |->  1500], [bound |->  15000, width |->  3000],
     [bound |->  20000, width |->  4000], [bound |->  30000, width |->  5000],
     [bound |->  50000, width |->  7000], [bound |->  70000, width |-> 10000],
     [bound |-> 100000, width |-> 15000], [bound |-> 150000, width |-> 30000] >>

(* The rows of a table whose bound lies strictly above the price: the loop *)
(* of the code stops at the first of them.                                 *)
RowsAbove(table, price) == {i \in DOMAIN table : price < table[i].bound * Yen}

(* The tick, in mills, of the band a price falls in.                       *)
TickSize(price) ==
  LET rows == RowsAbove(TickTable, price)
  IN  Yen * (IF rows = {} THEN TickCatchall ELSE TickTable[Min(rows)].step)

RoundUp(price, step)   == ((price + step - 1) \div step) * step
RoundDown(price, step) == (price \div step) * step

(* Mutant: every order is rounded down.                                    *)
RoundToTickBelow(price, side) == RoundDown(price, TickSize(price))

(* A buy rounds up to the next tick and a sell rounds down.  The tiny      *)
(* epsilon of the code only absorbs the error of binary fractions, which   *)
(* integers do not have.                                                   *)
RoundToTick(price, side) ==
  IF side = "buy" THEN RoundUp(price, TickSize(price))
                  ELSE RoundDown(price, TickSize(price))

(* The lowest and the highest price of the day, from the reference price;  *)
(* above the table the band is a fifth of the reference price.             *)
PriceLimitBand(reference) ==
  LET rows  == RowsAbove(LimitTable, reference)
      width == IF rows = {} THEN reference \div 5
                            ELSE Yen * LimitTable[Min(rows)].width
  IN  [low |-> reference - width, high |-> reference + width]

(* Mutant: the edge of the band itself, which may lie between two ticks.   *)
ClampToEdge(price, reference) ==
  LET band == PriceLimitBand(reference)
  IN  CASE price < band.low  -> [price |-> band.low,  clamped |-> TRUE]
        [] price > band.high -> [price |-> band.high, clamped |-> TRUE]
        [] OTHER             -> [price |-> price, clamped |-> FALSE]

(* A price outside the band is moved to the nearest tick inside it.        *)
ClampToLimit(price, reference) ==
  LET band == PriceLimitBand(reference)
  IN  CASE price < band.low  -> [price |-> RoundToTick(band.low, "buy"),   clamped |-> TRUE]
        [] price > band.high -> [price |-> RoundToTick(band.high, "sell"), clamped |-> TRUE]
        [] OTHER             -> [price |-> price, clamped |-> FALSE]

(* Slippage of `slip` thousandths of an opening price, which is a whole    *)
(* number of yen, against the order: up for a buy.                         *)
ApplySlippage(price, side, slip) ==
  IF side = "buy" THEN price + (price \div Yen) * slip
                  ELSE price - (price \div Yen) * slip

(* A market-on-open fill: slippage, then the tick, then the band of the    *)
(* previous close.                                                         *)
FillPrice(open, prevClose, side, slip) ==
  ClampToLimit(RoundToTick(ApplySlippage(open, side, slip), side), prevClose)

(* Round `quantity` shares down to whole lots.                             *)
RoundLot(quantity) == (quantity \div Lot) * Lot

(* The withholding tax, 20.315 %, due on a cumulative profit, rounded to   *)
(* the nearest yen with halves up.  A cumulative loss owes nothing.        *)
TaxRate == 20315                     \* per hundred thousand

TaxDue(profit) ==
  IF profit <= 0 THEN 0 ELSE (profit * TaxRate + 50000) \div 100000

=============================================================================
