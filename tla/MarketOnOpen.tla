---------------------------- MODULE MarketOnOpen ----------------------------
(***************************************************************************)
(* The fill of one market-on-open order, fill_price of                     *)
(* papertrade/mechanics.py: slippage, then the tick, then the price limit  *)
(* of the day.                                                             *)
(***************************************************************************)
EXTENDS Mechanics

CONSTANTS
  Quotes,        \* opening prices and previous closes, in yen
  Slippages      \* in thousandths

ASSUME QuotesAssumption    == Quotes \subseteq Nat \ {0}
ASSUME SlippagesAssumption == Slippages \subseteq 0 .. 1000

VARIABLES order, fill
fillVars == <<order, fill>>

Pending == [clamped |-> FALSE, price |-> -1]

FillInit ==
  /\ order \in [open: {q * Yen : q \in Quotes}, prevClose: {q * Yen : q \in Quotes},
                side: Sides, slip: Slippages]
  /\ fill = Pending

Fill ==
  /\ fill = Pending
  /\ fill' = FillPrice(order.open, order.prevClose, order.side, order.slip)
  /\ UNCHANGED order

FillSpec == FillInit /\ [][Fill]_fillVars

-----------------------------------------------------------------------------
(* What clamp_to_limit says of the price it returns, for every fill: it    *)
(* can be quoted (it is a whole number of the ticks of its own band, which *)
(* need not be the band it was rounded in) and does not escape the price   *)
(* limit of the day.                                                       *)
QuotableInBand ==
  fill # Pending =>
    LET band == PriceLimitBand(order.prevClose)
    IN  /\ fill.price % TickSize(fill.price) = 0
        /\ band.low <= fill.price /\ fill.price <= band.high

(* Within the limit no order fills better than the open, the costs of      *)
(* slippage included, and none is a whole tick worse than that.            *)
NeverBetterThanOpen ==
  fill # Pending /\ ~fill.clamped =>
    LET cost == (order.open \div Yen) * order.slip
    IN  IF order.side = "buy"
          THEN LET asked == order.open + cost
               IN  asked <= fill.price /\ fill.price < asked + TickSize(asked)
          ELSE LET bid == order.open - cost
               IN  fill.price <= bid /\ bid - TickSize(bid) < fill.price

=============================================================================
