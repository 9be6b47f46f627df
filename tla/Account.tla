------------------------------ MODULE Account ------------------------------
(***************************************************************************)
(* The cash and position book of papertrade/account.py, as operators on a  *)
(* book record:                                                            *)
(*                                                                         *)
(*   cash       yen in hand (order-date accounting)                        *)
(*   shares[t]  shares held of ticker t, 0 when the code has no position   *)
(*   basis[t]   what the shares held of t cost: avg_cost * shares          *)
(*   pnl        cumulative realized profit, kept both by Account and by    *)
(*              its TaxLedger                                              *)
(*   withheld   tax withheld so far                                        *)
(*                                                                         *)
(* The moving average cost is kept as its product with the shares held, a  *)
(* whole number of yen; a partial sale takes its share of it, rounded      *)
(* down, where the code keeps a binary fraction.  The commission model is  *)
(* ZERO_COMMISSION, the only one the virtual book uses.                    *)
(***************************************************************************)
EXTENDS Mechanics

CONSTANT Tickers

Book == [cash: Int, shares: [Tickers -> Nat], basis: [Tickers -> Nat],
         pnl: Int, withheld: Nat]

EmptyBook(cash) ==
  [cash |-> cash, shares |-> [t \in Tickers |-> 0], basis |-> [t \in Tickers |-> 0],
   pnl |-> 0, withheld |-> 0]

-----------------------------------------------------------------------------
(* Buying: refused when the notional exceeds the cash, otherwise the cash  *)
(* pays for the shares and the cost basis grows by the notional.           *)

(* Mutant: the price of one share is compared, not the notional.           *)
CanBuyOne(book, n, price) == price <= book.cash

CanBuy(book, n, price) == n * price <= book.cash

AfterBuy(book, t, n, price) ==
  [cash     |-> book.cash - n * price,
   shares   |-> [book.shares EXCEPT ![t] = @ + n],
   basis    |-> [book.basis  EXCEPT ![t] = @ + n * price],
   pnl      |-> book.pnl,
   withheld |-> book.withheld]

-----------------------------------------------------------------------------
(* Selling: refused beyond the position.  The profit is measured against   *)
(* the average cost, joins the cumulative profit, and the cash receives    *)
(* the notional less the change of the tax due on that profit (a refund    *)
(* when a loss follows a gain).                                            *)

CanSell(book, t, n) == n <= book.shares[t]

CostOf(book, t, n) ==
  IF n = book.shares[t] THEN book.basis[t]
                        ELSE (book.basis[t] * n) \div book.shares[t]

(* What record_realized_pnl returns: the tax to withhold, negative for a   *)
(* refund.                                                                 *)
TaxDelta(book, profit) == TaxDue(book.pnl + profit) - book.withheld

(* Mutants: each gain is taxed on its own; the tax is not taken from cash. *)
AfterSellTaxedAlone(book, t, n, price) ==
  LET cost   == CostOf(book, t, n)
      profit == n * price - cost
  IN  [cash     |-> book.cash + n * price - TaxDue(profit),
       shares   |-> [book.shares EXCEPT ![t] = @ - n],
       basis    |-> [book.basis  EXCEPT ![t] = @ - cost],
       pnl      |-> book.pnl + profit,
       withheld |-> book.withheld + TaxDue(profit)]
AfterSellUntaxed(book, t, n, price) ==
  LET cost   == CostOf(book, t, n)
      profit == n * price - cost
  IN  [cash     |-> book.cash + n * price,
       shares   |-> [book.shares EXCEPT ![t] = @ - n],
       basis    |-> [book.basis  EXCEPT ![t] = @ - cost],
       pnl      |-> book.pnl + profit,
       withheld |-> TaxDue(book.pnl + profit)]

AfterSell(book, t, n, price) ==
  LET cost   == CostOf(book, t, n)
      profit == n * price - cost
  IN  [cash     |-> book.cash + n * price - TaxDelta(book, profit),
       shares   |-> [book.shares EXCEPT ![t] = @ - n],
       basis    |-> [book.basis  EXCEPT ![t] = @ - cost],
       pnl      |-> book.pnl + profit,
       withheld |-> TaxDue(book.pnl + profit)]

-----------------------------------------------------------------------------
(* One order, whichever its side: the reason it is refused for, and the    *)
(* book after it when it is not.                                           *)

Refusal(book, order) ==
  CASE order.side = "buy"  /\ ~CanBuy(book, order.shares, order.price) -> "insufficient_cash"
    [] order.side = "sell" /\ ~CanSell(book, order.ticker, order.shares) -> "oversell"
    [] OTHER -> "none"

Execute(book, order) ==
  IF order.side = "buy"
    THEN AfterBuy(book, order.ticker, order.shares, order.price)
    ELSE AfterSell(book, order.ticker, order.shares, order.price)

=============================================================================
