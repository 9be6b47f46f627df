------------------------------- MODULE Ledger -------------------------------
(***************************************************************************)
(* What the virtual trading store promises, without its log: one book per  *)
(* account, changed only by accepted orders on that account and by a reset *)
(* of all of them.  VirtualTrade, which keeps a trade log and rebuilds     *)
(* each book by replay, implements this specification.                     *)
(***************************************************************************)
EXTENDS Account

CONSTANTS
  Accounts,      \* the books of one store: "user" and "ai" in the code
  Quantities,    \* the order sizes, in shares
  Prices,        \* the fill prices, in yen
  Funds,         \* the amounts a store may be reset to, in yen
  DefaultCash    \* the amount both books start with

ASSUME FiniteAssumption     == IsFiniteSet(Tickers)
ASSUME QuantitiesAssumption == Quantities \subseteq {n \in Nat \ {0} : n % Lot = 0}
ASSUME PricesAssumption     == Prices \subseteq Nat
ASSUME FundsAssumption      == Funds \subseteq Nat \ {0}
ASSUME DefaultAssumption    == DefaultCash \in Funds

VARIABLES
  books,         \* books[a]: the book of account a
  initial        \* initial[a]: the cash account a was opened with

vars == <<books, initial>>

Init ==
  /\ initial = [a \in Accounts |-> DefaultCash]
  /\ books   = [a \in Accounts |-> EmptyBook(DefaultCash)]

Buy(a, t, n, price) ==
  /\ CanBuy(books[a], n, price)
  /\ books' = [books EXCEPT ![a] = AfterBuy(@, t, n, price)]
  /\ UNCHANGED initial

Sell(a, t, n, price) ==
  /\ CanSell(books[a], t, n)
  /\ books' = [books EXCEPT ![a] = AfterSell(@, t, n, price)]
  /\ UNCHANGED initial

Reset(cash) ==
  /\ initial' = [a \in Accounts |-> cash]
  /\ books'   = [a \in Accounts |-> EmptyBook(cash)]

Next ==
  \/ \E a \in Accounts, t \in Tickers, n \in Quantities, price \in Prices :
       Buy(a, t, n, price) \/ Sell(a, t, n, price)
  \/ \E cash \in Funds : Reset(cash)

Spec == Init /\ [][Next]_vars

-----------------------------------------------------------------------------
(* Each book is a book, each initial amount an amount of Funds.            *)
TypeOK ==
  /\ books \in [Accounts -> Book]
  /\ initial \in [Accounts -> Funds]

(* No sequence of accepted orders overdraws a book, although a sale can    *)
(* cost tax on top of what it brings in: the tax is recomputed on the      *)
(* cumulative profit, so one sale may have to pay for rounding done in     *)
(* earlier ones.                                                           *)
CashNonNegative == \A a \in Accounts : books[a].cash >= 0

(* The tax withheld by a book is the tax on its net profit so far, however *)
(* gains and losses were interleaved, and never the sum of what each sale  *)
(* would have paid on its own.                                             *)
TaxMatchesProfit == \A a \in Accounts : books[a].withheld = TaxDue(books[a].pnl)

(* A position is a whole number of lots, and a closed position leaves no   *)
(* cost behind that a later purchase would be averaged with.               *)
PositionsSound ==
  \A a \in Accounts, t \in Tickers :
    /\ books[a].shares[t] % Lot = 0
    /\ books[a].shares[t] = 0 => books[a].basis[t] = 0

(* Money is conserved: cash, the cost of what is held and the tax withheld *)
(* add up to the initial amount and the realized profit.                   *)
MoneyConserved ==
  \A a \in Accounts :
    books[a].cash + SumFunction(books[a].basis) + books[a].withheld
      = initial[a] + books[a].pnl

=============================================================================
