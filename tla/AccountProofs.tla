--------------------------- MODULE AccountProofs ----------------------------
(***************************************************************************)
(* Proofs about one book: whatever is bought with the cash there is and    *)
(* sold of what is held, it is not overdrawn, the tax withheld is the tax  *)
(* on its profit, its positions are whole lots, and what is not held cost  *)
(* nothing.                                                                *)
(*                                                                         *)
(* These facts need each other only in one place: a sale keeps the cash    *)
(* non-negative because the tax withheld before it is the tax on the       *)
(* profit before it, and the tax grows more slowly than the profit.        *)
(***************************************************************************)
EXTENDS Account, WellFoundedInduction, TLAPS

-----------------------------------------------------------------------------
(* Sets of numbers.                                                        *)

LessThan == {p \in Nat \X Nat : p[1] < p[2]}

(* The order of the natural numbers, as a relation, has no infinite        *)
(* descent.                                                                *)
LEMMA LessThanWellFounded == IsWellFoundedOn(LessThan, Nat)
  BY NatLessThanWellFounded DEF OpToRel, LessThan

(* A non-empty set of natural numbers has a least element, and Min is it.  *)
LEMMA MinFact ==
  ASSUME NEW S \in SUBSET Nat, S # {}
  PROVE  Min(S) \in S /\ \A x \in S : Min(S) <= x
<1>1. PICK m \in S : \A x \in S : ~ (<<x, m>> \in LessThan)
  BY LessThanWellFounded, WFMin
<1>2. \A x \in S : ~ (x < m)
  BY <1>1 DEF LessThan
<1>3. \A x \in S : m <= x
  BY <1>2
<1>4. \E x \in S : \A y \in S : x <= y
  BY <1>3
<1>5. Min(S) \in S
  BY <1>4 DEF Min
<1>6. \A y \in S : Min(S) <= y
  <2> DEFINE P(x) == x \in S /\ \A y \in S : x <= y
  <2>1. \E x : P(x)
    BY <1>4
  <2>2. P(CHOOSE x : P(x))
    BY <2>1
  <2>3. Min(S) = CHOOSE x : P(x)
    BY DEF Min
  <2>4. QED BY <2>2, <2>3
<1>7. QED BY <1>5, <1>6

(* Max is the greatest element of a non-empty set of naturals that has a   *)
(* bound.                                                                  *)
LEMMA BoundedMax ==
  ASSUME NEW n \in Nat, NEW S \in SUBSET (0..n), S # {}
  PROVE  Max(S) \in S /\ \A x \in S : x <= Max(S)
<1> DEFINE C == {n - x : x \in S}
<1>1. C \in SUBSET Nat /\ C # {}
  <2>1. \A x \in S : n - x \in Nat
    OBVIOUS
  <2>2. PICK x \in S : TRUE
    OBVIOUS
  <2>3. n - x \in C
    OBVIOUS
  <2>4. QED BY <2>1, <2>3
<1>2. Min(C) \in C /\ \A x \in C : Min(C) <= x
  BY <1>1, MinFact
<1>3. PICK m \in S : Min(C) = n - m
  BY <1>2
<1>4. \A x \in S : n - m <= n - x
  BY <1>2, <1>3
<1>5. \A x \in S : m >= x
  BY <1>4
<1>6. Max(S) = CHOOSE x \in S : \A y \in S : x >= y
  BY DEF Max
<1>7. QED BY <1>5, <1>6

(* So is it of a set of dates, rows or ids.                                *)
LEMMA MaxFact ==
  ASSUME NEW n \in Nat, NEW S \in SUBSET (1..n), S # {}
  PROVE  Max(S) \in S /\ \A x \in S : x <= Max(S)
<1>1. S \in SUBSET (0..n)
  OBVIOUS
<1>2. QED BY ONLY <1>1, n \in Nat, S # {}, BoundedMax

-----------------------------------------------------------------------------
(* The tax.                                                                *)

(* The tax due is a natural number.                                        *)
LEMMA TaxDueType ==
  ASSUME NEW x \in Int
  PROVE  TaxDue(x) \in Nat
  BY DEF TaxDue, TaxRate

(* The tax due grows by no more than what the profit grows by.             *)
LEMMA TaxDueSlope ==
  ASSUME NEW x \in Int, NEW y \in Int, NEW n \in Nat, y <= n
  PROVE  TaxDue(x + y) - TaxDue(x) <= n
<1>1. CASE x + y <= 0
  BY <1>1, TaxDueType DEF TaxDue
<1>2. CASE x + y > 0 /\ x <= 0
  BY <1>2 DEF TaxDue, TaxRate
<1>3. CASE x + y > 0 /\ x > 0
  BY <1>3 DEF TaxDue, TaxRate
<1>4. QED BY <1>1, <1>2, <1>3

-----------------------------------------------------------------------------
(* One book.                                                               *)

(* What every reachable book satisfies.                                    *)
Sound(book) ==
  /\ book \in Book
  /\ book.cash >= 0
  /\ book.withheld = TaxDue(book.pnl)
  /\ \A t \in Tickers : /\ book.shares[t] % Lot = 0
                        /\ book.shares[t] = 0 => book.basis[t] = 0

(* An account opened with a positive amount is sound.                      *)
LEMMA EmptySound ==
  ASSUME NEW cash \in Nat
  PROVE  Sound(EmptyBook(cash))
  BY DEF Sound, EmptyBook, Book, TaxDue, Lot

(* An affordable purchase keeps a book sound.                              *)
LEMMA BuyKeepsSound ==
  ASSUME NEW book, Sound(book), NEW t \in Tickers,
         NEW n \in Nat \ {0}, n % Lot = 0, NEW price \in Nat,
         CanBuy(book, n, price)
  PROVE  Sound(AfterBuy(book, t, n, price))
<1> DEFINE after == AfterBuy(book, t, n, price)
<1>1. book \in Book
  BY DEF Sound
<1>2. n * price \in Nat
  OBVIOUS
<1>3. after = [cash     |-> book.cash - n * price,
               shares   |-> [book.shares EXCEPT ![t] = @ + n],
               basis    |-> [book.basis EXCEPT ![t] = @ + n * price],
               pnl      |-> book.pnl,
               withheld |-> book.withheld]
  BY <1>1 DEF AfterBuy, Book
<1> HIDE DEF after
<1>4. after \in Book
  BY <1>1, <1>2, <1>3 DEF Book
<1>5. after.cash >= 0
  BY <1>1, <1>2, <1>3 DEF CanBuy, Book
<1>6. after.withheld = TaxDue(after.pnl)
  BY <1>3 DEF Sound
<1>7. ASSUME NEW u \in Tickers
      PROVE  after.shares[u] % Lot = 0 /\ (after.shares[u] = 0 => after.basis[u] = 0)
  <2>1. book.shares[u] \in Nat /\ book.shares[u] % Lot = 0 /\ (book.shares[u] = 0 => book.basis[u] = 0)
    BY <1>1 DEF Sound, Book
  <2>2. CASE u = t
    <3>1. after.shares[u] = book.shares[u] + n
      BY <1>1, <1>3, <2>2 DEF Book
    <3>2. QED BY <2>1, <3>1 DEF Lot
  <2>3. CASE u # t
    BY <1>1, <1>3, <2>1, <2>3 DEF Book
  <2>4. QED BY <2>2, <2>3
<1>8. QED BY <1>4, <1>5, <1>6, <1>7 DEF Sound, after

(* The cost of the shares sold is a whole number of yen, at most the cost  *)
(* of the whole position, and exactly that when the position is closed.    *)
LEMMA CostOfBounds ==
  ASSUME NEW book \in Book, NEW t \in Tickers, NEW n \in Nat \ {0},
         n <= book.shares[t]
  PROVE  /\ CostOf(book, t, n) \in Nat
         /\ CostOf(book, t, n) <= book.basis[t]
         /\ n = book.shares[t] => CostOf(book, t, n) = book.basis[t]
<1> DEFINE s == book.shares[t]
           b == book.basis[t]
<1>1. s \in Nat /\ b \in Nat /\ s > 0 /\ n <= s
  BY DEF Book
<1>2. CASE n = s
  BY <1>1, <1>2 DEF CostOf
<1>3. CASE n # s
  <2> DEFINE q == (b * n) \div s
  <2>1. CostOf(book, t, n) = q
    BY <1>3 DEF CostOf
  <2> HIDE DEF s, b
  <2>2. q \in Int /\ s * q <= b * n /\ b * n < s * (q + 1)
    BY <1>1
  <2>3. b * n <= b * s /\ 0 <= b * n
    BY <1>1
  <2> HIDE DEF q
  <2>4. q >= 0
    BY <1>1, <2>2, <2>3
  <2>5. q <= b
    BY <1>1, <2>2, <2>3
  <2>6. QED BY <1>1, <1>3, <2>1, <2>2, <2>4, <2>5 DEF s, b
<1>4. QED BY <1>2, <1>3

(* A sale of shares that are held keeps a book sound.                      *)
LEMMA SellKeepsSound ==
  ASSUME NEW book, Sound(book), NEW t \in Tickers,
         NEW n \in Nat \ {0}, n % Lot = 0, NEW price \in Nat,
         CanSell(book, t, n)
  PROVE  Sound(AfterSell(book, t, n, price))
<1> DEFINE after  == AfterSell(book, t, n, price)
           cost   == CostOf(book, t, n)
           profit == n * price - cost
           tax    == TaxDue(book.pnl + profit)
<1>1. book \in Book /\ n <= book.shares[t]
  BY DEF Sound, CanSell
<1>2. /\ cost \in Nat /\ cost <= book.basis[t]
      /\ n = book.shares[t] => cost = book.basis[t]
  BY <1>1, CostOfBounds
<1>3. n * price \in Nat
  OBVIOUS
<1>4. after = [cash     |-> book.cash + n * price - (tax - book.withheld),
               shares   |-> [book.shares EXCEPT ![t] = @ - n],
               basis    |-> [book.basis EXCEPT ![t] = @ - cost],
               pnl      |-> book.pnl + profit,
               withheld |-> tax]
  BY <1>1 DEF AfterSell, TaxDelta, Book
<1> HIDE DEF after, cost
<1>5. profit \in Int /\ profit <= n * price /\ book.pnl \in Int /\ book.cash \in Int /\ book.cash >= 0
  BY <1>1, <1>2, <1>3 DEF Book, Sound
<1> HIDE DEF profit
<1>6. tax \in Nat
  BY <1>5, TaxDueType
<1>7. tax - TaxDue(book.pnl) <= n * price
  BY <1>3, <1>5, TaxDueSlope
<1>8. book.withheld = TaxDue(book.pnl) /\ book.withheld \in Nat
  BY <1>1 DEF Sound, Book
<1> HIDE DEF tax
<1>9. after \in Book
  <2>1. book.shares[t] - n \in Nat /\ book.basis[t] - cost \in Nat
    BY <1>1, <1>2 DEF Book
  <2>2. book.cash + n * price - (tax - book.withheld) \in Int
    BY <1>3, <1>5, <1>6, <1>8
  <2>3. QED BY <1>1, <1>4, <1>5, <1>6, <2>1, <2>2 DEF Book
<1>10. after.cash >= 0
  BY <1>3, <1>4, <1>5, <1>6, <1>7, <1>8
<1>11. after.withheld = TaxDue(after.pnl)
  BY <1>4 DEF tax
<1>12. ASSUME NEW u \in Tickers
       PROVE  after.shares[u] % Lot = 0 /\ (after.shares[u] = 0 => after.basis[u] = 0)
  <2>1. book.shares[u] \in Nat /\ book.basis[u] \in Nat /\ book.shares[u] % Lot = 0
        /\ (book.shares[u] = 0 => book.basis[u] = 0)
    BY <1>1 DEF Sound, Book
  <2>2. CASE u = t
    <3>1. after.shares[u] = book.shares[u] - n /\ after.basis[u] = book.basis[u] - cost
      BY <1>1, <1>4, <2>2 DEF Book
    <3>2. after.shares[u] % Lot = 0
      BY <2>1, <3>1 DEF Lot
    <3>3. after.shares[u] = 0 => after.basis[u] = 0
      BY <1>2, <2>1, <2>2, <3>1
    <3>4. QED BY <3>2, <3>3
  <2>3. CASE u # t
    BY <1>1, <1>4, <2>1, <2>3 DEF Book
  <2>4. QED BY <2>2, <2>3
<1>13. QED BY <1>9, <1>10, <1>11, <1>12 DEF Sound, after

=============================================================================
