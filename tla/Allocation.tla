----------------------------- MODULE Allocation -----------------------------
(***************************************************************************)
(* How portfolio/simulator.py turns a budget, or a target income, into     *)
(* whole lots of the chosen holdings: the split by capped weights, the     *)
(* knapsack and its greedy fallback, the purchase of the best affordable   *)
(* lot, and the lots bought until a target is reached.                     *)
(*                                                                         *)
(* Money is counted in fractions of a yen, Fraction of them to one yen,    *)
(* and quotients are compared by their products; the float error of the    *)
(* code and its 1e-9 tolerances are left out.  The worth of a lot is what  *)
(* the mode compares: its dividend, conservative or latest, or that        *)
(* weighted by the safety of its holding.  Towards a target a lot earns    *)
(* its own dividend, before or after tax, whatever it was chosen by.       *)
(***************************************************************************)
EXTENDS Integers, FiniteSets, FiniteSetsExt, Sequences, Functions

CONSTANTS
  Holdings,      \* 1 .. n, the priced holdings in their order
  LotCosts, LotWorths, Budgets, Targets,     \* what a request may hold
  Rates,         \* what a unit of worth earns towards a target, of each holding
  Fraction,
  LoopBound,                                 \* 500_000 in _target_shares
  CapNum, CapDen,                            \* _YIELD_WEIGHT_CAP
  CellCap                                    \* _KNAPSACK_CELL_CAP

ASSUME AllocationAssumption ==
  /\ IsFiniteSet(Holdings) /\ Holdings = 1 .. Cardinality(Holdings) /\ Holdings # {}
  /\ LotCosts \subseteq Nat \ {0}
  /\ LotWorths \cup Budgets \cup Targets \subseteq Nat
  /\ {Fraction, CapNum, CapDen} \subseteq Nat \ {0}
  /\ Rates \subseteq [Holdings -> Nat \ {0}]
  /\ LoopBound \in Nat

VARIABLES
  request,       \* mode, cost, worth, rate, budget and target, or NoRequest
  lots,          \* lots bought of each holding
  left,          \* budget, or table capacity, still to be spent
  earned,        \* dividend of the lots bought towards a target
  step           \* "ask", "start", "buy" or "done"

allocVars == <<request, lots, left, earned, step>>

Weighted == {"equal", "safety", "yield"}

NoLots    == [h \in Holdings |-> 0]
NoRequest == [mode |-> "none"]
Total(f)  == FoldFunction(+, 0, f)

Cost  == request.cost
Worth == request.worth
Dividend(h) == Worth[h] * request.rate[h]

AllocInit ==
  /\ request = NoRequest
  /\ lots = NoLots
  /\ left = 0 /\ earned = 0
  /\ step = "ask"

-----------------------------------------------------------------------------
(* _resolve_weights, up to a common factor: equal, by safety, or in        *)
(* proportion to the yield, where a holding without one counts as the      *)
(* smallest there is.                                                      *)
Eligible == {h \in Holdings : Worth[h] > 0}

Product == FoldFunction(LAMBDA a, b : a * b, 1, Cost)
Yield(h) == Worth[h] * (Product \div Cost[h])

RawWeights ==
  CASE request.mode = "yield" /\ Eligible # {} ->
         [h \in Holdings |-> IF h \in Eligible THEN Yield(h) ELSE Min({Yield(g) : g \in Eligible})]
    [] request.mode = "safety" /\ Eligible # {} -> Worth
    [] OTHER -> [h \in Holdings |-> 1]

(* _cap_weights: the weights over the cap are fixed at it and the others   *)
(* scaled to what the fixed ones leave, until none is over.  With few      *)
(* holdings the cap cannot be kept.                                        *)
CapFeasible == Cardinality(Holdings) * CapNum >= CapDen

Remaining(fixed) == CapDen - Cardinality(fixed) * CapNum
Active(fixed)    == Total(Restrict(RawWeights, Holdings \ fixed))

Over(fixed) ==
  {h \in Holdings \ fixed : RawWeights[h] * Remaining(fixed) > CapNum * Active(fixed)}

(* Mutant: the excess is handed to the others once.                        *)
FixedOnce == IF request.mode = "yield" /\ CapFeasible THEN Over({}) ELSE {}

Fixed ==
  LET after[n \in 0 .. Cardinality(Holdings)] ==
        IF n = 0 THEN {} ELSE after[n - 1] \cup Over(after[n - 1])
  IN  IF request.mode = "yield" /\ CapFeasible THEN after[Cardinality(Holdings)] ELSE {}

Weight(h) ==
  LET fixed == Fixed
  IN  IF h \in fixed THEN [num |-> CapNum, den |-> CapDen]
      ELSE [num |-> RawWeights[h] * Remaining(fixed), den |-> CapDen * Active(fixed)]

(* _weighted_floor_shares: what the weight buys, in whole lots.            *)
FloorLots ==
  [h \in Holdings |-> (request.budget * Weight(h).num) \div (Weight(h).den * Cost[h])]

-----------------------------------------------------------------------------
(* Mutant: costs are rounded down, as the budget is.                       *)
CeilDown(x) == x \div Fraction

(* _cash_min_shares: whole yen, costs rounded up and the budget down,      *)
(* divided by what they have in common.                                    *)
Ceil(x)     == (x + Fraction - 1) \div Fraction
YenCost     == [h \in Holdings |-> Ceil(Cost[h])]
YenBudget   == request.budget \div Fraction
TooPoor     == YenBudget < Min(Range(YenCost))
Divides(d)  == YenBudget % d = 0 /\ \A h \in Holdings : YenCost[h] % d = 0
Divisor     == Max({d \in 1 .. YenBudget : Divides(d)})
Reduced(h)  == YenCost[h] \div Divisor
Capacity    == YenBudget \div Divisor
TooLarge    == Capacity * Cardinality(Holdings) > CellCap

(* The table: the most of each capacity that lots can fill, and the first  *)
(* holding that fills so much of it.                                       *)
Best ==
  LET best[c \in 0 .. Capacity] ==
        Max({0} \cup {best[c - Reduced(h)] + Reduced(h) : h \in {g \in Holdings : Reduced(g) <= c}})
  IN  best

(* Mutant: the way back takes the first lot that fits.                     *)
ChoiceFitting(c) == Min({h \in Holdings : Reduced(h) <= c})

Choice(c) ==
  Min({h \in Holdings : Reduced(h) <= c /\ Best[c - Reduced(h)] + Reduced(h) = Best[c]})

(* The most expensive lot that still fits, for a table that is too large;  *)
(* the first of several.                                                   *)
Dearest(S) == Min({h \in S : \A g \in S : YenCost[g] <= YenCost[h]})

(* The best lot for its price, the cheaper of two as good.                 *)
Affordable == {h \in Holdings : Cost[h] <= left /\ Worth[h] > 0}

Better(h, g) ==
  \/ Worth[h] * Cost[g] > Worth[g] * Cost[h]
  \/ Worth[h] * Cost[g] = Worth[g] * Cost[h] /\ Cost[h] <= Cost[g]

BestOf(S) == Min({h \in S : \A g \in S : Better(h, g)})

-----------------------------------------------------------------------------
(* A request of one of the modes; what a mode does not look at is zero.    *)
Requested(modes, worths, rates, budgets, targets) ==
  [mode : modes, cost : [Holdings -> LotCosts], worth : worths, rate : rates,
   budget : budgets, target : targets]

BudgetRequests ==
  Requested({"equal", "cash_min"}, {NoLots}, {NoLots}, Budgets, {0}) \cup
  Requested({"safety", "yield", "dividend_max"}, [Holdings -> LotWorths], {NoLots}, Budgets, {0})

TargetRequests ==
  Requested({"target_best", "target_spread"}, [Holdings -> LotWorths], Rates,
            {0}, Targets)

Ask(req) ==
  /\ step = "ask"
  /\ request' = req
  /\ step' = "start"
  /\ UNCHANGED <<lots, left, earned>>

(* With nothing to maximise, the budget is deployed evenly.                *)
ByWeight == request.mode \in Weighted \/ (request.mode = "dividend_max" /\ Eligible = {})

Nothing ==
  \/ request.mode = "cash_min" /\ TooPoor
  \/ request.mode \in {"target_best", "target_spread"} /\ Eligible = {}

Split ==
  /\ step = "start" /\ ByWeight
  /\ lots' = FloorLots
  /\ step' = "done"
  /\ UNCHANGED <<request, left, earned>>

BuyNothing ==
  /\ step = "start" /\ Nothing
  /\ step' = "done"
  /\ UNCHANGED <<request, lots, left, earned>>

StartBuying ==
  /\ step = "start" /\ ~ByWeight /\ ~Nothing
  /\ step' = "buy"
  /\ left' = CASE request.mode = "cash_min"     -> IF TooLarge THEN YenBudget ELSE Capacity
               [] request.mode = "dividend_max" -> request.budget
               [] OTHER                         -> 0
  /\ UNCHANGED <<request, lots, earned>>

Take(h) == lots' = [lots EXCEPT ![h] = @ + 1]
Finish  == step' = "done" /\ UNCHANGED lots

BuyCash ==
  /\ step = "buy" /\ request.mode = "cash_min"
  /\ IF TooLarge
       THEN LET fits == {h \in Holdings : YenCost[h] <= left}
            IN  IF fits = {} THEN Finish /\ UNCHANGED left
                ELSE LET h == Dearest(fits)
                     IN  Take(h) /\ left' = left - YenCost[h] /\ UNCHANGED step
       ELSE IF left = 0 \/ Best[left] = 0 THEN Finish /\ UNCHANGED left
            ELSE LET h == Choice(left)
                 IN  Take(h) /\ left' = left - Reduced(h) /\ UNCHANGED step
  /\ UNCHANGED <<request, earned>>

BuyDividend ==
  /\ step = "buy" /\ request.mode = "dividend_max"
  /\ IF Affordable = {} THEN Finish /\ UNCHANGED left
     ELSE LET h == BestOf(Affordable)
          IN  Take(h) /\ left' = left - Cost[h] /\ UNCHANGED step
  /\ UNCHANGED <<request, earned>>

(* _target_shares: the loop is bounded, and the best holding is always the *)
(* same; without an optimization the holdings take turns.                  *)
Smallest  == Min({Dividend(h) : h \in Eligible})
LoopCap   == Min({request.target \div Smallest + Cardinality(Holdings) + 1, LoopBound})
Bought    == Total(lots)

Turn(n) ==
  CHOOSE h \in Eligible : Cardinality({g \in Eligible : g < h}) = n % Cardinality(Eligible)

BestWorth == Min({h \in Eligible : \A g \in Eligible : Worth[h] * Cost[g] >= Worth[g] * Cost[h]})

BuyTarget ==
  /\ step = "buy" /\ request.mode \in {"target_best", "target_spread"}
  /\ IF earned >= request.target \/ Bought = LoopCap THEN Finish /\ UNCHANGED earned
     ELSE LET h == IF request.mode = "target_best" THEN BestWorth ELSE Turn(Bought)
          IN  Take(h) /\ earned' = earned + Dividend(h) /\ UNCHANGED step
  /\ UNCHANGED <<request, left>>

AllocNext ==
  \/ \E req \in BudgetRequests \cup TargetRequests : Ask(req)
  \/ Split \/ BuyNothing \/ StartBuying
  \/ BuyCash \/ BuyDividend \/ BuyTarget

AllocSpec == AllocInit /\ [][AllocNext]_allocVars

-----------------------------------------------------------------------------
Spent(f) == Total([h \in Holdings |-> lots[h] * f[h]])

Budgeted == request.mode \in Weighted \cup {"cash_min", "dividend_max"}

(* The budget is a limit: whatever the mode, the weights, the cap and the  *)
(* rounding, the lots bought so far cost no more than it in full money.    *)
NeverOverspends == Budgeted => Spent(Cost) <= request.budget

(* cash_min leaves as little cash, in whole yen, as any choice of lots:    *)
(* the table over reduced costs and the way back through it give the best  *)
(* of all fillings.                                                        *)
Fillings ==
  {f \in [Holdings -> 0 .. YenBudget \div Min(Range(YenCost))] :
     Total([h \in Holdings |-> f[h] * YenCost[h]]) <= YenBudget}

CashMinimal ==
  step = "done" /\ request.mode = "cash_min" /\ (TooPoor \/ ~TooLarge) =>
    \A f \in Fillings : Total([h \in Holdings |-> f[h] * YenCost[h]]) <= Spent(YenCost)

(* "No single name's pre-flooring weight may exceed this share of the      *)
(* budget, however extreme its yield": capping one name and scaling the    *)
(* others up leaves none over the cap.                                     *)
YieldCapped ==
  step = "start" /\ request.mode = "yield" /\ CapFeasible =>
    \A h \in Holdings : Weight(h).num * CapDen <= CapNum * Weight(h).den

=============================================================================
