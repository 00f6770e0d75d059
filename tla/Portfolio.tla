------------------------------ MODULE Portfolio ------------------------------
(***************************************************************************)
(* What a portfolio says of itself: domain/portfolio.py.  An amount that   *)
(* the broker may leave out is Nothing or <<amount>>; a ratio is kept as   *)
(* its two terms, and compared with a percentage without a division.       *)
(***************************************************************************)
EXTENDS Integers, Sequences, FiniteSets, FiniteSetsExt

Nothing == <<>>

Magnitude(n) == IF n < 0 THEN -n ELSE n
NotBelow0(n) == IF n < 0 THEN 0 ELSE n

------------------------------------------------------------------------------
CostBasis(p) == Magnitude(p.quantity) * p.entry

(* The broker's own value, or the quantity at the current price.           *)
Value(p) ==
  IF p.market_value # Nothing \/ p.current_price = Nothing
  THEN p.market_value
  ELSE <<p.quantity * p.current_price[1]>>

UnrealizedPct(p) ==
  IF p.unrealized_pnl = Nothing \/ CostBasis(p) <= 0 THEN Nothing
  ELSE <<p.unrealized_pnl[1], CostBasis(p)>>

AtMost(ratio, percent) == 100 * ratio[1] <= percent * ratio[2]
AtLeast(ratio, percent) == 100 * ratio[1] >= percent * ratio[2]

RemainingQuantity(o) == NotBelow0(o.quantity - o.filled)
IsPartiallyFilled(o) == 0 < o.filled /\ o.filled < o.quantity

------------------------------------------------------------------------------
(* The block that the kernel and the cockpit read, every ratio over the    *)
(* equity as its first term; without equity there is no ratio.  A position *)
(* without a known value counts for nothing but itself.                    *)
Valued(portfolio) == {p \in portfolio.positions : Value(p) # Nothing}

RiskMetrics(portfolio) ==
  LET equity == portfolio.account.equity
      gross(p) == Magnitude(Value(p)[1])
      known == Valued(portfolio)
      peak == portfolio.peak_equity
      OverEquity(f(_)) ==
        IF equity <= 0 THEN 0 ELSE FoldSet(LAMBDA p, acc : f(p) + acc, 0, known)
  IN [gross_exposure |-> OverEquity(gross),
      net_exposure |-> OverEquity(LAMBDA p : Value(p)[1]),
      drawdown |-> IF peak <= 0 THEN 0 ELSE NotBelow0(peak - equity),
      concentration |->
        IF equity <= 0 \/ known = {} THEN 0 ELSE Max({gross(p) : p \in known}),
      position_count |-> Cardinality(portfolio.positions),
      open_order_count |-> Cardinality(portfolio.open_orders)]
==============================================================================
