--------------------------- MODULE PositionReviews ---------------------------
(***************************************************************************)
(* What a poll of execution/binder/monitor.py says of the orders and of    *)
(* the positions, and the proposals it derives from the reviews.           *)
(* Percentages are those of MonitoringPolicy; a quantity proposed counts   *)
(* halves, so that a reduction stays exact.                                *)
(***************************************************************************)
EXTENDS TradeProposals

take_profit_pct == 10
stop_loss_pct == -5
reduce_above_pct == 6

(* _observe: what is told of an order whose status was previous. *)
Observe(order, previous) ==
  [id |-> order.id, previous |-> previous, current |-> order.status,
   filled |-> order.filled, remaining |-> RemainingQuantity(order),
   changed |-> order.status # previous,
   stale |-> /\ order.status = previous
             /\ ~ IsPartiallyFilled(order)
             /\ order.status \in {"PENDING_SUBMIT", "ACCEPTED"}]

------------------------------------------------------------------------------
(* _review: which of the reasons for a review applies, and what it         *)
(* suggests.  snapshot is Nothing when no state came with the poll, and    *)
(* when the state has no data for the symbol.                              *)
Trigger(position, snapshot) ==
  LET pct == UnrealizedPct(position)
      degraded == /\ snapshot # Nothing
                  /\ snapshot[1].provenance.quality \in {"STALE", "MISSING"}
      judged == ~ degraded /\ pct # Nothing
  IN CASE degraded -> "stale_market"
       [] ~ degraded /\ pct = Nothing -> "unknown_pnl"
       [] judged /\ AtMost(pct, stop_loss_pct) -> "stop_loss"
       [] judged /\ AtLeast(pct, take_profit_pct) -> "take_profit"
       [] judged /\ AtLeast(pct, reduce_above_pct) /\ ~ AtLeast(pct, take_profit_pct) ->
            "profit_protect"
       [] OTHER -> "stable"

SuggestedAction(trigger) ==
  CASE trigger = "stale_market" -> "NO_ACTION"
    [] trigger \in {"stop_loss", "take_profit"} -> "CLOSE"
    [] trigger = "profit_protect" -> "REDUCE"
    [] OTHER -> "KEEP"

Review(position, portfolio, snapshot) ==
  LET trigger == Trigger(position, snapshot)
  IN [symbol |-> position.symbol, quantity |-> position.quantity,
      pct |-> UnrealizedPct(position), trigger |-> trigger,
      action |-> SuggestedAction(trigger),
      metrics |-> RiskMetrics(portfolio)]

(* A poll with a state looks the snapshots up in it. *)
SnapshotIn(state, symbol) == IF state = Nothing THEN Nothing ELSE state[1].market[symbol]

Reviews(portfolio, state) ==
  {Review(p, portfolio, SnapshotIn(state, p.symbol)) : p \in portfolio.positions}

------------------------------------------------------------------------------
(* PositionReevaluationEngine *)
QuantityForSigned(action, review) ==
  CASE action \in {"CLOSE", "ADD"} -> 2 * review.quantity
    [] action = "REDUCE" -> review.quantity
    [] OTHER -> 0

QuantityForHeld(action, review) ==
  IF action \in {"CLOSE", "REDUCE", "ADD"} THEN 2 * Magnitude(review.quantity) ELSE 0

QuantityFor(action, review) ==
  CASE action \in {"CLOSE", "ADD"} -> 2 * Magnitude(review.quantity)
    [] action = "REDUCE" -> Magnitude(review.quantity)
    [] OTHER -> 0

ProposalFrom(review, state) ==
  LET action == IF review.action = "KEEP" THEN "NO_ACTION" ELSE review.action
      snapshot == state.market[review.symbol]
      price == IF snapshot = Nothing THEN 0 ELSE snapshot[1].last_price
      quantity == QuantityFor(action, review)
  IN [symbol |-> review.symbol, action |-> action, side |-> SideOf(action),
      halves |-> quantity,
      notional |-> IF price > 0 THEN quantity * price ELSE 0,
      entry_price |-> IF price > 0 THEN <<price>> ELSE Nothing,
      status |-> IF quantity > 0 THEN "VALID" ELSE "ZERO",
      constraint |-> IF action \in Irreversible
                     THEN "x108_authority_required" ELSE "no_broker_order",
      metrics |-> IF state.portfolio = Nothing THEN Nothing
                  ELSE <<RiskMetrics(state.portfolio[1])>>]

(* One proposal per review, when the poll was given a state. *)
ProposalsFrom(reviews, state) == {ProposalFrom(r, state) : r \in reviews}
==============================================================================
