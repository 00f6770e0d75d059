--------------------------- MODULE AlpacaReadings ---------------------------
(***************************************************************************)
(* What the Alpaca adapters make of the provider's payloads, and of a plan *)
(* the payload of an order: alpaca_broker.py, alpaca_market.py and the     *)
(* snapshot of domain/market.py.  A number that a payload may lack, or     *)
(* that does not read as one, is Nothing.  Every block is stamped with the *)
(* instant at which it is read and declared LIVE.                          *)
(***************************************************************************)
EXTENDS BrokerOrders, Portfolio

Provenance(at, quality, reasons) == [at |-> at, quality |-> quality, reasons |-> reasons]
LiveAt(at) == Provenance(at, "LIVE", {})

------------------------------------------------------------------------------
(* The account.  AccountReads fails where a required number is missing.    *)
AccountReads(payload) ==
  payload.equity # Nothing /\ payload.cash # Nothing /\ payload.buying_power # Nothing

AccountFrom(payload, at) ==
  [equity |-> payload.equity[1], last_equity |-> payload.last_equity,
   trading_blocked |-> payload.trading_blocked \/ payload.account_blocked,
   provenance |-> LiveAt(at)]

(* The highest of two equities: the code keeps no older peak.              *)
PeakEquity(account) ==
  IF account.last_equity # Nothing /\ account.last_equity[1] > account.equity
  THEN account.last_equity[1] ELSE account.equity

(* A negative quantity stays negative; side "short" makes any other so.    *)
SignedQuantity(payload) ==
  IF payload.side = "short" THEN -Magnitude(payload.qty) ELSE payload.qty

PositionFrom(payload, at) ==
  [symbol |-> payload.symbol, quantity |-> SignedQuantity(payload),
   entry |-> payload.avg_entry_price, current_price |-> payload.current_price,
   market_value |-> payload.market_value, unrealized_pnl |-> payload.unrealized_pl,
   updated_at |-> at, provenance |-> LiveAt(at)]

OrderFromUnfilled(payload, at) ==
  [id |-> payload.id, symbol |-> payload.symbol,
   side |-> IF payload.side = "buy" THEN "BUY" ELSE "SELL",
   quantity |-> payload.qty, filled |-> 0,
   status |-> Status(payload.status), provenance |-> LiveAt(at)]

OrderFrom(payload, at) ==
  [id |-> payload.id, symbol |-> payload.symbol,
   side |-> IF payload.side = "buy" THEN "BUY" ELSE "SELL",
   quantity |-> payload.qty, filled |-> payload.filled_qty,
   status |-> Status(payload.status), provenance |-> LiveAt(at)]

PortfolioFrom(account, positions, open_orders) ==
  [account |-> account, positions |-> positions, open_orders |-> open_orders,
   peak_equity |-> PeakEquity(account)]

------------------------------------------------------------------------------
(* The order a plan becomes.  Neither the protective prices of the plan    *)
(* nor reduce_only are part of it.                                         *)
OrderPayload(plan) ==
  [symbol |-> plan.symbol, qty |-> plan.quantity,
   side |-> IF plan.side = "BUY" THEN "buy" ELSE "sell",
   type |-> plan.order_type, client_order_id |-> plan.client_order_id]

(* The broker's answer to it: one fill, if a quantity and its price came.  *)
ExecutionFrom(plan, payload) ==
  [submitted |-> TRUE, status |-> Status(payload.status), id |-> payload.id,
   filled |-> IF payload.filled_avg_price # Nothing THEN payload.filled_qty ELSE 0,
   quantity |-> plan.quantity]
IsPartial(execution) == 0 < execution.filled /\ execution.filled < execution.quantity

NoId == 0

Refused(plan) ==
  [submitted |-> FALSE, status |-> "REJECTED", id |-> NoId, filled |-> 0,
   quantity |-> plan.quantity]

------------------------------------------------------------------------------
(* The market.  A snapshot needs the price of a trade, of whatever age; no *)
(* quote makes it DELAYED; it is always tradable and its market never      *)
(* known to be closed.                                                     *)
SnapshotReads(payload) == payload.price # Nothing /\ payload.price[1] > 0

SnapshotFrom(payload, at) ==
  [symbol |-> payload.symbol, last_price |-> payload.price[1],
   provenance |->
     IF payload.quoted THEN LiveAt(at)
     ELSE Provenance(at, "DELAYED", {"quote L1 indisponible"}),
   tradable |-> TRUE, market_open |-> "unknown"]
==============================================================================
