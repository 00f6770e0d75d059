----------------------------- MODULE AlpacaStatus -----------------------------
(***************************************************************************)
(* The broker's words for the state of an order, and the names the system  *)
(* gives them: OrderStatus of domain/types.py and _status of               *)
(* market/adapters/alpaca/alpaca_broker.py.                                *)
(***************************************************************************)
OrderStatuses == {
  "PENDING_SUBMIT", "ACCEPTED", "PARTIALLY_FILLED", "FILLED",
  "CANCELED", "REJECTED", "EXPIRED", "UNKNOWN" }

(* OrderStatus.is_terminal *)
TerminalStatuses == {"FILLED", "CANCELED", "REJECTED", "EXPIRED"}

(* _status: any word it does not know, or none at all, is UNKNOWN. *)
Status(word) ==
  CASE word \in {"new", "accepted", "pending_new", "accepted_for_bidding"} ->
         "ACCEPTED"
    [] word = "partially_filled" -> "PARTIALLY_FILLED"
    [] word \in {"filled", "done_for_day"} -> "FILLED"
    [] word \in {"canceled", "cancelled", "pending_cancel"} -> "CANCELED"
    [] word \in {"rejected", "stopped", "suspended", "calculated"} -> "REJECTED"
    [] word = "expired" -> "EXPIRED"
    [] word \in {"pending_submit", "pending_replace", "replaced"} -> "PENDING_SUBMIT"
    [] OTHER -> "UNKNOWN"
==============================================================================
